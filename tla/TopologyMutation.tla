-------------------------- MODULE TopologyMutation --------------------------
(***************************************************************************)
(* The hot topology transactions of a READY GFArchitecture: a module is    *)
(* registered, replaced or unregistered by one continuation that runs      *)
(* through hooks and awaits, while anyone may fail, restart, shut down or  *)
(* dispose the architecture.                                               *)
(*                                                                         *)
(* An action is the code from one hook or await to the next, as in         *)
(* ArchitectureLifecycle, whose subject (how init() gets to READY, how     *)
(* shutdown results are made, in which order modules are released) is one  *)
(* coarse step or left open here.                                          *)
(***************************************************************************)
EXTENDS KernelRuntime, FiniteSets

CONSTANTS
  Keys,           \* script classes modules are registered under
  Instances,      \* module instances
  KeyOf,          \* [Instances -> Keys]
  Deps,           \* [Keys -> SUBSET Keys], the declared local dependencies
  Children,       \* child architectures that may lease dependencies
  MaxGeneration,  \* bound on the lifecycle generation
  AsyncTimeout,   \* is module_async_init_timeout_seconds > 0?
  Tx,             \* the kernel transaction of a topology mutation
  NoOne           \* no instance

ASSUME TopologyAssumption ==
  /\ KeyOf \in [Instances -> Keys]
  /\ Deps \in [Keys -> SUBSET Keys]
  /\ MaxGeneration \in Nat
  /\ AsyncTimeout \in BOOLEAN
  /\ Tx \in TransactionIds
  /\ NoOne \notin Instances

VARIABLES
  registry,     \* [Keys -> Instances \cup {NoOne}]
  activePlan,   \* _active_lifecycle_plan
  mutation,     \* _topology_mutation # null: its continuation owns it
  continuation, \* the coroutine of the transaction
  gate,         \* TopologyMutation._gate of the last transaction
  asyncInit,    \* the async_init coroutine of each candidate
  staleBlocks,  \* _stale_async_write_block_count
  service,      \* _services, one key: its provider
  leases,       \* _child_external_dependency_leases
  settlement,   \* _fail_initialization() in progress: what it has to dispose
  closing,      \* _force_dispose_internal() in progress: likewise
  claims,       \* _module_disposal_claims
  shutdown,     \* the shutdown_async() that owns the flow
  disposed,     \* history: how often dispose() ran on each instance
  asked,        \* history: how often begin_quiesce() ran on each instance
  taken         \* history: instances whose ownership was accepted

ownVars == <<claims, disposed, service>>
asyncVars == <<asyncInit, staleBlocks>>
planVars == <<registry, activePlan>>
passVars == <<settlement, closing, shutdown>>
mutationVars == <<mutation, gate, continuation>>

vars == <<runtimeVars, planVars, mutationVars, asyncVars, leases, passVars,
          ownVars, asked, taken>>

Idle ==
  [pc |-> "none", op |-> "none", key |-> NoOne, candidate |-> NoOne,
   previous |-> NoOne, serial |-> 0, cleanup |-> "none",
   intent |-> FALSE, expected |-> NoOne]

OneOrNone == Instances \cup {NoOne}

TypeOK ==
  /\ RuntimeTypeOK
  /\ registry \in [Keys -> OneOrNone]
  /\ activePlan \subseteq Instances
  /\ mutation \in BOOLEAN
  /\ continuation \in
       [pc: {"ask", "compile", "init", "async", "ready", "actHook", "actWait",
             "quiesceHook", "quiesceWait", "rollback", "giveUp", "detach"},
        op: {"register", "replace", "unregister"}, key: Keys,
        candidate: OneOrNone, previous: OneOrNone, serial: Nat,
        cleanup: {"none", "pending", "done", "transferred"},
        intent: BOOLEAN, expected: OneOrNone] \cup {Idle}
  /\ gate \in {"none", "pending", "succeeded", "failed", "cancelled"}
  /\ asyncInit \in [Instances -> {"none", "running", "blocked", "returned"}]
  /\ staleBlocks \in Nat
  /\ service \in OneOrNone
  /\ leases \in [Children -> {"none", "module", "factory"}]
  /\ settlement \in [on: BOOLEAN, todo: SUBSET Instances]
  /\ closing \subseteq Instances
  /\ claims \subseteq Instances
  /\ shutdown \in [pc: {"none", "wait", "quiesce"}, todo: SUBSET Instances]
  /\ disposed \in [Instances -> Nat]
  /\ asked \in [Instances -> Nat]
  /\ taken \subseteq Instances

NoPass == [on |-> FALSE, todo |-> {}]
NoShutdown == [pc |-> "none", todo |-> {}]

Init ==
  /\ RuntimeInit
  /\ registry = [k \in Keys |-> NoOne]
  /\ activePlan = {}
  /\ mutation = FALSE
  /\ continuation = Idle
  /\ gate = "none"
  /\ asyncInit = [i \in Instances |-> "none"]
  /\ staleBlocks = 0
  /\ service = NoOne
  /\ leases = [c \in Children |-> "none"]
  /\ settlement = NoPass
  /\ closing = {}
  /\ claims = {}
  /\ shutdown = NoShutdown
  /\ disposed = [i \in Instances |-> 0]
  /\ asked = [i \in Instances |-> 0]
  /\ taken = {}

-----------------------------------------------------------------------------
\* What the guards read

Registered == {registry[k] : k \in Keys} \ {NoOne}

Fresh(i) == i \notin taken /\ i # continuation.candidate

Stale == continuation.serial # generation

\* The transaction may go on: it is current, in its generation and valid.
Valid == mutation /\ ~Stale /\ ~IsTransactionInvalidated(Tx)

\* No synchronous cleanup pass is on the stack.
Unwound == ~settlement.on /\ state # "DISPOSING"

\* The continuation is idle or at an await: nothing of it is on the stack.
AtFrame ==
  Unwound /\ continuation.pc \in {"none", "async", "actWait", "quiesceWait"}

\* _can_mutate_registration_state; _lifecycle_hook_depth is held by the
\* async_init of a candidate, also of one that was given up.
CanMutateRegistration ==
  /\ state \in {"NEW", "READY"}
  /\ staleBlocks = 0
  /\ state = "READY" => \A c \in Children : leases[c] # "module"
  /\ ~mutation
  /\ \A i \in Instances : asyncInit[i] \notin {"running", "blocked"}

\* Fault: nobody looks at who depends on the previous module
PlanIsStableAbove ==
  LET c == continuation IN
  c.op # "unregister" =>
    \A d \in Deps[c.key] : d # c.key /\ registry[d] # NoOne

\* The candidate plan compiles and changes no other active module: what the
\* candidate needs is there, and nobody depends on what is replaced or removed.
PlanIsStable ==
  LET c == continuation IN
  /\ c.op # "unregister" =>
       \A d \in Deps[c.key] : d # c.key /\ registry[d] # NoOne
  /\ c.op # "register" =>
       \A i \in Registered \ {c.previous} : c.key \notin Deps[KeyOf[i]]

\* _validate_topology_service_intents
IntentsHold ==
  mutation /\ (continuation.intent => service = continuation.expected)

-----------------------------------------------------------------------------
\* Disposal of one module

SessionOpen == settlement.on \/ state = "DISPOSING"

\* _dispose_module_once with the claims c of the open session, if there is
\* one, where s is the provider of the service
DisposedWith(c, i, s) ==
  /\ disposed' = [disposed EXCEPT ![i] = IF i \in c THEN @ ELSE @ + 1]
  /\ service' = IF s = i /\ i \notin c THEN NoOne ELSE s

DisposeOnce(i, s) ==
  /\ DisposedWith(IF SessionOpen THEN claims ELSE {}, i, s)
  /\ claims' = IF SessionOpen THEN claims \cup {i} ELSE claims

EndSession(stillOpen) == claims' = IF stillOpen THEN claims ELSE {}

\* Fault: the candidate is claimed and forgotten
TakeOverForgetful(ended) ==
  /\ mutation' = FALSE
  /\ gate' = IF mutation THEN "cancelled" ELSE gate
  /\ UNCHANGED ownVars
  /\ continuation' =
       IF ended THEN Idle
       ELSE [continuation EXCEPT !.cleanup = IF @ = "pending" THEN "done" ELSE @]

(***************************************************************************)
(* _force_dispose_internal up to its first dispose hook: the transaction   *)
(* is taken from its continuation and its candidate is cleaned up.         *)
(***************************************************************************)
TakeOver(ended) ==
  LET c == continuation
      cleans == mutation /\ c.cleanup = "pending"
  IN
  /\ mutation' = FALSE
  /\ gate' = IF mutation THEN "cancelled" ELSE gate
  /\ IF cleans
     THEN /\ DisposedWith(claims, c.candidate, service)
          /\ claims' = claims \cup {c.candidate}
     ELSE UNCHANGED ownVars
  /\ continuation' =
       IF ended THEN Idle
       ELSE [c EXCEPT !.cleanup = IF cleans THEN "done" ELSE @]

StartDisposal ==
  /\ BeginDispose
  /\ closing' = activePlan \cup Registered
  /\ TakeOver(FALSE)

-----------------------------------------------------------------------------
\* The rest of the architecture, in coarse steps

\* A module is registered before the first initialization.
Assemble(i) ==
  /\ state = "NEW" /\ CanMutateRegistration
  /\ Fresh(i)
  /\ registry[KeyOf[i]] = NoOne
  /\ registry' = [registry EXCEPT ![KeyOf[i]] = i]
  /\ taken' = taken \cup {i}
  /\ UNCHANGED <<runtimeVars, activePlan, mutationVars, asyncVars, leases,
                 passVars, ownVars, asked>>

\* init(): begins...
InitStart ==
  /\ ~settlement.on
  /\ state = "FAILED" => staleBlocks = 0
  /\ generation < MaxGeneration
  /\ BeginInitialization \/ RestartAfterFailure
  /\ UNCHANGED <<planVars, mutationVars, asyncVars, leases, passVars,
                 ownVars, asked, taken>>

\* ...and commits, when the stages of all modules went well.
InitFinish ==
  /\ Unwound
  /\ \A i \in Registered : \A d \in Deps[KeyOf[i]] : registry[d] # NoOne
  /\ ActivateNothing(generation)
  /\ activePlan' = Registered
  /\ UNCHANGED <<registry, mutationVars, asyncVars, leases, passVars,
                 ownVars, asked, taken>>

\* fail_initialization(), from outside or by init(); a topology transaction is
\* left to its continuation.
FailArchitecture ==
  /\ generation < MaxGeneration
  /\ FailInitialization(generation)
  /\ settlement' = [on |-> TRUE, todo |-> activePlan \cup Registered]
  /\ UNCHANGED <<planVars, mutationVars, asyncVars, leases, closing,
                 shutdown, ownVars, asked, taken>>

SettleModule(i) ==
  /\ settlement.on
  /\ state # "DISPOSING"
  /\ i \in settlement.todo \ claims
  /\ DisposeOnce(i, service)
  /\ UNCHANGED <<runtimeVars, planVars, mutationVars, asyncVars, leases,
                 passVars, asked, taken>>

Cleared ==
  /\ registry' = [k \in Keys |-> NoOne]
  /\ activePlan' = {}
  /\ service' = NoOne

SettleEnd ==
  /\ settlement.on /\ state # "DISPOSING"
  /\ settlement.todo \subseteq claims
  /\ settlement' = NoPass
  /\ Cleared
  /\ EndSession(FALSE)
  /\ UNCHANGED <<runtimeVars, mutationVars, asyncVars, leases, closing,
                 shutdown, disposed, asked, taken>>

\* dispose()
DisposeCall ==
  /\ StartDisposal
  /\ UNCHANGED <<planVars, asyncVars, leases, settlement, shutdown, asked,
                 taken>>

CloseModule(i) ==
  /\ state = "DISPOSING"
  /\ i \in closing \ claims
  /\ DisposeOnce(i, service)
  /\ UNCHANGED <<runtimeVars, planVars, mutationVars, asyncVars, leases,
                 passVars, asked, taken>>

CloseEnd ==
  /\ closing \subseteq claims
  /\ FinishDispose
  /\ Cleared
  /\ closing' = {}
  /\ leases' = [c \in Children |-> "none"]
  /\ EndSession(settlement.on)
  /\ shutdown' = NoShutdown
  /\ UNCHANGED <<mutationVars, asyncVars, settlement, disposed, asked,
                 taken>>

\* Fault: every return lowers the count
AsyncReturnUncounted(i) ==
  /\ asyncInit[i] \in {"running", "blocked"}
  /\ asyncInit' = [asyncInit EXCEPT ![i] = "returned"]
  /\ staleBlocks' = staleBlocks - 1
  /\ UNCHANGED <<runtimeVars, planVars, mutationVars, leases, passVars,
                 ownVars, asked, taken>>

\* A late or timely return of async_init
AsyncReturn(i) ==
  /\ asyncInit[i] \in {"running", "blocked"}
  /\ asyncInit' = [asyncInit EXCEPT ![i] = "returned"]
  /\ staleBlocks' = IF asyncInit[i] = "blocked" /\ staleBlocks > 0
                    THEN staleBlocks - 1 ELSE staleBlocks
  /\ UNCHANGED <<runtimeVars, planVars, mutationVars, leases, passVars,
                 ownVars, asked, taken>>

\* _acquire_child_external_dependency_lease and its release
AcquireLease(c) ==
  /\ state = "READY" /\ ~mutation
  /\ leases[c] = "none"
  /\ \E kind \in {"module", "factory"} :
       leases' = [leases EXCEPT ![c] = kind]
  /\ UNCHANGED <<runtimeVars, planVars, mutationVars, asyncVars, passVars,
                 ownVars, asked, taken>>

ReleaseLease(c) ==
  /\ leases[c] # "none"
  /\ leases' = [leases EXCEPT ![c] = "none"]
  /\ UNCHANGED <<runtimeVars, planVars, mutationVars, asyncVars, passVars,
                 ownVars, asked, taken>>

-----------------------------------------------------------------------------
\* Services

\* Fault: other modules may register while a transaction runs
RegisterServiceBeside(p) ==
  /\ state \notin {"FAILED", "QUIESCING", "DISPOSING", "DISPOSED"}
  /\ \/ /\ p \in Registered
        /\ service = NoOne
        /\ service' = p
        /\ UNCHANGED continuation
     \/ /\ mutation
        /\ p = continuation.candidate
        /\ ~continuation.intent
        /\ continuation' = [continuation EXCEPT
             !.intent = TRUE, !.expected = service]
        /\ UNCHANGED service
  /\ UNCHANGED <<runtimeVars, planVars, mutation, gate, asyncVars, leases,
                 passVars, claims, disposed, asked, taken>>

\* register_service() by a registered module, or by the candidate of the
\* transaction, whose service is staged until the commit
RegisterService(p) ==
  /\ state \notin {"FAILED", "QUIESCING", "DISPOSING", "DISPOSED"}
  /\ \/ /\ ~mutation
        /\ p \in Registered
        /\ service = NoOne
        /\ service' = p
        /\ UNCHANGED continuation
     \/ /\ mutation
        /\ p = continuation.candidate
        /\ ~continuation.intent
        /\ service \in {NoOne, p, continuation.previous}
        /\ continuation' = [continuation EXCEPT
             !.intent = TRUE, !.expected = service]
        /\ UNCHANGED service
  /\ UNCHANGED <<runtimeVars, planVars, mutation, gate, asyncVars, leases,
                 passVars, claims, disposed, asked, taken>>

\* unregister_service(); for the previous module it changes nothing
UnregisterService(p) ==
  /\ state \notin {"FAILED", "QUIESCING", "DISPOSING", "DISPOSED"}
  /\ \/ /\ ~mutation
        /\ service = p
        /\ service' = NoOne
        /\ UNCHANGED continuation
     \/ /\ mutation
        /\ p = continuation.candidate
        /\ continuation.intent
        /\ continuation' = [continuation EXCEPT
             !.intent = FALSE, !.expected = NoOne]
        /\ UNCHANGED service
  /\ UNCHANGED <<runtimeVars, planVars, mutation, gate, asyncVars, leases,
                 passVars, claims, disposed, asked, taken>>

-----------------------------------------------------------------------------
\* shutdown_async()

shutdownRest == <<planVars, asyncVars, leases, settlement, taken>>

\* The call. An initialization is interrupted, a transaction is awaited.
ShutdownCall ==
  /\ shutdown = NoShutdown
  /\ state = "READY" => \A c \in Children : leases[c] = "none"
  /\ \/ /\ state \in {"INITIALIZING", "ACTIVATING"}
        /\ StartDisposal
        /\ UNCHANGED shutdown
     \/ /\ state \in {"NEW", "READY", "FAILED"}
        /\ BeginQuiesce
        /\ shutdown' = IF mutation THEN [pc |-> "wait", todo |-> {}]
                       ELSE [pc |-> "quiesce", todo |-> activePlan]
        /\ UNCHANGED <<mutationVars, ownVars, closing>>
  /\ UNCHANGED <<shutdownRest, asked>>

\* Fault: a failed transaction is not noticed, and no deadline is looked at
ShutdownWaitForSuccess ==
  /\ shutdown.pc = "wait" /\ state = "QUIESCING"
  /\ AtFrame
  /\ ~mutation /\ gate = "succeeded"
  /\ shutdown' = [pc |-> "quiesce", todo |-> activePlan]
  /\ UNCHANGED <<runtimeVars, mutationVars, ownVars, closing, shutdownRest,
                 asked>>

(***************************************************************************)
(* _await_topology_stability comes to an end.  When the transaction failed *)
(* or a token or the deadline came first, no module is asked to quiesce.   *)
(***************************************************************************)
ShutdownWait ==
  /\ shutdown.pc = "wait" /\ state = "QUIESCING"
  /\ AtFrame
  /\ \/ /\ ~mutation /\ gate = "succeeded"
        /\ shutdown' = [pc |-> "quiesce", todo |-> activePlan]
        /\ UNCHANGED <<runtimeVars, mutationVars, ownVars, closing>>
     \/ /\ StartDisposal
        /\ UNCHANGED shutdown
  /\ UNCHANGED <<shutdownRest, asked>>

\* begin_quiesce() of the next module; the order is ArchitectureLifecycle's
ShutdownAsk(i) ==
  /\ shutdown.pc = "quiesce" /\ state = "QUIESCING"
  /\ i \in shutdown.todo
  /\ asked' = [asked EXCEPT ![i] = @ + 1]
  /\ shutdown' = [shutdown EXCEPT !.todo = @ \ {i}]
  /\ UNCHANGED <<runtimeVars, mutationVars, ownVars, closing, shutdownRest>>

\* All modules answered, or the deadline, a token or a failure came first.
ShutdownQuiesced ==
  /\ shutdown.pc = "quiesce"
  /\ StartDisposal
  /\ UNCHANGED <<shutdownRest, shutdown, asked>>

-----------------------------------------------------------------------------
\* The transaction: how it ends

topologyRest == <<leases, settlement, shutdown>>

\* _finish_topology_mutation and the end of the coroutine
Finished ==
  /\ mutation' = FALSE
  /\ gate' = IF mutation THEN "succeeded" ELSE gate
  /\ continuation' = Idle

\* _fail_topology_mutation, likewise
FailTopology ==
  /\ mutation' = FALSE
  /\ gate' = IF mutation THEN "failed" ELSE gate
  /\ continuation' = Idle

\* _rollback_topology_candidate; the dispose hook of the candidate returns in
\* HookOfCleanup.
Rollback ==
  IF continuation.cleanup = "pending"
  THEN /\ DisposeOnce(continuation.candidate, service)
       /\ continuation' = [continuation EXCEPT
            !.pc = "rollback", !.cleanup = "done"]
       /\ UNCHANGED <<runtimeVars, mutation, gate>>
  ELSE /\ FinishTransaction(Tx)
       /\ Finished
       /\ UNCHANGED ownVars

(***************************************************************************)
(* Once the previous module was asked to quiesce there is no way back: a   *)
(* READY architecture is disposed, whichever generation it is in.          *)
(***************************************************************************)
Abandon ==
  \/ /\ state = "READY"
     /\ FinishTransactionAndDispose(Tx)
     /\ closing' = activePlan \cup Registered
     /\ TakeOver(TRUE)
  \/ /\ state # "READY"
     /\ FinishTransaction(Tx)
     /\ FailTopology
     /\ UNCHANGED <<ownVars, closing>>

\* The commit: the candidate and its staged service are published, then the
\* previous module is disposed.
Commit ==
  LET c == continuation
      published == IF c.intent THEN c.candidate ELSE service
      newcomer == {c.candidate} \ {NoOne}
  IN
  /\ registry' = [registry EXCEPT ![c.key] = c.candidate]
  /\ activePlan' = (activePlan \ {c.previous}) \cup newcomer
  /\ IF c.previous = NoOne
     THEN /\ service' = published
          /\ FinishTransaction(Tx)
          /\ Finished
          /\ UNCHANGED <<claims, disposed>>
     ELSE /\ DisposeOnce(c.previous, published)
          /\ continuation' = [c EXCEPT !.pc = "detach", !.intent = FALSE,
               !.expected = NoOne,
               !.cleanup = IF c.candidate = NoOne THEN @ ELSE "transferred"]
          /\ UNCHANGED <<runtimeVars, mutation, gate>>

-----------------------------------------------------------------------------
\* The transaction: from hook to await to hook

\* begin_transaction() and the compilation of the candidate plan
Compile(c) ==
  /\ BeginTransaction(Tx)
  /\ continuation' = [c EXCEPT !.pc = "compile", !.serial = generation,
       !.cleanup = IF c.candidate = NoOne THEN @ ELSE "pending"]
  /\ taken' = taken \cup ({c.candidate} \ {NoOne})

(***************************************************************************)
(* _begin_topology_mutation.  If the previous module is a utility, its     *)
(* can_remove_from_active_lifecycle() is asked first.                      *)
(***************************************************************************)
Begin(op, k, i) ==
  LET previous == IF op = "register" THEN NoOne ELSE registry[k]
      c == [Idle EXCEPT !.op = op, !.key = k, !.candidate = i,
              !.previous = previous]
  IN
  /\ state = "READY" /\ CanMutateRegistration
  /\ continuation.pc = "none"
  /\ mutation' = TRUE
  /\ gate' = "pending"
  /\ \/ Compile(c)
     \/ /\ previous # NoOne
        /\ continuation' = [c EXCEPT !.pc = "ask"]
        /\ UNCHANGED <<runtimeVars, taken>>
  /\ UNCHANGED <<topologyRest, planVars, ownVars, asyncVars, closing, asked>>

Register(i) ==
  /\ Fresh(i) /\ registry[KeyOf[i]] = NoOne
  /\ Begin("register", KeyOf[i], i)

Replace(i) == Fresh(i) /\ Begin("replace", KeyOf[i], i)

Unregister(k) == registry[k] # NoOne /\ Begin("unregister", k, NoOne)

AskReturn ==
  /\ continuation.pc = "ask"
  /\ Unwound
  /\ \/ /\ Finished
        /\ UNCHANGED <<runtimeVars, taken>>
     \/ /\ mutation /\ state = "READY"
        /\ registry[continuation.key] = continuation.previous
        /\ Compile(continuation)
        /\ UNCHANGED <<mutation, gate>>
  /\ UNCHANGED <<topologyRest, planVars, ownVars, asyncVars, closing, asked>>

\* _quiesce_topology_module: begin_quiesce() of the previous module
AskPrevious ==
  /\ asked' = [asked EXCEPT ![continuation.previous] = @ + 1]
  /\ continuation' = [continuation EXCEPT !.pc = "quiesceHook"]

CompileReturn ==
  /\ continuation.pc = "compile"
  /\ Unwound
  /\ \/ Rollback /\ UNCHANGED asked
     \/ /\ Valid /\ state = "READY" /\ PlanIsStable
        /\ \/ /\ continuation.op = "unregister"
              /\ AskPrevious
           \/ /\ continuation.op # "unregister"
              /\ continuation' = [continuation EXCEPT !.pc = "init"]
              /\ UNCHANGED asked
        /\ UNCHANGED <<runtimeVars, mutation, gate, ownVars>>
  /\ UNCHANGED <<topologyRest, planVars, asyncVars, closing, taken>>

\* Injection and init() of the candidate are done; async_init begins.
InitReturn ==
  /\ continuation.pc = "init"
  /\ Unwound
  /\ \/ Rollback /\ UNCHANGED asyncVars
     \/ /\ ~Stale
        /\ continuation' = [continuation EXCEPT !.pc = "async"]
        /\ asyncInit' = [asyncInit EXCEPT ![continuation.candidate] = "running"]
        /\ UNCHANGED <<runtimeVars, mutation, gate, ownVars, staleBlocks>>
  /\ UNCHANGED <<topologyRest, planVars, closing, asked, taken>>

(***************************************************************************)
(* _await_replacement_module_async_init notices that the generation is     *)
(* over, that time is up, or that async_init returned.  Without a timeout  *)
(* it only wakes up when async_init returns.                               *)
(***************************************************************************)
AsyncStep ==
  LET i == continuation.candidate
      returned == asyncInit[i] = "returned"
  IN
  /\ continuation.pc = "async"
  /\ Unwound
  /\ \/ /\ returned \/ (AsyncTimeout /\ Stale)
        /\ Rollback
        /\ UNCHANGED asyncVars
     \/ /\ AsyncTimeout /\ ~returned /\ ~Stale
        /\ asyncInit' = [asyncInit EXCEPT ![i] = "blocked"]
        /\ staleBlocks' = staleBlocks + 1
        /\ Rollback
     \/ /\ returned
        /\ Valid
        /\ continuation.op = "replace" =>
             registry[continuation.key] = continuation.previous
        /\ continuation' = [continuation EXCEPT !.pc = "ready"]
        /\ UNCHANGED <<runtimeVars, mutation, gate, ownVars, asyncVars>>
  /\ UNCHANGED <<topologyRest, planVars, closing, asked, taken>>

ReadyReturn ==
  /\ continuation.pc = "ready"
  /\ Unwound
  /\ \/ ~Valid /\ Rollback
     \/ /\ Valid
        /\ continuation' = [continuation EXCEPT !.pc = "actHook"]
        /\ UNCHANGED <<runtimeVars, mutation, gate, ownVars>>
  /\ UNCHANGED <<topologyRest, planVars, asyncVars, closing, asked, taken>>

\* Fault: the activation is believed whatever happened meanwhile
CommittableUnchecked == TRUE

\* What is checked when the candidate has been activated
Committable == Valid /\ IntentsHold

\* The activation of the candidate ends
Activated ==
  \/ Rollback /\ UNCHANGED <<planVars, asked>>
  \/ /\ Committable
     /\ \/ /\ continuation.previous = NoOne
           /\ Commit
           /\ UNCHANGED asked
        \/ /\ continuation.previous # NoOne
           /\ AskPrevious
           /\ UNCHANGED <<runtimeVars, planVars, mutation, gate, ownVars>>

ActHookReturn ==
  /\ continuation.pc = "actHook"
  /\ Unwound
  /\ \/ Activated
     \/ /\ ~Stale
        /\ continuation' = [continuation EXCEPT !.pc = "actWait"]
        /\ UNCHANGED <<runtimeVars, planVars, mutation, gate, ownVars, asked>>
  /\ UNCHANGED <<topologyRest, asyncVars, closing, taken>>

ActPoll ==
  /\ continuation.pc = "actWait"
  /\ AtFrame
  /\ Activated
  /\ UNCHANGED <<topologyRest, asyncVars, closing, taken>>

(***************************************************************************)
(* The quiescence of the previous module ends.  A success implies that no  *)
(* disposal and no failure came in between, so that the later checks of    *)
(* the code (of the transaction, of the registered instance and of the     *)
(* staged services) hold: TransactionUndisturbed.                          *)
(***************************************************************************)
Quiesced ==
  \/ /\ Valid
     /\ Commit
     /\ UNCHANGED closing
  \/ /\ IF continuation.cleanup = "pending"
        THEN /\ DisposeOnce(continuation.candidate, service)
             /\ continuation' = [continuation EXCEPT
                  !.pc = "giveUp", !.cleanup = "done"]
             /\ UNCHANGED <<runtimeVars, mutation, gate, closing>>
        ELSE Abandon
     /\ UNCHANGED planVars

QuiesceHookReturn ==
  /\ continuation.pc = "quiesceHook"
  /\ Unwound
  /\ \/ Quiesced
     \/ /\ ~Stale
        /\ continuation' = [continuation EXCEPT !.pc = "quiesceWait"]
        /\ UNCHANGED <<runtimeVars, planVars, mutation, gate, ownVars, closing>>
  /\ UNCHANGED <<topologyRest, asyncVars, asked, taken>>

QuiescePoll ==
  /\ continuation.pc = "quiesceWait"
  /\ AtFrame
  /\ Quiesced
  /\ UNCHANGED <<topologyRest, asyncVars, asked, taken>>

\* The dispose hook of the candidate or of the previous module returns.
CleanupReturn ==
  /\ Unwound
  /\ \/ /\ continuation.pc = "rollback"
        /\ FinishTransaction(Tx) /\ Finished
        /\ UNCHANGED <<ownVars, closing>>
     \/ /\ continuation.pc = "giveUp"
        /\ Abandon
     \/ /\ continuation.pc = "detach"
        /\ FinishTransaction(Tx)
        /\ IF Valid THEN Finished ELSE FailTopology
        /\ UNCHANGED <<ownVars, closing>>
  /\ UNCHANGED <<topologyRest, planVars, asyncVars, asked, taken>>

-----------------------------------------------------------------------------

ContinuationStep ==
  \/ AskReturn \/ CompileReturn \/ InitReturn \/ AsyncStep \/ ReadyReturn
  \/ ActHookReturn \/ ActPoll \/ QuiesceHookReturn \/ QuiescePoll
  \/ CleanupReturn

CleanupStep ==
  \/ \E i \in Instances : SettleModule(i) \/ CloseModule(i)
  \/ SettleEnd \/ CloseEnd

ShutdownStep ==
  \/ ShutdownWait \/ ShutdownQuiesced
  \/ \E i \in Instances : ShutdownAsk(i)

Environment ==
  \/ InitStart \/ InitFinish \/ FailArchitecture \/ DisposeCall \/ ShutdownCall
  \/ \E i \in Instances :
       \/ Assemble(i) \/ AsyncReturn(i)
       \/ RegisterService(i) \/ UnregisterService(i)
  \/ \E c \in Children : AcquireLease(c) \/ ReleaseLease(c)

Mutate ==
  \/ \E i \in Instances : Register(i) \/ Replace(i)
  \/ \E k \in Keys : Unregister(k)

Next == Mutate \/ ContinuationStep \/ CleanupStep \/ ShutdownStep \/ Environment

Spec == Init /\ [][Next]_vars

(***************************************************************************)
(* The engine drives frames, hooks return, and every await of the          *)
(* transaction and of a shutdown has a deadline (module_async_init_timeout,*)
(* activation_timeout and shutdown_timeout).                               *)
(***************************************************************************)
Fairness ==
  /\ WF_vars(ContinuationStep)
  /\ WF_vars(CleanupStep)
  /\ WF_vars(ShutdownStep)

FairSpec == Spec /\ Fairness

-----------------------------------------------------------------------------
\* Properties

\* A module whose ownership was accepted is registered, or was disposed, or is
\* the candidate that the transaction still has to clean up: none is leaked.  And
\* no interleaving of a transaction with failure, restart, shutdown and disposal
\* disposes a module twice or asks it to quiesce twice, the transaction once and a
\* shutdown that was called while it ran once more.
CandidateAccounted ==
  /\ \A i \in taken :
       \/ i \in Registered
       \/ disposed[i] = 1
       \/ continuation.candidate = i /\ continuation.cleanup = "pending"
  /\ \A i \in Instances : disposed[i] <= 1 /\ asked[i] <= 1

\* A READY architecture shows whole commits: the active plan is what is
\* registered, no module of it was disposed and its dependencies are met.
TopologyCommittedWhole ==
  state = "READY" =>
    /\ activePlan = Registered
    /\ \A i \in Registered :
         disposed[i] = 0 /\ \A d \in Deps[KeyOf[i]] : registry[d] # NoOne

\* While its generation lasts nothing disturbs a transaction: nobody else
\* changes the key it works on nor the service it staged, and _topology_mutation
\* is never left behind by a continuation that is gone.  At all times a service
\* belongs to a module that is registered.
TransactionUndisturbed ==
  /\ service # NoOne => service \in Registered
  /\ mutation => continuation.pc # "none"
  /\ mutation /\ ~Stale /\ continuation.pc # "detach" =>
       /\ registry[continuation.key] = continuation.previous
       /\ continuation.intent => service = continuation.expected

\* Who may not change the plan: a continuation whose generation has ended changes
\* neither the registry nor the active plan, nor does it publish a service; and
\* while a child holds a lease on modules of a READY architecture nobody does:
\* only the end of the generation takes them away.
PlanIsPinned ==
  [][/\ /\ continuation.pc \notin {"none", "ask"} /\ Stale
        /\ continuation'.pc # continuation.pc
        => UNCHANGED planVars /\ service' \in {service, NoOne}
     /\ /\ state = "READY" /\ state' = "READY" /\ generation' = generation
        /\ \E c \in Children : leases[c] = "module" /\ leases'[c] = "module"
        => UNCHANGED planVars]_vars

\* Every transaction ends, whatever its hooks do, when async_init has a timeout; and
\* every shutdown ends in a disposed architecture, also when the transaction it
\* waits for fails or never ends.
TopologyEnds ==
  /\ continuation.pc # "none" ~> continuation.pc = "none"
  /\ state \in {"QUIESCING", "DISPOSING"} ~> state = "DISPOSED"

\* docs/zh/kernel/lifecycle: a late continuation may only clean up its own
\* candidate and must not touch what came after its generation.
LateContinuationInert ==
  [][/\ continuation.pc \notin {"none", "ask"} /\ Stale
     /\ continuation'.pc # continuation.pc
     => UNCHANGED <<state, generation, registry, activePlan>>]_vars
=============================================================================
