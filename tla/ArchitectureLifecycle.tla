----------------------- MODULE ArchitectureLifecycle -----------------------
(***************************************************************************)
(* GFArchitecture from registration to disposal: init(), the four module   *)
(* stages, fail_initialization(), shutdown_async() and dispose(), without  *)
(* the hot topology transactions (module TopologyMutation).                *)
(*                                                                         *)
(* Everything runs on the main thread.  A coroutine stops at an await, and *)
(* a synchronous module hook may call any public operation back, so every  *)
(* await and every hook is a place where another action may come between.  *)
(* An action is the code from one such place to the next.                  *)
(***************************************************************************)
EXTENDS KernelRuntime, FiniteSets

CONSTANTS
  Keys,            \* script classes modules are registered under
  Instances,       \* module instances
  KeyOf,           \* [Instances -> Keys]
  Deps,            \* [Keys -> SUBSET Keys], the declared local dependencies
  Rank,            \* [Instances -> Nat], a topological order of the plan
  InitCalls,       \* calls of init(), each with a cancellation token
  ShutdownCalls,   \* calls of shutdown_async()
  MaxGeneration,   \* bound on the lifecycle generation
  AsyncTimeout,    \* is module_async_init_timeout_seconds > 0?
  SelfRegistering, \* may the injection hook of a replacement register it?
  NoOne            \* no instance

ASSUME InstancesAssumption ==
  /\ KeyOf \in [Instances -> Keys]
  /\ Deps \in [Keys -> SUBSET Keys]
  /\ Rank \in [Instances -> Nat]
  /\ \A i, j \in Instances : i # j => Rank[i] # Rank[j]
  /\ \A i, j \in Instances :
       KeyOf[j] \in Deps[KeyOf[i]] => Rank[j] < Rank[i]

\* A plan is a finite list: it has a first and a last module.
ASSUME PlanAssumption ==
  \A plan \in (SUBSET Instances) \ {{}} :
    /\ \E i \in plan : \A j \in plan : Rank[i] <= Rank[j]
    /\ \E i \in plan : \A j \in plan : Rank[j] <= Rank[i]

ASSUME CallsAssumption ==
  /\ TransactionIds \subseteq Nat
  /\ MaxGeneration \in Nat
  /\ AsyncTimeout \in BOOLEAN
  /\ SelfRegistering \in BOOLEAN
  /\ NoOne \notin Instances

VARIABLES
  registry,         \* [Keys -> Instances \cup {NoOne}]
  stage,            \* _module_lifecycle_stages, 0 when absent
  activePlan,       \* _active_lifecycle_plan
  buildingPlan,     \* _lifecycle_plan_in_progress
  registration,     \* the register or replace call of each open transaction
  installers,       \* _project_installers_running / _applied
  asyncInit,        \* the async_init coroutine of each instance
  asyncCancelled,   \* instances whose async_init scope is cancelled
  staleBlocks,      \* _stale_async_write_block_count
  activationScope,  \* _activation_scope: the generation it was made by, or 0
  cancelledScopes,  \* activation scopes that are cancelled
  initCall,         \* the coroutine of each call of init()
  cancelledTokens,  \* calls of init() whose token is cancelled
  settlement,       \* _fail_initialization() in progress
  disposal,         \* _force_dispose_internal() in progress
  claims,           \* _module_disposal_claims
  shutdown,         \* the shutdown_async() call that owns the flow
  shutdownToken,    \* is its cancellation token cancelled?
  shutdownCall,     \* what each call of shutdown_async() waits for or got
  completion,       \* _shutdown_completion
  lastResult,       \* the status of _last_shutdown_result
  disposed,         \* history: how often dispose() ran on each instance
  taken,            \* history: instances whose ownership was accepted
  published         \* history: how often shutdown_finished was emitted

moduleVars == <<registry, stage, activePlan, buildingPlan>>
asyncVars == <<asyncInit, staleBlocks>>
cancelVars == <<asyncCancelled, cancelledScopes>>
closeVars == <<shutdown, shutdownToken, shutdownCall, completion, lastResult,
               published>>
sessionVars == <<claims, disposed>>
ownerVars == <<registration, taken>>

\* what _fail_initialization() changes before the first dispose hook
failVars == <<runtimeVars, settlement, installers, cancelVars>>

vars == <<failVars, moduleVars, asyncVars, activationScope, initCall,
          cancelledTokens, disposal, closeVars, sessionVars, ownerVars>>

Verdict == {"succeeded", "failed", "cancelled", "timed_out", "forced"}

InitPc ==
  {"idle", "onInit", "hook", "async", "actHook", "actWait", "emit", "joined",
   "woken", "true", "false"}

InitReturned == {"true", "false"}

ModuleTypeOK ==
  /\ registry \in [Keys -> Instances \cup {NoOne}]
  /\ stage \in [Instances -> 0..4]
  /\ activePlan \subseteq Instances
  /\ buildingPlan \subseteq Instances

NoRegistration == [pc |-> "none", at |-> NoOne, previous |-> NoOne]

RegistrationRecord ==
  [pc: {"register", "replace", "removing"},
   at: Instances, previous: Instances \cup {NoOne}]

OwnerTypeOK ==
  /\ registration \in [TransactionIds -> RegistrationRecord \cup {NoRegistration}]
  /\ claims \subseteq Instances
  /\ disposed \in [Instances -> Nat]
  /\ taken \subseteq Instances

AsyncTypeOK ==
  /\ asyncInit \in [Instances -> {"none", "running", "blocked", "returned"}]
  /\ asyncCancelled \subseteq Instances
  /\ staleBlocks \in Nat
  /\ activationScope \in Nat
  /\ cancelledScopes \subseteq Nat

InitCallRecord == [pc: InitPc, gen: Nat, at: Instances \cup {NoOne}]

CallTypeOK ==
  /\ initCall \in [InitCalls -> InitCallRecord]
  /\ cancelledTokens \subseteq InitCalls

SettlementTypeOK ==
  /\ installers \in {"idle", "running", "applied"}
  /\ settlement \in [pc: {"off", "disposing", "emitting"},
                     todo: SUBSET Instances]

NoShutdown ==
  [pc |-> "none", todo |-> {}, at |-> NoOne, finished |-> {}, unfinished |-> {}]

ShutdownRecord ==
  [pc: {"hook", "wait"}, todo: SUBSET Instances, at: Instances,
   finished: SUBSET Instances, unfinished: SUBSET Instances]

ClosingTypeOK ==
  /\ disposal \in [todo: SUBSET Instances, verdict: Verdict,
                   finished: SUBSET Instances, unfinished: SUBSET Instances,
                   signal: BOOLEAN]
  /\ shutdown \in ShutdownRecord \cup {NoShutdown}
  /\ shutdownToken \in BOOLEAN
  /\ shutdownCall \in [ShutdownCalls ->
       {"idle", "waiting", "already_disposed"} \cup Verdict]
  /\ completion \in {"none", "pending", "done"}
  /\ lastResult \in {"none"} \cup Verdict
  /\ published \in Nat

TypeOK ==
  /\ RuntimeTypeOK
  /\ ModuleTypeOK
  /\ OwnerTypeOK
  /\ AsyncTypeOK
  /\ CallTypeOK
  /\ SettlementTypeOK
  /\ ClosingTypeOK

NoDisposal ==
  [todo |-> {}, verdict |-> "forced", finished |-> {}, unfinished |-> {},
   signal |-> FALSE]

Init ==
  /\ RuntimeInit
  /\ registry = [k \in Keys |-> NoOne]
  /\ stage = [i \in Instances |-> 0]
  /\ activePlan = {}
  /\ buildingPlan = {}
  /\ registration = [t \in TransactionIds |-> NoRegistration]
  /\ installers = "idle"
  /\ asyncInit = [i \in Instances |-> "none"]
  /\ asyncCancelled = {}
  /\ staleBlocks = 0
  /\ activationScope = 0
  /\ cancelledScopes = {}
  /\ initCall = [c \in InitCalls |-> [pc |-> "idle", gen |-> 0, at |-> NoOne]]
  /\ cancelledTokens = {}
  /\ settlement = [pc |-> "off", todo |-> {}]
  /\ disposal = NoDisposal
  /\ claims = {}
  /\ shutdown = NoShutdown
  /\ shutdownToken = FALSE
  /\ shutdownCall = [s \in ShutdownCalls |-> "idle"]
  /\ completion = "none"
  /\ lastResult = "none"
  /\ disposed = [i \in Instances |-> 0]
  /\ taken = {}
  /\ published = 0

-----------------------------------------------------------------------------
\* What the guards and the cleanup passes read

Registered == {registry[k] : k \in Keys} \ {NoOne}

\* The plan lists modules in activation order and is walked in that order...
First(plan) == CHOOSE i \in plan : \A j \in plan : Rank[i] <= Rank[j]

\* Fault: the shutdown order is the activation order
LastUnreversed(plan) == CHOOSE i \in plan : \A j \in plan : Rank[i] <= Rank[j]

\* ...or, to quiesce and to dispose, in the reverse order.
Last(plan) == CHOOSE i \in plan : \A j \in plan : Rank[j] <= Rank[i]

\* The plan whose modules a cleanup pass disposes first
CleanupPlan == IF activePlan # {} THEN activePlan ELSE buildingPlan

CleanupSet == CleanupPlan \cup Registered

\* The next module of a cleanup pass: the plan in reverse order, then what is
\* registered beyond it (ordered by kind and priority, which is left open).
NextToDispose(rest, i) ==
  IF rest \cap CleanupPlan # {} THEN i = Last(rest \cap CleanupPlan)
                                ELSE i \in rest

\* _snapshot_forced_unfinished_modules
ForcedUnfinished == {i \in CleanupPlan : stage[i] > 0}

Settling == settlement.pc # "off"

\* No synchronous cleanup pass is on the stack.  A hook below one returns after
\* it; no hook can be above one, but that of a shutdown above a settlement.
Unwound == ~Settling /\ state # "DISPOSING"

OpenTransactions == {t \in TransactionIds : transactions[t].open}

\* Nothing is on the stack: a coroutine that waits for a frame may resume.
AtFrame ==
  /\ Unwound
  /\ OpenTransactions = {}
  /\ \A c \in InitCalls :
       initCall[c].pc \notin {"onInit", "hook", "actHook", "emit"}
  /\ shutdown.pc # "hook"

\* _lifecycle_hook_depth > 0: a hook is on the stack, or an async_init that was
\* called has not returned (its increment spans the await)
InsideHook ==
  \/ \E c \in InitCalls : initCall[c].pc \in {"onInit", "hook", "actHook"}
  \/ \E i \in Instances : asyncInit[i] \in {"running", "blocked"}
  \/ shutdown.pc = "hook"
  \/ settlement.pc = "disposing"

\* _can_mutate_registration_state, before READY
CanMutateRegistration ==
  /\ state = "NEW"
  /\ staleBlocks = 0
  /\ ~InsideHook

\* ...and outside the dispose hook of a module that is being replaced
MayRegister ==
  /\ CanMutateRegistration
  /\ \A t \in TransactionIds : registration[t].pc # "removing"

\* A register call opens a disposal session; a replace call does not.
OpenRegisters == {t \in TransactionIds : registration[t].pc = "register"}

\* _module_disposal_session_depth > 0
SessionOpen ==
  \/ OpenRegisters # {}
  \/ settlement.pc = "disposing"
  \/ state = "DISPOSING"

\* _dispose_module_once with the claims of the open session, or with a table
\* of its own when none is open
DisposeOnce(i) ==
  /\ claims' = IF SessionOpen THEN claims \cup {i} ELSE claims
  /\ disposed' = [disposed EXCEPT
       ![i] = IF SessionOpen /\ i \in claims THEN @ ELSE @ + 1]

\* Fault: the end of a nested session drops the claims of the outer one
EndSessionNested(c, stillOpen) == claims' = {}

\* _end_module_disposal_session: the claims last as long as some session
EndSession(c, stillOpen) == claims' = IF stillOpen THEN c ELSE {}

\* initialization_finished wakes every joined call of init()
Woken == [c \in InitCalls |->
  [initCall[c] EXCEPT !.pc = IF @ = "joined" THEN "woken" ELSE @]]

\* Call c goes on at program point pc, with module i
Goto(c, pc, i) ==
  initCall' = [initCall EXCEPT ![c].pc = pc, ![c].at = i]

Returned(r) ==
  [pc |-> IF r THEN "true" ELSE "false", gen |-> 0, at |-> NoOne]

Return(c, r) == initCall' = [initCall EXCEPT ![c] = Returned(r)]

Stale(c) == initCall[c].gen # generation

\* _cancel_active_async_scopes
CancelActiveScopes ==
  /\ cancelledScopes' = cancelledScopes \cup ({activationScope} \ {0})
  /\ asyncCancelled' =
       asyncCancelled \cup {i \in Instances : asyncInit[i] = "running"}

\* _fail_initialization from the accepted failure to the first dispose hook
StartSettlement ==
  /\ settlement' = [pc |-> "disposing", todo |-> CleanupSet]
  /\ installers' = "idle"
  /\ CancelActiveScopes

\* _fail_initialization: nothing at all for a stale generation or a state past
\* failing
Fail(g) ==
  IF CanFail(g)
  THEN FailInitialization(g) /\ StartSettlement
  ELSE UNCHANGED failVars

(***************************************************************************)
(* _force_dispose_internal up to the first module dispose hook, with the   *)
(* result its caller publishes.                                            *)
(***************************************************************************)
StartDisposal(verdict, finished, unfinished) ==
  /\ BeginDispose
  /\ disposal' = [todo |-> CleanupSet, verdict |-> verdict,
                  finished |-> finished, unfinished |-> unfinished,
                  signal |-> state \in {"INITIALIZING", "ACTIVATING"}]
  /\ CancelActiveScopes

-----------------------------------------------------------------------------
\* Installers and registration, before the first initialization

BeginProjectInstallers ==
  /\ installers = "idle"
  /\ ~Settling
  /\ staleBlocks = 0
  /\ state \notin {"QUIESCING", "DISPOSING", "DISPOSED"}
  /\ IF state = "FAILED" THEN ClearFailure ELSE UNCHANGED runtimeVars
  /\ installers' = "running"
  /\ UNCHANGED <<settlement, cancelVars, moduleVars, asyncVars,
                 activationScope, initCall, cancelledTokens, disposal,
                 closeVars, sessionVars, ownerVars>>

MarkProjectInstallersApplied ==
  /\ installers = "running"
  /\ ~Settling
  /\ staleBlocks = 0
  /\ state \notin {"FAILED", "QUIESCING", "DISPOSING", "DISPOSED"}
  /\ installers' = "applied"
  /\ UNCHANGED <<runtimeVars, settlement, cancelVars, moduleVars, asyncVars,
                 activationScope, initCall, cancelledTokens, disposal,
                 closeVars, sessionVars, ownerVars>>

\* Calls nest: the injection hook of a candidate may register another module,
\* or start the architecture, and returns after what it called.
Nests(t) ==
  \A u \in TransactionIds : transactions[u].open <=> u < t

HooksReturned(t) ==
  /\ \A u \in TransactionIds : transactions[u].open <=> u <= t
  /\ Unwound
  /\ \A c \in InitCalls :
       initCall[c].pc \notin {"onInit", "hook", "actHook", "emit"}
  /\ shutdown.pc # "hook"

\* A module is registered when it is new: not yet registered and not disposed.
MayPropose(i) ==
  /\ i \notin Registered
  /\ disposed[i] = 0
  /\ \/ SelfRegistering
     \/ \A t \in TransactionIds :
          registration[t].pc \in {"replace", "removing"}
            => registration[t].at # i

\* _register_module_checked up to the injection hooks of the candidate
RegisterBegin(t, i) ==
  /\ MayRegister
  /\ MayPropose(i)
  /\ registry[KeyOf[i]] = NoOne
  /\ Nests(t)
  /\ BeginTransaction(t)
  /\ registration' = [registration EXCEPT
       ![t] = [pc |-> "register", at |-> i, previous |-> NoOne]]
  /\ UNCHANGED <<settlement, installers, cancelVars, moduleVars, asyncVars,
                 activationScope, initCall, cancelledTokens, disposal,
                 closeVars, sessionVars, taken>>

Commit(i) ==
  /\ registry' = [registry EXCEPT ![KeyOf[i]] = i]
  /\ stage' = [stage EXCEPT ![i] = 0]
  /\ taken' = taken \cup {i}

\* _register_module_checked after the injection hooks: the candidate becomes
\* the registered module, or is disposed unless it is registered or settled.
RegisterEnd(t) ==
  LET i == registration[t].at
      commits == /\ i \notin claims
                 /\ ~IsTransactionInvalidated(t)
                 /\ CanMutateRegistration
                 /\ registry[KeyOf[i]] = NoOne
      refused == ~commits /\ i \notin Registered
      others == (OpenRegisters \ {t}) # {}
  IN
  /\ registration[t].pc = "register"
  /\ HooksReturned(t)
  /\ IF commits THEN Commit(i) ELSE UNCHANGED <<registry, stage, taken>>
  /\ disposed' = [disposed EXCEPT
       ![i] = IF refused /\ i \notin claims THEN @ + 1 ELSE @]
  /\ EndSession(IF refused THEN claims \cup {i} ELSE claims, others)
  /\ FinishTransaction(t)
  /\ registration' = [registration EXCEPT ![t] = NoRegistration]
  /\ UNCHANGED <<settlement, installers, cancelVars, activePlan, buildingPlan,
                 asyncVars, activationScope, initCall, cancelledTokens,
                 disposal, closeVars>>

\* _replace_uninitialized_module up to the injection hooks
ReplaceBegin(t, i) ==
  /\ MayRegister
  /\ MayPropose(i)
  /\ Nests(t)
  /\ BeginTransaction(t)
  /\ registration' = [registration EXCEPT
       ![t] = [pc |-> "replace", at |-> i, previous |-> registry[KeyOf[i]]]]
  /\ UNCHANGED <<settlement, installers, cancelVars, moduleVars, asyncVars,
                 activationScope, initCall, cancelledTokens, disposal,
                 closeVars, sessionVars, taken>>

\* The end of a replacement that may go on (or may not)
ReplaceSettle(t, commits) ==
  LET i == registration[t].at IN
  /\ IF commits THEN Commit(i) ELSE UNCHANGED <<registry, stage, taken>>
  /\ IF commits \/ i \in Registered
     THEN UNCHANGED sessionVars
     ELSE DisposeOnce(i)
  /\ FinishTransaction(t)
  /\ registration' = [registration EXCEPT ![t] = NoRegistration]

replaceFrame == <<settlement, installers, cancelVars, activePlan,
                  buildingPlan, asyncVars, activationScope, initCall,
                  cancelledTokens, disposal, closeVars>>

\* ...after the injection hooks, up to the dispose hook of the previous module
ReplaceEnd(t) ==
  LET i == registration[t].at
      p == registration[t].previous
      valid == /\ ~IsTransactionInvalidated(t)
               /\ CanMutateRegistration
               /\ registry[KeyOf[i]] = p
               /\ i \notin Registered
  IN
  /\ registration[t].pc = "replace"
  /\ HooksReturned(t)
  /\ \/ /\ ~valid \/ p = NoOne
        /\ ReplaceSettle(t, valid)
     \/ /\ valid /\ p # NoOne
        /\ registry' = [registry EXCEPT ![KeyOf[i]] = NoOne]
        /\ stage' = [stage EXCEPT ![p] = 0]
        /\ DisposeOnce(p)
        /\ registration' = [registration EXCEPT ![t].pc = "removing"]
        /\ UNCHANGED <<runtimeVars, taken>>
  /\ UNCHANGED replaceFrame

\* ...after that hook
ReplaceCommit(t) ==
  LET i == registration[t].at IN
  /\ registration[t].pc = "removing"
  /\ HooksReturned(t)
  /\ ReplaceSettle(t, /\ ~IsTransactionInvalidated(t)
                      /\ CanMutateRegistration
                      /\ registry[KeyOf[i]] = NoOne
                      /\ i \notin Registered)
  /\ UNCHANGED replaceFrame

\* Fault: the removed module is not disposed
UnregisterInactiveUndisposed(k) ==
  /\ MayRegister
  /\ registry[k] # NoOne
  /\ registry' = [registry EXCEPT ![k] = NoOne]
  /\ stage' = [stage EXCEPT ![registry[k]] = 0]
  /\ UNCHANGED <<failVars, activePlan, buildingPlan, asyncVars,
                 activationScope, initCall, cancelledTokens, disposal,
                 closeVars, sessionVars, ownerVars>>

\* Fault: the state is not looked at
UnregisterInactiveUnguarded(k) ==
  /\ registry[k] # NoOne
  /\ registry' = [registry EXCEPT ![k] = NoOne]
  /\ stage' = [stage EXCEPT ![registry[k]] = 0]
  /\ DisposeOnce(registry[k])
  /\ UNCHANGED <<failVars, activePlan, buildingPlan, asyncVars,
                 activationScope, initCall, cancelledTokens, disposal,
                 closeVars, ownerVars>>

\* _unregister_module before READY
UnregisterInactive(k) ==
  /\ MayRegister
  /\ registry[k] # NoOne
  /\ registry' = [registry EXCEPT ![k] = NoOne]
  /\ stage' = [stage EXCEPT ![registry[k]] = 0]
  /\ DisposeOnce(registry[k])
  /\ UNCHANGED <<failVars, activePlan, buildingPlan, asyncVars,
                 activationScope, initCall, cancelledTokens, disposal,
                 closeVars, ownerVars>>

-----------------------------------------------------------------------------
\* init()

initFrame == <<disposal, closeVars, sessionVars, ownerVars>>

InitCall(c) ==
  /\ initCall[c].pc = "idle"
  /\ IF \/ state \in {"QUIESCING", "DISPOSING", "DISPOSED"}
        \/ Settling
        \/ state = "FAILED" /\ staleBlocks > 0
     THEN Return(c, FALSE) /\ UNCHANGED failVars
     ELSE CASE state = "READY" -> Return(c, TRUE) /\ UNCHANGED failVars
            [] state \in {"INITIALIZING", "ACTIVATING"} ->
                 /\ initCall' = [initCall EXCEPT ![c] =
                      [pc |-> IF c \in cancelledTokens THEN "false"
                                                       ELSE "joined",
                       gen |-> generation, at |-> NoOne]]
                 /\ UNCHANGED failVars
            [] state \in {"NEW", "FAILED"} /\ c \in cancelledTokens ->
                 /\ generation + 2 <= MaxGeneration
                 /\ BeginAndFailInitialization
                 /\ StartSettlement
                 /\ Return(c, FALSE)
            [] OTHER ->
                 /\ generation < MaxGeneration
                 /\ BeginInitialization \/ RestartAfterFailure
                 /\ initCall' = [initCall EXCEPT ![c] =
                      [pc |-> "onInit", gen |-> generation + 1, at |-> NoOne]]
                 /\ UNCHANGED <<settlement, installers, cancelVars>>
  /\ UNCHANGED <<moduleVars, asyncVars, activationScope, cancelledTokens,
                 initFrame>>

\* The module to advance next: the stages are run one after the other, each in
\* plan order, so it is the first of those that have reached the least stage.
NextToAdvance(plan, st) ==
  First({i \in plan : \A j \in plan : st[i] <= st[j]})

(***************************************************************************)
(* What a current call does, without giving control away, from a completed *)
(* step (the stages are then st) to its next hook: the loop of             *)
(* _advance_lifecycle_plan_to_stage, the calls for stages 1, 2 and 3, and  *)
(* the start of the activation.  An empty plan is activated on the spot.   *)
(***************************************************************************)
Proceed(c, plan, st) ==
  LET g == initCall[c].gen
      i == NextToAdvance(plan, st)
  IN
  /\ stage' = st
  /\ \/ /\ c \in cancelledTokens
        /\ Fail(g)
        /\ Return(c, FALSE)
        /\ buildingPlan' = plan
        /\ UNCHANGED <<activePlan, asyncInit, activationScope>>
     \/ /\ c \notin cancelledTokens
        /\ plan # {} /\ st[i] \in {0, 2}
        /\ Goto(c, "hook", i)
        /\ buildingPlan' = plan
        /\ UNCHANGED <<failVars, activePlan, asyncInit, activationScope>>
     \/ /\ c \notin cancelledTokens
        /\ plan # {} /\ st[i] = 1
        /\ Goto(c, "async", i)
        /\ asyncInit' = [asyncInit EXCEPT ![i] = "running"]
        /\ buildingPlan' = plan
        /\ UNCHANGED <<failVars, activePlan, activationScope>>
     \/ /\ c \notin cancelledTokens
        /\ plan # {} /\ st[i] = 3
        /\ BeginActivation(g)
        /\ Goto(c, "actHook", First(plan))
        /\ buildingPlan' = plan
        /\ activationScope' = g
        /\ UNCHANGED <<settlement, installers, cancelVars, activePlan,
                       asyncInit>>
     \/ /\ c \notin cancelledTokens
        /\ plan = {}
        /\ ActivateNothing(g)
        /\ initCall' = [Woken EXCEPT ![c].pc = "emit"]
        /\ activePlan' = plan
        /\ buildingPlan' = {}
        /\ UNCHANGED <<settlement, installers, cancelVars, asyncInit,
                       activationScope>>

\* A driver whose generation is over, or failed, gives up.
GiveUp(c) ==
  /\ Stale(c) \/ state = "FAILED"
  /\ Return(c, FALSE)
  /\ UNCHANGED <<failVars, moduleVars, asyncVars, activationScope>>

\* A failure of the step the driver is in
FailStep(c) ==
  /\ Fail(initCall[c].gen)
  /\ Return(c, FALSE)
  /\ UNCHANGED <<moduleVars, activationScope>>

\* After _on_init(): compile the plan, lease the external dependencies and
\* start the first stage.  The plan is refused when a declared dependency is
\* missing; whether a parent grants the leases is left open.
OnInitReturn(c) ==
  /\ initCall[c].pc = "onInit"
  /\ Unwound
  /\ \/ (Stale(c) \/ state # "INITIALIZING")
        /\ Return(c, FALSE)
        /\ UNCHANGED <<failVars, moduleVars, asyncVars, activationScope>>
     \/ /\ ~Stale(c) /\ state = "INITIALIZING"
        /\ \/ FailStep(c) /\ UNCHANGED asyncVars
           \/ /\ \A i \in Registered :
                   Deps[KeyOf[i]] \subseteq {KeyOf[j] : j \in Registered}
              /\ Proceed(c, Registered, stage)
              /\ UNCHANGED <<registry, staleBlocks>>
  /\ UNCHANGED <<cancelledTokens, initFrame>>

\* Fault: the generation is not looked at after a hook
HookReturnUnchecked(c) ==
  /\ initCall[c].pc = "hook"
  /\ Unwound
  /\ state # "FAILED"
  /\ Proceed(c, buildingPlan, [stage EXCEPT ![initCall[c].at] = @ + 1])
  /\ UNCHANGED <<registry, staleBlocks, cancelledTokens, initFrame>>

\* init() or ready() of a module returns
HookReturn(c) ==
  /\ initCall[c].pc = "hook"
  /\ Unwound
  /\ \/ GiveUp(c)
     \/ /\ ~Stale(c) /\ state # "FAILED"
        /\ Proceed(c, buildingPlan,
                   [stage EXCEPT ![initCall[c].at] = @ + 1])
        /\ UNCHANGED <<registry, staleBlocks>>
  /\ UNCHANGED <<cancelledTokens, initFrame>>

\* One turn of the loop of _await_module_async_init, or its end
AsyncStep(c) ==
  LET i == initCall[c].at IN
  /\ initCall[c].pc = "async"
  /\ Unwound
  /\ \/ GiveUp(c)
     \/ /\ ~Stale(c) /\ state # "FAILED"
        /\ \/ /\ asyncInit[i] = "returned" /\ i \notin asyncCancelled
              /\ Proceed(c, buildingPlan, [stage EXCEPT ![i] = 2])
              /\ UNCHANGED <<registry, staleBlocks>>
           \/ /\ \/ i \in asyncCancelled
                 \/ asyncInit[i] # "returned" /\ c \in cancelledTokens
              /\ FailStep(c)
              /\ UNCHANGED asyncVars
           \/ /\ AsyncTimeout
              /\ asyncInit[i] # "returned"
              /\ i \notin asyncCancelled /\ c \notin cancelledTokens
              /\ asyncInit' = [asyncInit EXCEPT ![i] = "blocked"]
              /\ staleBlocks' = staleBlocks + 1
              /\ FailStep(c)
  /\ UNCHANGED <<cancelledTokens, initFrame>>

\* Fault: every return lowers the count
AsyncReturnUncounted(i) ==
  /\ asyncInit[i] \in {"running", "blocked"}
  /\ asyncInit' = [asyncInit EXCEPT ![i] = "returned"]
  /\ staleBlocks' = staleBlocks - 1
  /\ UNCHANGED <<failVars, moduleVars, activationScope, initCall,
                 cancelledTokens, initFrame>>

\* The coroutine of async_init ends, in time or late
AsyncReturn(i) ==
  /\ asyncInit[i] \in {"running", "blocked"}
  /\ asyncInit' = [asyncInit EXCEPT ![i] = "returned"]
  /\ staleBlocks' = IF asyncInit[i] = "blocked" /\ staleBlocks > 0
                    THEN staleBlocks - 1 ELSE staleBlocks
  /\ UNCHANGED <<failVars, moduleVars, activationScope, initCall,
                 cancelledTokens, initFrame>>

\* The module cancels the scope it was given
AsyncSelfCancel(i) ==
  /\ asyncInit[i] = "running"
  /\ i \notin asyncCancelled
  /\ asyncCancelled' = asyncCancelled \cup {i}
  /\ UNCHANGED <<runtimeVars, settlement, installers, cancelledScopes,
                 moduleVars, asyncVars, activationScope, initCall,
                 cancelledTokens, initFrame>>

\* The activation of a module ends well: the next one begins, or the plan is
\* committed.
Activated(c) ==
  LET st == [stage EXCEPT ![initCall[c].at] = 4]
      rest == {i \in buildingPlan : st[i] < 4}
  IN
  /\ stage' = st
  /\ IF rest # {}
     THEN /\ Goto(c, "actHook", First(rest))
          /\ UNCHANGED <<failVars, activePlan, buildingPlan, activationScope>>
     ELSE /\ FinishActivation(initCall[c].gen)
          /\ initCall' = [Woken EXCEPT ![c].pc = "emit"]
          /\ activePlan' = buildingPlan
          /\ buildingPlan' = {}
          /\ activationScope' = 0
          /\ UNCHANGED <<settlement, installers, cancelVars>>

\* The member _activation_scope is cancelled, then the generation fails
CancelMemberScope(c) ==
  LET g == initCall[c].gen
      hit == {activationScope} \ {0}
  IN
  /\ IF CanFail(g)
     THEN Fail(g)
     ELSE /\ cancelledScopes' = cancelledScopes \cup hit
          /\ UNCHANGED <<runtimeVars, settlement, installers, asyncCancelled>>
  /\ Return(c, FALSE)
  /\ UNCHANGED <<moduleVars, activationScope>>

\* What _activate_lifecycle_plan does with a completion that is terminal, timed
\* out or interrupted
ActivationOutcome(c) ==
  \/ c \in cancelledTokens /\ CancelMemberScope(c)
  \/ /\ c \notin cancelledTokens
     /\ \/ FailStep(c)
        \/ /\ ~Stale(c) /\ initCall[c].gen \notin cancelledScopes
           /\ Activated(c)
           /\ UNCHANGED registry

\* begin_activation() of a module returns its completion
ActHookReturn(c) ==
  /\ initCall[c].pc = "actHook"
  /\ Unwound
  /\ \/ FailStep(c)
     \/ ActivationOutcome(c)
     \/ /\ ~Stale(c) /\ c \notin cancelledTokens
        /\ initCall[c].gen \notin cancelledScopes
        /\ Goto(c, "actWait", initCall[c].at)
        /\ UNCHANGED <<failVars, moduleVars, activationScope>>
  /\ UNCHANGED <<asyncVars, cancelledTokens, initFrame>>

\* ...which the driver awaits frame by frame
ActPoll(c) ==
  /\ initCall[c].pc = "actWait"
  /\ AtFrame
  /\ ActivationOutcome(c)
  /\ UNCHANGED <<asyncVars, cancelledTokens, initFrame>>

\* The handlers of initialization_finished return
EmitReturn(c) ==
  /\ initCall[c].pc = "emit"
  /\ Unwound
  /\ Return(c, state = "READY" /\ ~Stale(c))
  /\ UNCHANGED <<failVars, moduleVars, asyncVars, activationScope,
                 cancelledTokens, initFrame>>

\* A joined call resumes inside initialization_finished
JoinResolve(c) ==
  /\ initCall[c].pc = "woken"
  /\ Return(c, state = "READY" /\ ~Stale(c))
  /\ UNCHANGED <<failVars, moduleVars, asyncVars, activationScope,
                 cancelledTokens, initFrame>>

\* The caller cancels the token of a call; a joined call returns at once
CancelToken(c) ==
  /\ c \notin cancelledTokens
  /\ initCall[c].pc \notin InitReturned
  /\ cancelledTokens' = cancelledTokens \cup {c}
  /\ IF initCall[c].pc = "joined" THEN Return(c, FALSE)
                                  ELSE UNCHANGED initCall
  /\ UNCHANGED <<failVars, moduleVars, asyncVars, activationScope, initFrame>>

-----------------------------------------------------------------------------
\* Failure and its settlement

\* The public fail_initialization()
PublicFail ==
  /\ generation < MaxGeneration
  /\ CanFail(generation)
  /\ Fail(generation)
  /\ UNCHANGED <<moduleVars, asyncVars, activationScope, initCall,
                 cancelledTokens, initFrame>>

\* _clear_failed_initialization_state, one dispose hook after the other.  A
\* hook may dispose the whole architecture, which then ends first.
SettleDispose(i) ==
  LET rest == settlement.todo \ claims IN
  /\ settlement.pc = "disposing"
  /\ state # "DISPOSING" /\ shutdown.pc # "hook"
  /\ i \in rest
  /\ NextToDispose(rest, i)
  /\ DisposeOnce(i)
  /\ UNCHANGED <<failVars, moduleVars, asyncVars, activationScope, initCall,
                 cancelledTokens, disposal, closeVars, ownerVars>>

\* Fault: the plan in progress is not forgotten
ClearedButPlan ==
  /\ registry' = [k \in Keys |-> NoOne]
  /\ stage' = [i \in Instances |-> 0]
  /\ activePlan' = {}
  /\ UNCHANGED buildingPlan
  /\ activationScope' = 0

Cleared ==
  /\ registry' = [k \in Keys |-> NoOne]
  /\ stage' = [i \in Instances |-> 0]
  /\ activePlan' = {}
  /\ buildingPlan' = {}
  /\ activationScope' = 0

SettleClear ==
  /\ settlement.pc = "disposing"
  /\ state # "DISPOSING" /\ shutdown.pc # "hook"
  /\ settlement.todo \subseteq claims
  /\ settlement' = [pc |-> "emitting", todo |-> {}]
  /\ Cleared
  /\ EndSession(claims, OpenRegisters # {})
  /\ initCall' = Woken
  /\ UNCHANGED <<runtimeVars, installers, cancelVars, asyncVars,
                 cancelledTokens, disposal, closeVars, disposed, ownerVars>>

\* The handlers of initialization_failed and initialization_finished return
SettleEnd ==
  /\ settlement.pc = "emitting"
  /\ state # "DISPOSING" /\ shutdown.pc # "hook"
  /\ \A c \in InitCalls : initCall[c].pc # "woken"
  /\ settlement' = [pc |-> "off", todo |-> {}]
  /\ UNCHANGED <<runtimeVars, installers, cancelVars, moduleVars, asyncVars,
                 activationScope, initCall, cancelledTokens, initFrame>>

-----------------------------------------------------------------------------
\* Shutdown and disposal

\* _shutdown_completion: the pending one, or a new one
ClaimCompletion == completion' = "pending"

shutdownFrame == <<settlement, installers, moduleVars, asyncVars,
                   activationScope, initCall, cancelledTokens, sessionVars,
                   ownerVars>>

Waits(s) == shutdownCall' = [shutdownCall EXCEPT ![s] = "waiting"]

\* The verdict of a shutdown whose token was cancelled, or whose deadline had
\* passed, before any module was asked to quiesce
EarlyVerdict ==
  {"timed_out"} \cup (IF shutdownToken THEN {"cancelled"} ELSE {})

\* shutdown_async(): ends at once, joins, interrupts an initialization, or
\* becomes the owner of the shutdown up to its first begin_quiesce hook
ShutdownCall(s) ==
  /\ shutdownCall[s] = "idle"
  /\ \/ /\ state = "DISPOSED"
        /\ shutdownCall' = [shutdownCall EXCEPT ![s] = "already_disposed"]
        /\ UNCHANGED <<runtimeVars, cancelVars, disposal, completion, shutdown>>
     \/ /\ state # "DISPOSED" /\ completion = "pending"
        /\ Waits(s)
        /\ UNCHANGED <<runtimeVars, cancelVars, disposal, completion, shutdown>>
     \/ /\ completion # "pending" /\ state \in {"INITIALIZING", "ACTIVATING"}
        /\ ClaimCompletion
        /\ Waits(s)
        /\ StartDisposal("forced", {}, ForcedUnfinished)
        /\ UNCHANGED shutdown
     \/ /\ completion # "pending" /\ state \in {"NEW", "READY", "FAILED"}
        /\ ClaimCompletion
        /\ Waits(s)
        /\ \/ /\ \E v \in EarlyVerdict : StartDisposal(v, {}, activePlan)
              /\ UNCHANGED shutdown
           \/ /\ ~shutdownToken /\ activePlan = {}
              /\ StartDisposal("succeeded", {}, {})
              /\ UNCHANGED shutdown
           \/ /\ ~shutdownToken /\ activePlan # {}
              /\ BeginQuiesce
              /\ shutdown' = [NoShutdown EXCEPT
                   !.pc = "hook", !.at = Last(activePlan),
                   !.todo = activePlan \ {Last(activePlan)}]
              /\ UNCHANGED <<cancelVars, disposal>>
  /\ UNCHANGED <<shutdownFrame, shutdownToken, lastResult, published>>

\* The shutdown ends with a verdict, which the disposal will publish.
EndQuiesce(verdict, finished, unfinished) ==
  /\ StartDisposal(verdict, finished, unfinished)
  /\ shutdown' = NoShutdown

\* Fault: a deadline forgets the modules that were not asked
QuiesceNextForgetful(finished, unfinished) ==
  LET rest == shutdown.todo
      verdict == IF unfinished = {} THEN "succeeded" ELSE "failed"
  IN
  \/ /\ rest # {}
     /\ shutdown' = [pc |-> "hook", at |-> Last(rest),
                     todo |-> rest \ {Last(rest)},
                     finished |-> finished, unfinished |-> unfinished]
     /\ UNCHANGED <<runtimeVars, cancelVars, disposal>>
  \/ rest = {} /\ EndQuiesce(verdict, finished, unfinished)
  \/ EndQuiesce("timed_out", finished, unfinished)

\* The next module after one that did or did not quiesce: the deadline is read
\* before each module and once more after the last.
QuiesceNext(finished, unfinished) ==
  LET rest == shutdown.todo
      verdict == IF unfinished = {} THEN "succeeded" ELSE "failed"
  IN
  \/ /\ rest # {}
     /\ shutdown' = [pc |-> "hook", at |-> Last(rest),
                     todo |-> rest \ {Last(rest)},
                     finished |-> finished, unfinished |-> unfinished]
     /\ UNCHANGED <<runtimeVars, cancelVars, disposal>>
  \/ rest = {} /\ EndQuiesce(verdict, finished, unfinished)
  \/ EndQuiesce("timed_out", finished, unfinished \cup rest)

QuiesceOutcome ==
  \/ /\ state # "QUIESCING"
     /\ shutdown' = NoShutdown
     /\ UNCHANGED <<runtimeVars, cancelVars, disposal>>
  \/ /\ state = "QUIESCING"
     /\ \E v \in {"cancelled", "timed_out"} :
          /\ shutdownToken => v = "cancelled"
          /\ EndQuiesce(v, shutdown.finished,
               shutdown.unfinished \cup {shutdown.at} \cup shutdown.todo)
  \/ /\ state = "QUIESCING" /\ ~shutdownToken
     /\ \/ QuiesceNext(shutdown.finished \cup {shutdown.at},
                       shutdown.unfinished)
        \/ QuiesceNext(shutdown.finished,
                       shutdown.unfinished \cup {shutdown.at})

quiesceFrame ==
  <<shutdownFrame, shutdownToken, shutdownCall, completion, lastResult,
    published>>

\* begin_quiesce() returns; its completion may still be pending
QuiesceHookReturn ==
  /\ shutdown.pc = "hook"
  /\ state # "DISPOSING"
  /\ \/ QuiesceOutcome
     \/ /\ state = "QUIESCING" /\ ~shutdownToken
        /\ shutdown' = [shutdown EXCEPT !.pc = "wait"]
        /\ UNCHANGED <<runtimeVars, cancelVars, disposal>>
  /\ UNCHANGED quiesceFrame

QuiescePoll ==
  /\ shutdown.pc = "wait"
  /\ AtFrame
  /\ QuiesceOutcome
  /\ UNCHANGED quiesceFrame

\* dispose()
DisposeCall ==
  /\ state \notin {"DISPOSING", "DISPOSED"}
  /\ ClaimCompletion
  /\ StartDisposal("forced", {}, ForcedUnfinished)
  /\ UNCHANGED <<shutdownFrame, shutdown, shutdownToken, shutdownCall,
                 lastResult, published>>

\* _force_dispose_internal, one dispose hook after the other
DisposeModule(i) ==
  LET rest == disposal.todo \ claims IN
  /\ state = "DISPOSING"
  /\ i \in rest
  /\ NextToDispose(rest, i)
  /\ DisposeOnce(i)
  /\ UNCHANGED <<failVars, moduleVars, asyncVars, activationScope, initCall,
                 cancelledTokens, disposal, closeVars, ownerVars>>

\* Fault: the completion is left pending
FinishDisposalPending ==
  /\ state = "DISPOSING"
  /\ disposal.todo \subseteq claims
  /\ FinishDispose
  /\ Cleared
  /\ installers' = "idle"
  /\ EndSession(claims, OpenRegisters # {} \/ settlement.pc = "disposing")
  /\ lastResult' = disposal.verdict
  /\ published' = published + 1
  /\ initCall' = IF disposal.signal THEN Woken ELSE initCall
  /\ disposal' = NoDisposal
  /\ UNCHANGED <<settlement, cancelVars, asyncVars, cancelledTokens, shutdown,
                 completion, shutdownToken, shutdownCall, disposed, ownerVars>>

\* ...to the end of it, and _publish_shutdown_result
FinishDisposal ==
  /\ state = "DISPOSING"
  /\ disposal.todo \subseteq claims
  /\ FinishDispose
  /\ Cleared
  /\ installers' = "idle"
  /\ EndSession(claims, OpenRegisters # {} \/ settlement.pc = "disposing")
  /\ IF completion = "pending"
     THEN /\ lastResult' = disposal.verdict
          /\ completion' = "done"
          /\ published' = published + 1
     ELSE UNCHANGED <<lastResult, completion, published>>
  /\ initCall' = IF disposal.signal THEN Woken ELSE initCall
  /\ disposal' = NoDisposal
  /\ UNCHANGED <<settlement, cancelVars, asyncVars, cancelledTokens,
                 shutdown, shutdownToken, shutdownCall, disposed, ownerVars>>

\* A call of shutdown_async() gets the published result
ShutdownResolve(s) ==
  /\ shutdownCall[s] = "waiting"
  /\ completion = "done"
  /\ shutdownCall' = [shutdownCall EXCEPT ![s] = lastResult]
  /\ UNCHANGED <<runtimeVars, cancelVars, disposal, shutdownFrame, shutdown,
                 shutdownToken, completion, lastResult, published>>

CancelShutdownToken ==
  /\ ~shutdownToken
  /\ completion # "done"
  /\ shutdownToken' = TRUE
  /\ UNCHANGED <<runtimeVars, cancelVars, disposal, shutdownFrame, shutdown,
                 shutdownCall, completion, lastResult, published>>

-----------------------------------------------------------------------------

\* The public operations and what the modules and the callers decide
Operation ==
  \/ BeginProjectInstallers
  \/ MarkProjectInstallersApplied
  \/ \E t \in TransactionIds, i \in Instances :
       RegisterBegin(t, i) \/ ReplaceBegin(t, i)
  \/ \E k \in Keys : UnregisterInactive(k)
  \/ \E c \in InitCalls : InitCall(c) \/ CancelToken(c)
  \/ \E i \in Instances : AsyncReturn(i) \/ AsyncSelfCancel(i)
  \/ PublicFail
  \/ \E s \in ShutdownCalls : ShutdownCall(s)
  \/ CancelShutdownToken
  \/ DisposeCall

\* One step of the coroutine of a call of init()
CallStep(c) ==
  \/ OnInitReturn(c)
  \/ HookReturn(c)
  \/ AsyncStep(c)
  \/ ActHookReturn(c)
  \/ ActPoll(c)
  \/ EmitReturn(c)
  \/ JoinResolve(c)

\* One step of the register or replace call t
RegistrationStep(t) == RegisterEnd(t) \/ ReplaceEnd(t) \/ ReplaceCommit(t)

\* One step of a synchronous cleanup pass
CleanupStep ==
  \/ \E i \in Instances : SettleDispose(i) \/ DisposeModule(i)
  \/ SettleClear
  \/ SettleEnd
  \/ FinishDisposal

QuiesceStep == QuiesceHookReturn \/ QuiescePoll

Next ==
  \/ Operation
  \/ \E c \in InitCalls : CallStep(c)
  \/ \E t \in TransactionIds : RegistrationStep(t)
  \/ CleanupStep
  \/ QuiesceStep
  \/ \E s \in ShutdownCalls : ShutdownResolve(s)

Spec == Init /\ [][Next]_vars

(***************************************************************************)
(* Hooks return, a coroutine that waits for a frame gets one, and every    *)
(* wait has a deadline: activation_timeout_seconds and                     *)
(* shutdown_timeout_seconds are on by default, and AsyncTimeout says that  *)
(* module_async_init_timeout_seconds is on.  No operation is ever owed.    *)
(***************************************************************************)
Fairness ==
  /\ \A c \in InitCalls : WF_vars(CallStep(c))
  /\ \A t \in TransactionIds : WF_vars(RegistrationStep(t))
  /\ WF_vars(CleanupStep)
  /\ WF_vars(QuiesceStep)
  /\ \A s \in ShutdownCalls : WF_vars(ShutdownResolve(s))

FairSpec == Spec /\ Fairness

-----------------------------------------------------------------------------
\* Properties

CleaningUp == settlement.pc = "disposing" \/ state = "DISPOSING"

\* dispose() runs at most once on a module, although registration, failure
\* settlement and disposal may be nested in each other's hooks and all of them
\* walk the same registry (_module_disposal_claims).
DisposedAtMostOnce == \A i \in Instances : disposed[i] <= 1

\* A module the architecture took is registered until it is disposed, and
\* outside a cleanup pass no disposed module is still registered: no path
\* through a failed, replaced or interrupted registration loses one.
OwnershipAccounted ==
  \A i \in taken :
    /\ i \notin Registered => disposed[i] > 0
    /\ i \in Registered /\ disposed[i] > 0 => CleaningUp

\* While a hook of a stage runs, every dependency of the module has completed
\* that stage and every module of the plan has completed the stage before
\* (_advance_lifecycle_plan_to_stage, _activate_lifecycle_plan); and what these
\* steps end in, READY, is committed whole: the active plan is what is registered,
\* all of it activated and none of it disposed (init(), lines 943-948).
StagesInOrder ==
  /\ \A c \in InitCalls :
       /\ initCall[c].pc \in {"hook", "async", "actHook", "actWait"}
       /\ ~Stale(c)
       => LET i == initCall[c].at IN
          \A j \in buildingPlan :
            /\ stage[i] <= stage[j]
            /\ KeyOf[j] \in Deps[KeyOf[i]] => stage[i] < stage[j]
  /\ state = "READY" =>
       /\ activePlan = Registered
       /\ buildingPlan = {}
       /\ \A i \in Registered : stage[i] = 4 /\ disposed[i] = 0

\* The modules go in the reverse of the order in which they came: while one
\* quiesces, its dependents in the active plan have been asked before it
\* (_quiesce_active_modules); and every cleanup pass disposes the dependents of a
\* module before the module, also when a hook of the failure settlement disposes
\* the architecture (_clear_failed_initialization_state, _force_dispose_internal).
DependentsFirst ==
  /\ shutdown.pc # "none" /\ state = "QUIESCING" =>
       \A j \in activePlan :
         KeyOf[shutdown.at] \in Deps[KeyOf[j]]
           => j \in shutdown.finished \cup shutdown.unfinished
  /\ CleaningUp =>
       \A i, j \in CleanupPlan :
         KeyOf[i] \in Deps[KeyOf[j]] /\ disposed[i] > 0 => disposed[j] > 0

\* Up and down again, no module is used without what it depends on.
DependenciesRespected == StagesInOrder /\ DependentsFirst

\* The result a disposal will publish accounts for its modules: a forced one
\* for every module that had entered a stage, any other one for the whole
\* active plan, and "succeeded" says that all of it quiesced.  However many calls
\* of shutdown_async() and dispose() meet, one result is published, and a closed
\* architecture has published it.
ShutdownAudit ==
  /\ state = "DISPOSING" =>
       /\ disposal.verdict = "forced" => ForcedUnfinished \subseteq disposal.unfinished
       /\ disposal.verdict # "forced" =>
            activePlan \subseteq disposal.finished \cup disposal.unfinished
       /\ disposal.finished \cap disposal.unfinished = {}
       /\ disposal.verdict = "succeeded" => activePlan \subseteq disposal.finished
  /\ published <= 1
  /\ state = "DISPOSED" <=> published = 1
  /\ published = 1 => completion = "done" /\ lastResult # "none"

\* A driver that resumes in a later generation ends with false and touches
\* nothing of that generation (the activation scope is the exception that
\* ActivationScopeIsOwn is about).  And init() answers true only while the
\* architecture is READY, and a call that had to wait only for the generation it
\* waited for.
StaleDriverInert ==
  [][\A c \in InitCalls :
       /\ /\ initCall[c].pc \notin {"idle", "joined"} \cup InitReturned
          /\ Stale(c)
          /\ initCall'[c] # initCall[c]
          => /\ initCall'[c].pc = "false"
             /\ UNCHANGED <<runtimeVars, settlement, installers, moduleVars,
                            asyncVars, activationScope>>
       /\ initCall'[c].pc = "true" /\ initCall[c].pc # "true" =>
            /\ state = "READY"
            /\ initCall[c].pc # "idle" => ~Stale(c)]_vars

\* An initialization starts from a clean architecture: whatever a failed
\* generation held is disposed and forgotten, and none of its late async_init
\* may still write: the stale write block counts those that timed out and have
\* not returned, and it is empty.
RestartsClean ==
  [][state' = "INITIALIZING" /\ state # "INITIALIZING" =>
       /\ ~Settling
       /\ staleBlocks = 0 /\ \A i \in Instances : asyncInit[i] # "blocked"
       /\ activePlan = {} /\ buildingPlan = {} /\ activationScope = 0
       /\ \A i \in Instances : stage[i] = 0
       /\ \A i \in Registered : disposed[i] = 0]_vars

\* Every call of init() returns, whichever hooks hang until their deadline and
\* whoever fails, shuts down or disposes the architecture meanwhile.
InitCallsReturn ==
  \A c \in InitCalls :
    initCall[c].pc # "idle" ~> initCall[c].pc \in InitReturned

\* Every call of shutdown_async() gets a result, and a disposal that began ends.
ShutdownSettles ==
  /\ \A s \in ShutdownCalls :
       shutdownCall[s] = "waiting" ~> shutdownCall[s] # "waiting"
  /\ state \in {"QUIESCING", "DISPOSING"} ~> state = "DISPOSED"

\* With fair hooks, frames and deadlines nobody who called the architecture waits for ever.
CallsReturn == InitCallsReturn /\ ShutdownSettles

\* The architecture keeps its contract.
Phase ==
  CASE state = "NEW" -> "assembling"
    [] state \in {"INITIALIZING", "ACTIVATING"} -> "starting"
    [] state = "READY" -> "serving"
    [] state = "FAILED" -> "failed"
    [] state \in {"QUIESCING", "DISPOSING"} -> "closing"
    [] state = "DISPOSED" -> "closed"

Contract == INSTANCE ArchitectureContract WITH
  Modules <- Instances,
  phase <- Phase,
  owned <- {i \in taken : disposed[i] = 0},
  serving <- IF state = "READY" THEN activePlan ELSE {},
  releases <- disposed

KeepsContract == Contract!ContractSpec

\* The token of one call of init() does not cancel the activation that another
\* generation waits for: the scope of the current activation is cancelled only
\* by failing that generation.
ActivationScopeIsOwn ==
  state = "ACTIVATING" => generation \notin cancelledScopes

\* A module is asked to quiesce before it is disposed, never after.
QuiesceBeforeDispose ==
  shutdown.pc = "hook" => disposed[shutdown.at] = 0
=============================================================================
