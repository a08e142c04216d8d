-------------------- MODULE ArchitectureLifecycle_proofs --------------------
(***************************************************************************)
(* Theorems about ArchitectureLifecycle, for any number of modules, calls  *)
(* and nested registrations.                                               *)
(***************************************************************************)
EXTENDS ArchitectureLifecycle, FiniteSetTheorems, TLAPS

\* A plan that is not empty has its first and its last module in it.
LEMMA FirstInPlan ==
  ASSUME NEW plan \in SUBSET Instances, plan # {}
  PROVE  First(plan) \in plan
<1>1. \E i \in plan : \A j \in plan : Rank[i] <= Rank[j] BY PlanAssumption
<1> QED BY <1>1 DEF First

LEMMA LastInPlan ==
  ASSUME NEW plan \in SUBSET Instances, plan # {}
  PROVE  Last(plan) \in plan
<1>1. \E i \in plan : \A j \in plan : Rank[j] <= Rank[i] BY PlanAssumption
<1> QED BY <1>1 DEF Last

LEMMA SetStageType ==
  ASSUME NEW st \in [Instances -> 0..4], NEW i, NEW n \in 0..4
  PROVE  [st EXCEPT ![i] = n] \in [Instances -> 0..4]
BY Zenon

\* The module to advance next is one of the plan that is at the least stage.
LEMMA NextToAdvanceInPlan ==
  ASSUME NEW plan \in SUBSET Instances, plan # {},
         NEW st \in [Instances -> 0..4]
  PROVE  /\ NextToAdvance(plan, st) \in plan
         /\ \A j \in plan : st[NextToAdvance(plan, st)] <= st[j]
<1> DEFINE least == {i \in plan : \A j \in plan : st[i] <= st[j]}
<1>1. least # {}
  <2>0. \A i \in plan : st[i] \in 0..4 OBVIOUS
  <2>1. CASE \E i \in plan : st[i] = 0 BY <2>0, <2>1, SMT
  <2>2. CASE ~(\E i \in plan : st[i] = 0) /\ \E i \in plan : st[i] = 1 BY <2>0, <2>2, SMT
  <2>3. CASE ~(\E i \in plan : st[i] <= 1) /\ \E i \in plan : st[i] = 2 BY <2>0, <2>3, SMT
  <2>4. CASE ~(\E i \in plan : st[i] <= 2) /\ \E i \in plan : st[i] = 3 BY <2>0, <2>4, SMT
  <2>5. CASE ~(\E i \in plan : st[i] <= 3) BY <2>0, <2>5, SMT
  <2> QED BY <2>0, <2>1, <2>2, <2>3, <2>4, <2>5, SMT
<1>2. First(least) \in least BY <1>1, FirstInPlan
<1> QED BY <1>2 DEF NextToAdvance

-----------------------------------------------------------------------------
\* Type correctness.  The type of stage rests on the driver of the current
\* generation being the only one: then a hook that returns raises the stage
\* of its module from 0 or 2.

InStages == {"onInit", "hook", "async"}
InActivation == {"actHook", "actWait"}
Driving(c) == initCall[c].pc \in InStages \cup InActivation

\* A driver belongs to a generation that has begun, and only one to this one.
OneDriver ==
  \A c \in InitCalls : Driving(c) =>
    /\ initCall[c].gen <= generation
    /\ ~Stale(c) => \A d \in InitCalls \ {c} : Driving(d) => Stale(d)

\* The driver of this generation is where the lifecycle state says.
DriverState ==
  \A c \in InitCalls : ~Stale(c) =>
    /\ initCall[c].pc \in InStages => state = "INITIALIZING"
    /\ initCall[c].pc \in InActivation => state = "ACTIVATING"

HookStage ==
  \A c \in InitCalls : ~Stale(c) /\ initCall[c].pc = "hook" =>
    stage[initCall[c].at] \in {0, 2}

\* A settlement follows a failure, and nothing starts before its end.
SettlementState ==
  Settling => state \in {"FAILED", "QUIESCING", "DISPOSING", "DISPOSED"}

Answered == completion = "done" => lastResult \in Verdict

DriverInv == OneDriver /\ DriverState /\ HookStage

TypeInv == TypeOK /\ DriverInv /\ SettlementState /\ Answered

USE DEF TypeInv, runtimeVars, failVars, moduleVars, shutdownFrame

THEOREM InitTypeInv == Init => TypeInv
<1> SUFFICES ASSUME Init PROVE TypeInv OBVIOUS
<1> USE DEF Init, RuntimeInit
<1>1. TypeOK
  <2>1. RuntimeTypeOK BY DEF RuntimeTypeOK, LifecycleState, Transaction, NoTransaction
  <2>2. ModuleTypeOK BY DEF ModuleTypeOK
  <2>3. OwnerTypeOK BY DEF OwnerTypeOK
  <2>4. AsyncTypeOK BY DEF AsyncTypeOK
  <2>5. CallTypeOK BY DEF CallTypeOK, InitCallRecord, InitPc
  <2>6. SettlementTypeOK BY DEF SettlementTypeOK
  <2>7. ClosingTypeOK BY DEF ClosingTypeOK, NoDisposal, Verdict
  <2> QED BY <2>1, <2>2, <2>3, <2>4, <2>5, <2>6, <2>7 DEF TypeOK
<1>2. \A c \in InitCalls : initCall[c].pc = "idle" OBVIOUS
<1> QED
  BY <1>1, <1>2 DEF DriverInv, OneDriver, DriverState, HookStage, SettlementState, Settling,
     Answered, Driving, InStages, InActivation

\* What the parts of an action leave in the variables they change.

LEMMA CancelType ==
  ASSUME TypeOK, CancelActiveScopes
  PROVE  asyncCancelled' \subseteq Instances /\ cancelledScopes' \subseteq Nat
BY DEF TypeOK, AsyncTypeOK, CancelActiveScopes

LEMMA CleanupSetType ==
  ASSUME TypeOK
  PROVE  CleanupSet \subseteq Instances /\ ForcedUnfinished \subseteq Instances
BY DEF TypeOK, ModuleTypeOK, CleanupSet, ForcedUnfinished, CleanupPlan,
   Registered

LEMMA RuntimeStepType ==
  ASSUME RuntimeTypeOK,
         NEW g \in Nat,
         \/ BeginInitialization \/ BeginActivation(g) \/ FinishActivation(g)
         \/ FailInitialization(g) \/ ClearFailure \/ RestartAfterFailure
         \/ BeginAndFailInitialization \/ ActivateNothing(g)
         \/ BeginQuiesce \/ BeginDispose \/ FinishDispose
         \/ UNCHANGED runtimeVars
  PROVE  RuntimeTypeOK'
<1> USE DEF RuntimeTypeOK, LifecycleState, Transaction
<1>1. CASE BeginInitialization BY <1>1 DEF BeginInitialization
<1>2. CASE BeginActivation(g) BY <1>2 DEF BeginActivation
<1>3. CASE FinishActivation(g) BY <1>3 DEF FinishActivation
<1>4. CASE FailInitialization(g) BY <1>4 DEF FailInitialization, MarkTransactionsFailed
<1>5. CASE ClearFailure BY <1>5 DEF ClearFailure
<1>6. CASE RestartAfterFailure BY <1>6 DEF RestartAfterFailure
<1>7. CASE BeginAndFailInitialization
  BY <1>7 DEF BeginAndFailInitialization, MarkTransactionsFailed
<1>8. CASE ActivateNothing(g) BY <1>8 DEF ActivateNothing
<1>9. CASE BeginQuiesce BY <1>9 DEF BeginQuiesce
<1>10. CASE BeginDispose BY <1>10 DEF BeginDispose
<1>11. CASE FinishDispose BY <1>11 DEF FinishDispose
<1>12. CASE UNCHANGED runtimeVars BY <1>12
<1> QED BY <1>1, <1>2, <1>3, <1>4, <1>5, <1>6, <1>7, <1>8, <1>9, <1>10, <1>11, <1>12

LEMMA TransactionType ==
  ASSUME RuntimeTypeOK, NEW t \in TransactionIds,
         BeginTransaction(t) \/ FinishTransaction(t)
  PROVE  RuntimeTypeOK'
<1>1. NoTransaction \in Transaction BY DEF RuntimeTypeOK, NoTransaction, Transaction
<1>2. [NoTransaction EXCEPT !.open = TRUE, !.generation = generation]
        \in Transaction
  BY DEF RuntimeTypeOK, NoTransaction, Transaction
<1>3. CASE BeginTransaction(t) BY <1>2, <1>3 DEF RuntimeTypeOK, BeginTransaction
<1>4. CASE FinishTransaction(t) BY <1>1, <1>4 DEF RuntimeTypeOK, FinishTransaction
<1> QED BY <1>3, <1>4

LEMMA StartSettlementType ==
  ASSUME TypeOK, StartSettlement
  PROVE  /\ SettlementTypeOK'
         /\ asyncCancelled' \subseteq Instances /\ cancelledScopes' \subseteq Nat
BY CancelType, CleanupSetType DEF StartSettlement, SettlementTypeOK

LEMMA FailType ==
  ASSUME TypeOK, NEW g \in Nat, Fail(g)
  PROVE  /\ RuntimeTypeOK' /\ SettlementTypeOK'
         /\ asyncCancelled' \subseteq Instances /\ cancelledScopes' \subseteq Nat
<1>1. CASE FailInitialization(g) /\ StartSettlement
  BY <1>1, RuntimeStepType, StartSettlementType DEF TypeOK
<1>2. CASE UNCHANGED failVars
  BY <1>2, RuntimeStepType DEF cancelVars, TypeOK, SettlementTypeOK, AsyncTypeOK
<1> QED BY <1>1, <1>2 DEF Fail

DisposalTypeOK ==
  disposal \in [todo: SUBSET Instances, verdict: Verdict,
                finished: SUBSET Instances, unfinished: SUBSET Instances,
                signal: BOOLEAN]

LEMMA StartDisposalType ==
  ASSUME TypeOK, NEW verdict \in Verdict,
         NEW finished \in SUBSET Instances, NEW unfinished \in SUBSET Instances,
         StartDisposal(verdict, finished, unfinished)
  PROVE  /\ RuntimeTypeOK' /\ DisposalTypeOK'
         /\ asyncCancelled' \subseteq Instances /\ cancelledScopes' \subseteq Nat
<1>1. RuntimeTypeOK' BY RuntimeStepType DEF StartDisposal, TypeOK
<1>2. DisposalTypeOK' BY CleanupSetType DEF StartDisposal, DisposalTypeOK
<1> QED BY <1>1, <1>2, CancelType DEF StartDisposal

LEMMA ReturnType ==
  ASSUME CallTypeOK, NEW c \in InitCalls, NEW r, Return(c, r)
  PROVE  initCall' \in [InitCalls -> InitCallRecord]
BY DEF CallTypeOK, Return, Returned, InitCallRecord, InitPc

LEMMA GotoType ==
  ASSUME CallTypeOK, NEW c \in InitCalls, NEW i \in Instances,
         NEW pc \in InitPc, Goto(c, pc, i)
  PROVE  initCall' \in [InitCalls -> InitCallRecord]
BY DEF CallTypeOK, Goto, InitCallRecord

LEMMA WokenType ==
  ASSUME CallTypeOK
  PROVE  Woken \in [InitCalls -> InitCallRecord]
BY DEF CallTypeOK, Woken, InitCallRecord, InitPc

\* Proceed(c, plan, st) with stages that are stages
LEMMA ProceedType ==
  ASSUME TypeOK, NEW c \in InitCalls, NEW plan \in SUBSET Instances,
         NEW st \in [Instances -> 0..4], Proceed(c, plan, st)
  PROVE  /\ RuntimeTypeOK' /\ SettlementTypeOK'
         /\ asyncCancelled' \subseteq Instances /\ cancelledScopes' \subseteq Nat
         /\ stage' \in [Instances -> 0..4]
         /\ activePlan' \subseteq Instances /\ buildingPlan' \subseteq Instances
         /\ initCall' \in [InitCalls -> InitCallRecord]
         /\ asyncInit' \in
              [Instances -> {"none", "running", "blocked", "returned"}]
         /\ activationScope' \in Nat
<1> DEFINE g == initCall[c].gen
           i == NextToAdvance(plan, st)
<1>g. g \in Nat BY DEF TypeOK, CallTypeOK, InitCallRecord
<1>i. plan # {} => i \in Instances BY NextToAdvanceInPlan
<1>f. plan # {} => First(plan) \in Instances BY FirstInPlan
<1> HIDE DEF g, i
<1> USE DEF TypeOK, ModuleTypeOK, AsyncTypeOK, SettlementTypeOK
<1>1. CASE /\ Fail(g) /\ Return(c, FALSE)
           /\ stage' = st /\ buildingPlan' = plan
           /\ UNCHANGED <<activePlan, asyncInit, activationScope>>
  BY <1>1, <1>g, FailType, ReturnType
<1>2. CASE /\ plan # {} /\ Goto(c, "hook", i)
           /\ stage' = st /\ buildingPlan' = plan
           /\ UNCHANGED <<failVars, activePlan, asyncInit, activationScope>>
  <2>1. initCall' \in [InitCalls -> InitCallRecord] BY <1>2, <1>i, GotoType DEF InitPc
  <2> QED BY <1>2, <2>1 DEF cancelVars, RuntimeTypeOK
<1>3. CASE /\ plan # {} /\ Goto(c, "async", i)
           /\ asyncInit' = [asyncInit EXCEPT ![i] = "running"]
           /\ stage' = st /\ buildingPlan' = plan
           /\ UNCHANGED <<failVars, activePlan, activationScope>>
  <2>1. initCall' \in [InitCalls -> InitCallRecord] BY <1>3, <1>i, GotoType DEF InitPc
  <2> QED BY <1>3, <2>1 DEF cancelVars, RuntimeTypeOK
<1>4. CASE /\ plan # {} /\ BeginActivation(g)
           /\ Goto(c, "actHook", First(plan))
           /\ stage' = st /\ buildingPlan' = plan /\ activationScope' = g
           /\ UNCHANGED <<settlement, installers, cancelVars, activePlan,
                          asyncInit>>
  <2>1. initCall' \in [InitCalls -> InitCallRecord] BY <1>4, <1>f, GotoType DEF InitPc
  <2>2. RuntimeTypeOK' BY <1>4, <1>g, RuntimeStepType
  <2> QED BY <1>4, <1>g, <2>1, <2>2 DEF cancelVars
<1>5. CASE /\ ActivateNothing(g)
           /\ initCall' = [Woken EXCEPT ![c].pc = "emit"]
           /\ stage' = st /\ activePlan' = plan /\ buildingPlan' = {}
           /\ UNCHANGED <<settlement, installers, cancelVars, asyncInit,
                          activationScope>>
  <2>1. initCall' \in [InitCalls -> InitCallRecord]
    BY <1>5, WokenType DEF InitCallRecord, InitPc
  <2>2. RuntimeTypeOK' BY <1>5, <1>g, RuntimeStepType
  <2> QED BY <1>5, <2>1, <2>2 DEF cancelVars
<1> QED BY <1>1, <1>2, <1>3, <1>4, <1>5 DEF Proceed, g, i

\* ActivationOutcome(c) and QuiesceOutcome
LEMMA ActivatedType ==
  ASSUME TypeOK, NEW c \in InitCalls, Activated(c), UNCHANGED registry
  PROVE  /\ RuntimeTypeOK' /\ SettlementTypeOK' /\ ModuleTypeOK'
         /\ UNCHANGED cancelVars
         /\ initCall' \in [InitCalls -> InitCallRecord]
         /\ activationScope' \in Nat
<1> DEFINE st == [stage EXCEPT ![initCall[c].at] = 4]
           rest == {i \in buildingPlan : st[i] < 4}
<1>1. st \in [Instances -> 0..4]
  <2>1. stage \in [Instances -> 0..4] BY DEF TypeOK, ModuleTypeOK
  <2> QED BY <2>1, SetStageType
<1>2. rest \in SUBSET Instances BY DEF TypeOK, ModuleTypeOK
<1> HIDE DEF rest
<1>3. stage' = st /\ initCall[c].gen \in Nat
  BY DEF Activated, TypeOK, CallTypeOK, InitCallRecord
<1>4. CASE /\ rest # {} /\ Goto(c, "actHook", First(rest))
           /\ UNCHANGED <<failVars, activePlan, buildingPlan, activationScope>>
  <2>1. initCall' \in [InitCalls -> InitCallRecord]
    BY <1>2, <1>4, FirstInPlan, GotoType DEF InitPc, TypeOK
  <2> QED
    BY <1>1, <1>3, <1>4, <2>1 DEF TypeOK, ModuleTypeOK, AsyncTypeOK, SettlementTypeOK,
       RuntimeTypeOK, cancelVars
<1>5. CASE /\ FinishActivation(initCall[c].gen)
           /\ initCall' = [Woken EXCEPT ![c].pc = "emit"]
           /\ activePlan' = buildingPlan /\ buildingPlan' = {}
           /\ activationScope' = 0
           /\ UNCHANGED <<settlement, installers, cancelVars>>
  <2>1. initCall' \in [InitCalls -> InitCallRecord]
    BY <1>5, WokenType DEF InitCallRecord, InitPc, TypeOK
  <2>2. RuntimeTypeOK' BY <1>3, <1>5, RuntimeStepType DEF TypeOK
  <2> QED
    BY <1>1, <1>3, <1>5, <2>1, <2>2
       DEF TypeOK, ModuleTypeOK, SettlementTypeOK
<1> QED BY <1>4, <1>5 DEF Activated, rest

LEMMA ActivationOutcomeType ==
  ASSUME TypeOK, NEW c \in InitCalls, ActivationOutcome(c)
  PROVE  /\ RuntimeTypeOK' /\ SettlementTypeOK' /\ ModuleTypeOK'
         /\ asyncCancelled' \subseteq Instances /\ cancelledScopes' \subseteq Nat
         /\ initCall' \in [InitCalls -> InitCallRecord]
         /\ activationScope' \in Nat
<1>g. initCall[c].gen \in Nat BY DEF TypeOK, CallTypeOK, InitCallRecord
<1>1. CASE CancelMemberScope(c)
  <2> USE <1>1 DEF CancelMemberScope
  <2>1. initCall' \in [InitCalls -> InitCallRecord] BY ReturnType DEF TypeOK
  <2>2. CASE Fail(initCall[c].gen)
    BY <1>g, <2>1, <2>2, FailType DEF TypeOK, ModuleTypeOK, AsyncTypeOK
  <2>3. CASE /\ cancelledScopes' =
                  cancelledScopes \cup ({activationScope} \ {0})
             /\ UNCHANGED <<runtimeVars, settlement, installers,
                            asyncCancelled>>
    BY <2>1, <2>3 DEF TypeOK, ModuleTypeOK, AsyncTypeOK, SettlementTypeOK, RuntimeTypeOK
  <2> QED BY <2>2, <2>3
<1>2. CASE FailStep(c)
  BY <1>g, <1>2, FailType, ReturnType DEF FailStep, TypeOK, ModuleTypeOK, AsyncTypeOK
<1>3. CASE Activated(c) /\ UNCHANGED registry
  BY <1>3, ActivatedType DEF TypeOK, AsyncTypeOK, cancelVars
<1> QED BY <1>1, <1>2, <1>3 DEF ActivationOutcome

LEMMA EndQuiesceType ==
  ASSUME TypeOK, NEW v \in Verdict,
         NEW finished \in SUBSET Instances, NEW unfinished \in SUBSET Instances,
         EndQuiesce(v, finished, unfinished)
  PROVE  /\ RuntimeTypeOK' /\ DisposalTypeOK'
         /\ asyncCancelled' \subseteq Instances /\ cancelledScopes' \subseteq Nat
         /\ shutdown' \in ShutdownRecord \cup {NoShutdown}
BY StartDisposalType DEF EndQuiesce

LEMMA QuiesceNextType ==
  ASSUME TypeOK, shutdown \in ShutdownRecord,
         NEW finished \in SUBSET Instances, NEW unfinished \in SUBSET Instances,
         QuiesceNext(finished, unfinished)
  PROVE  /\ RuntimeTypeOK' /\ DisposalTypeOK'
         /\ asyncCancelled' \subseteq Instances /\ cancelledScopes' \subseteq Nat
         /\ shutdown' \in ShutdownRecord \cup {NoShutdown}
<1> DEFINE rest == shutdown.todo
<1>0. rest \in SUBSET Instances BY DEF ShutdownRecord
<1> HIDE DEF rest
<1>1. CASE /\ rest # {}
           /\ shutdown' = [pc |-> "hook", at |-> Last(rest),
                           todo |-> rest \ {Last(rest)},
                           finished |-> finished, unfinished |-> unfinished]
           /\ UNCHANGED <<runtimeVars, cancelVars, disposal>>
  <2>1. Last(rest) \in Instances BY <1>0, <1>1, LastInPlan
  <2> QED
    BY <1>0, <1>1, <2>1 DEF ShutdownRecord, TypeOK, RuntimeTypeOK, AsyncTypeOK,
       ClosingTypeOK, DisposalTypeOK, cancelVars
<1>2. CASE \E v \in {"succeeded", "failed", "timed_out"} :
             \E u \in SUBSET Instances : EndQuiesce(v, finished, u)
  BY <1>2, EndQuiesceType DEF Verdict
<1> QED
  <2>1. unfinished \cup rest \in SUBSET Instances BY <1>0
  <2> QED BY <1>1, <1>2, <2>1 DEF QuiesceNext, rest

LEMMA QuiesceOutcomeType ==
  ASSUME TypeOK, shutdown.pc # "none", QuiesceOutcome
  PROVE  /\ RuntimeTypeOK' /\ DisposalTypeOK'
         /\ asyncCancelled' \subseteq Instances /\ cancelledScopes' \subseteq Nat
         /\ shutdown' \in ShutdownRecord \cup {NoShutdown}
<1>0. shutdown \in ShutdownRecord BY DEF TypeOK, ClosingTypeOK, NoShutdown
<1>s. /\ shutdown.finished \in SUBSET Instances
      /\ shutdown.unfinished \in SUBSET Instances
      /\ shutdown.todo \in SUBSET Instances /\ shutdown.at \in Instances
  BY <1>0 DEF ShutdownRecord
<1>1. CASE /\ shutdown' = NoShutdown
           /\ UNCHANGED <<runtimeVars, cancelVars, disposal>>
  BY <1>1 DEF TypeOK, RuntimeTypeOK, AsyncTypeOK, ClosingTypeOK, DisposalTypeOK, cancelVars
<1>2. CASE \E v \in {"cancelled", "timed_out"} :
             EndQuiesce(v, shutdown.finished,
               shutdown.unfinished \cup {shutdown.at} \cup shutdown.todo)
  <2>1. shutdown.unfinished \cup {shutdown.at} \cup shutdown.todo
          \in SUBSET Instances
    BY <1>s
  <2> QED BY <1>2, <1>s, <2>1, EndQuiesceType DEF Verdict
<1>3. CASE QuiesceNext(shutdown.finished \cup {shutdown.at},
                       shutdown.unfinished)
  <2>1. shutdown.finished \cup {shutdown.at} \in SUBSET Instances BY <1>s
  <2> QED BY <1>0, <1>3, <1>s, <2>1, QuiesceNextType
<1>4. CASE QuiesceNext(shutdown.finished,
                       shutdown.unfinished \cup {shutdown.at})
  <2>1. shutdown.unfinished \cup {shutdown.at} \in SUBSET Instances BY <1>s
  <2> QED BY <1>0, <1>4, <1>s, <2>1, QuiesceNextType
<1> QED BY <1>1, <1>2, <1>3, <1>4 DEF QuiesceOutcome

\* The end of a replacement
LEMMA ReplaceSettleType ==
  ASSUME TypeOK, NEW t \in TransactionIds, NEW commits,
         registration[t].pc # "none", ReplaceSettle(t, commits)
  PROVE  /\ RuntimeTypeOK' /\ OwnerTypeOK'
         /\ registry' \in [Keys -> Instances \cup {NoOne}]
         /\ stage' \in [Instances -> 0..4]
<1> DEFINE i == registration[t].at
<1>1. i \in Instances BY DEF TypeOK, OwnerTypeOK, RegistrationRecord, NoRegistration
<1> HIDE DEF i
<1>2. RuntimeTypeOK' BY TransactionType DEF ReplaceSettle, TypeOK
<1>3. /\ registry' \in [Keys -> Instances \cup {NoOne}]
      /\ stage' \in [Instances -> 0..4]
      /\ taken' \subseteq Instances
  BY <1>1 DEF ReplaceSettle, Commit, TypeOK, ModuleTypeOK, OwnerTypeOK, i
<1>4. claims' \subseteq Instances /\ disposed' \in [Instances -> Nat]
  BY <1>1 DEF ReplaceSettle, DisposeOnce, sessionVars, TypeOK, OwnerTypeOK, i
<1>5. registration' \in [TransactionIds -> RegistrationRecord
                                             \cup {NoRegistration}]
  BY DEF ReplaceSettle, TypeOK, OwnerTypeOK
<1> QED BY <1>2, <1>3, <1>4, <1>5 DEF OwnerTypeOK

\* A driver that gives up
LEMMA GiveUpType ==
  ASSUME TypeOK, NEW c \in InitCalls, GiveUp(c), UNCHANGED <<cancelledTokens, initFrame>>
  PROVE  TypeOK'
<1>1. initCall' \in [InitCalls -> InitCallRecord] BY ReturnType DEF GiveUp, TypeOK
<1>2. UNCHANGED <<failVars, moduleVars, asyncVars, activationScope, cancelledTokens, initFrame>>
  BY DEF GiveUp
<1>3. RuntimeTypeOK' /\ SettlementTypeOK'
  BY <1>2 DEF TypeOK, RuntimeTypeOK, SettlementTypeOK, cancelVars
<1>4. ModuleTypeOK' /\ AsyncTypeOK' /\ OwnerTypeOK' /\ ClosingTypeOK'
  BY <1>2 DEF TypeOK, ModuleTypeOK, AsyncTypeOK, OwnerTypeOK, ClosingTypeOK, asyncVars,
     cancelVars, initFrame, closeVars, sessionVars, ownerVars
<1>5. CallTypeOK'
  BY <1>1, <1>2 DEF TypeOK, CallTypeOK, initFrame, sessionVars, ownerVars, closeVars
<1> QED BY <1>3, <1>4, <1>5 DEF TypeOK

\* Every action keeps the types.
LEMMA TypeStep ==
  ASSUME TypeInv, [Next]_vars
  PROVE  TypeOK'
<1> USE DEF TypeInv, DriverInv, TypeOK, ModuleTypeOK, OwnerTypeOK,
            AsyncTypeOK,
            CallTypeOK, SettlementTypeOK, ClosingTypeOK, RuntimeTypeOK,
            vars, failVars, runtimeVars, cancelVars, moduleVars, asyncVars,
            sessionVars, ownerVars, closeVars, initFrame
<1>1. CASE BeginProjectInstallers BY <1>1, RuntimeStepType DEF BeginProjectInstallers
<1>2. CASE MarkProjectInstallersApplied BY <1>2 DEF MarkProjectInstallersApplied
<1>3. ASSUME NEW t \in TransactionIds, NEW i \in Instances, RegisterBegin(t, i)
      PROVE  TypeOK'
  BY <1>3, TransactionType DEF RegisterBegin, RegistrationRecord
<1>4. ASSUME NEW t \in TransactionIds, NEW i \in Instances, ReplaceBegin(t, i)
      PROVE  TypeOK'
  BY <1>4, TransactionType, InstancesAssumption DEF ReplaceBegin, RegistrationRecord
<1>5. ASSUME NEW k \in Keys, UnregisterInactive(k)
      PROVE  TypeOK'
  BY <1>5 DEF UnregisterInactive, DisposeOnce
<1>6. ASSUME NEW c \in InitCalls, InitCall(c)
      PROVE  TypeOK'
  <2>1. CASE \E r \in BOOLEAN : Return(c, r) /\ UNCHANGED failVars
    BY <1>6, <2>1, ReturnType DEF InitCall
  <2>2. CASE /\ \E pc \in {"false", "joined"} : initCall' =
                  [initCall EXCEPT ![c] =
                    [pc |-> pc, gen |-> generation, at |-> NoOne]]
             /\ UNCHANGED failVars
    BY <1>6, <2>2 DEF InitCall, InitCallRecord, InitPc
  <2>3. CASE BeginAndFailInitialization /\ StartSettlement /\ Return(c, FALSE)
    BY <1>6, <2>3, RuntimeStepType, StartSettlementType, ReturnType
       DEF InitCall
  <2>4. CASE /\ BeginInitialization \/ RestartAfterFailure
             /\ initCall' = [initCall EXCEPT ![c] =
                  [pc |-> "onInit", gen |-> generation + 1, at |-> NoOne]]
             /\ UNCHANGED <<settlement, installers, cancelVars>>
    <3>1. RuntimeTypeOK' BY <2>4, RuntimeStepType
    <3>2. initCall' \in [InitCalls -> InitCallRecord] BY <2>4 DEF InitCallRecord, InitPc
    <3> QED BY <1>6, <2>4, <3>1, <3>2 DEF InitCall
  <2> QED BY <1>6, <2>1, <2>2, <2>3, <2>4 DEF InitCall
<1>7. ASSUME NEW c \in InitCalls, CancelToken(c)
      PROVE  TypeOK'
  <2>1. cancelledTokens' \subseteq InitCalls BY <1>7 DEF CancelToken
  <2>2. initCall' \in [InitCalls -> InitCallRecord] BY <1>7, ReturnType DEF CancelToken
  <2>3. UNCHANGED <<failVars, moduleVars, asyncVars, activationScope, initFrame>>
    BY <1>7 DEF CancelToken
  <2> QED
    BY <2>1, <2>2, <2>3 DEF cancelVars, asyncVars, initFrame, closeVars, sessionVars,
       ownerVars
<1>8. ASSUME NEW i \in Instances, AsyncReturn(i)
      PROVE  TypeOK'
  BY <1>8 DEF AsyncReturn
<1>9. ASSUME NEW i \in Instances, AsyncSelfCancel(i)
      PROVE  TypeOK'
  BY <1>9 DEF AsyncSelfCancel
<1>10. CASE PublicFail BY <1>10, FailType DEF PublicFail
<1>11. ASSUME NEW s \in ShutdownCalls, ShutdownCall(s)
      PROVE  TypeOK'
  <2> USE DEF shutdownFrame, ClaimCompletion, Waits, DisposalTypeOK
  <2>s. /\ shutdownCall' \in [ShutdownCalls ->
              {"idle", "waiting", "already_disposed"} \cup Verdict]
        /\ completion' \in {"none", "pending", "done"}
    BY <1>11 DEF ShutdownCall
  <2>1. CASE UNCHANGED <<runtimeVars, cancelVars, disposal, completion,
                         shutdown>>
    BY <1>11, <2>1, <2>s DEF ShutdownCall
  <2>2. CASE /\ \E v \in Verdict, u \in SUBSET Instances :
                  StartDisposal(v, {}, u)
             /\ UNCHANGED shutdown
    BY <1>11, <2>2, <2>s, StartDisposalType DEF ShutdownCall
  <2>3. CASE /\ activePlan # {} /\ BeginQuiesce
             /\ shutdown' = [NoShutdown EXCEPT
                  !.pc = "hook", !.at = Last(activePlan),
                  !.todo = activePlan \ {Last(activePlan)}]
             /\ UNCHANGED <<cancelVars, disposal>>
    <3>1. Last(activePlan) \in Instances BY <2>3, LastInPlan
    <3>2. shutdown' \in ShutdownRecord BY <2>3, <3>1 DEF NoShutdown, ShutdownRecord
    <3>3. RuntimeTypeOK' BY <2>3, RuntimeStepType
    <3> QED BY <1>11, <2>3, <2>s, <3>2, <3>3 DEF ShutdownCall
  <2> QED
    <3>1. EarlyVerdict \subseteq Verdict /\ {"forced", "succeeded"} \subseteq Verdict
      BY DEF EarlyVerdict, Verdict
    <3> QED BY <1>11, <2>1, <2>2, <2>3, <3>1, CleanupSetType DEF ShutdownCall
<1>12. CASE CancelShutdownToken BY <1>12 DEF CancelShutdownToken
<1>13. CASE DisposeCall
  <2>1. StartDisposal("forced", {}, ForcedUnfinished) BY <1>13 DEF DisposeCall
  <2>2. RuntimeTypeOK' /\ DisposalTypeOK'
        /\ asyncCancelled' \subseteq Instances /\ cancelledScopes' \subseteq Nat
    <3>1. ForcedUnfinished \in SUBSET Instances /\ "forced" \in Verdict
      BY CleanupSetType DEF Verdict
    <3> QED BY <2>1, <3>1, StartDisposalType
  <2> QED BY <1>13, <2>2 DEF DisposeCall, ClaimCompletion, DisposalTypeOK
<1>14. ASSUME NEW c \in InitCalls, OnInitReturn(c)
      PROVE  TypeOK'
  <2>1. CASE Return(c, FALSE)
             /\ UNCHANGED <<failVars, moduleVars, asyncVars, activationScope>>
    BY <1>14, <2>1, ReturnType DEF OnInitReturn
  <2>2. CASE FailStep(c) /\ UNCHANGED asyncVars
    <3>1. Fail(initCall[c].gen) /\ Return(c, FALSE) BY <2>2 DEF FailStep
    <3>2. initCall[c].gen \in Nat BY DEF InitCallRecord
    <3>3. /\ RuntimeTypeOK' /\ SettlementTypeOK'
          /\ asyncCancelled' \subseteq Instances /\ cancelledScopes' \subseteq Nat
      BY <3>1, <3>2, FailType
    <3>4. initCall' \in [InitCalls -> InitCallRecord] BY <3>1, ReturnType
    <3>5. UNCHANGED <<moduleVars, activationScope, asyncVars, cancelledTokens,
                      initFrame>>
      BY <1>14, <2>2 DEF OnInitReturn, FailStep
    <3> QED BY <3>3, <3>4, <3>5 DEF asyncVars, initFrame, closeVars, sessionVars, ownerVars
  <2>3. CASE Proceed(c, Registered, stage)
             /\ UNCHANGED <<registry, staleBlocks>>
    <3>1. Registered \in SUBSET Instances BY DEF Registered
    <3> QED BY <1>14, <2>3, <3>1, ProceedType DEF OnInitReturn
  <2> QED BY <1>14, <2>1, <2>2, <2>3 DEF OnInitReturn
<1>15. ASSUME NEW c \in InitCalls, HookReturn(c)
      PROVE  TypeOK'
  <2>1. CASE GiveUp(c)
    <3>1. UNCHANGED <<cancelledTokens, initFrame>> BY <1>15 DEF HookReturn
    <3> QED BY <2>1, <3>1, GiveUpType
  <2> DEFINE st == [stage EXCEPT ![initCall[c].at] = @ + 1]
  <2>2. CASE /\ ~Stale(c) /\ state # "FAILED"
             /\ Proceed(c, buildingPlan, st)
             /\ UNCHANGED <<registry, staleBlocks>>
    <3>0. stage[initCall[c].at] + 1 \in 0..4 BY <1>15, <2>2 DEF HookReturn, HookStage
    <3>1. st \in [Instances -> 0..4] BY <3>0, SetStageType
    <3> HIDE DEF st
    <3> QED BY <1>15, <2>2, <3>1, ProceedType DEF HookReturn
  <2> QED BY <1>15, <2>1, <2>2 DEF HookReturn
<1>16. ASSUME NEW c \in InitCalls, AsyncStep(c)
      PROVE  TypeOK'
  <2> DEFINE i == initCall[c].at
  <2>1. CASE GiveUp(c)
    <3>1. UNCHANGED <<cancelledTokens, initFrame>> BY <1>16 DEF AsyncStep
    <3> QED BY <2>1, <3>1, GiveUpType
  <2>2. CASE Proceed(c, buildingPlan, [stage EXCEPT ![i] = 2])
             /\ UNCHANGED <<registry, staleBlocks>>
    <3>1. [stage EXCEPT ![i] = 2] \in [Instances -> 0..4] BY SetStageType
    <3> QED BY <1>16, <2>2, <3>1, ProceedType DEF AsyncStep
  <2>3. CASE FailStep(c) /\ UNCHANGED asyncVars
    BY <1>16, <2>3, FailType, ReturnType DEF AsyncStep, FailStep,
       InitCallRecord
  <2>4. CASE /\ asyncInit' = [asyncInit EXCEPT ![i] = "blocked"]
             /\ staleBlocks' = staleBlocks + 1
             /\ FailStep(c)
    <3>a. asyncInit' \in
             [Instances -> {"none", "running", "blocked", "returned"}]
      BY <2>4, Zenon
    <3>1. staleBlocks' \in Nat BY <2>4
    <3>2. initCall[c].gen \in Nat BY DEF InitCallRecord
    <3> QED
      BY <1>16, <2>4, <3>a, <3>1, <3>2, FailType, ReturnType
         DEF AsyncStep, FailStep
  <2> QED BY <1>16, <2>1, <2>2, <2>3, <2>4 DEF AsyncStep
<1>17. ASSUME NEW c \in InitCalls, ActHookReturn(c)
      PROVE  TypeOK'
  <2>1. CASE FailStep(c)
    BY <1>17, <2>1, FailType, ReturnType DEF ActHookReturn, FailStep,
       InitCallRecord
  <2>2. CASE ActivationOutcome(c) BY <1>17, <2>2, ActivationOutcomeType DEF ActHookReturn
  <2>3. CASE Goto(c, "actWait", initCall[c].at)
             /\ UNCHANGED <<failVars, moduleVars, activationScope>>
    <3>1. /\ initCall[c] \in InitCallRecord
          /\ "actWait" \in InitPc
      BY DEF InitPc
    <3>2. [initCall[c] EXCEPT !.pc = "actWait"] \in InitCallRecord BY <3>1 DEF InitCallRecord
    <3>3. initCall' = [initCall EXCEPT
                         ![c] = [initCall[c] EXCEPT !.pc = "actWait"]]
      BY <2>3 DEF Goto, InitCallRecord
    <3> QED BY <1>17, <2>3, <3>2, <3>3 DEF ActHookReturn
  <2> QED BY <1>17, <2>1, <2>2, <2>3 DEF ActHookReturn
<1>18. ASSUME NEW c \in InitCalls, ActPoll(c)
      PROVE  TypeOK'
  BY <1>18, ActivationOutcomeType DEF ActPoll
<1>19. ASSUME NEW c \in InitCalls, EmitReturn(c)
      PROVE  TypeOK'
  BY <1>19, ReturnType DEF EmitReturn
<1>20. ASSUME NEW c \in InitCalls, JoinResolve(c)
      PROVE  TypeOK'
  BY <1>20, ReturnType DEF JoinResolve
<1>21. ASSUME NEW t \in TransactionIds, RegisterEnd(t)
      PROVE  TypeOK'
  <2> DEFINE i == registration[t].at
  <2>0. registration[t].pc = "register" BY <1>21 DEF RegisterEnd
  <2>1. i \in Instances BY <2>0 DEF RegistrationRecord, NoRegistration
  <2>2. RuntimeTypeOK' BY <1>21, TransactionType DEF RegisterEnd
  <2>3. registration' \in [TransactionIds -> RegistrationRecord
                                               \cup {NoRegistration}]
    BY <1>21 DEF RegisterEnd
  <2> HIDE DEF i
  <2>4. /\ registry' \in [Keys -> Instances \cup {NoOne}]
        /\ stage' \in [Instances -> 0..4]
        /\ taken' \subseteq Instances
    BY <1>21, <2>1 DEF RegisterEnd, Commit, i
  <2>5. claims' \subseteq Instances /\ disposed' \in [Instances -> Nat]
    BY <1>21, <2>1 DEF RegisterEnd, EndSession, i
  <2> QED BY <1>21, <2>2, <2>3, <2>4, <2>5 DEF RegisterEnd
<1>22. ASSUME NEW t \in TransactionIds, ReplaceEnd(t)
      PROVE  TypeOK'
  <2>0. registration[t].pc = "replace" BY <1>22 DEF ReplaceEnd
  <2>1. CASE \E b \in BOOLEAN : ReplaceSettle(t, b)
    BY <1>22, <2>0, <2>1, ReplaceSettleType DEF ReplaceEnd, replaceFrame
  <2>2. CASE /\ registration[t].previous # NoOne
             /\ registry' = [registry EXCEPT ![KeyOf[registration[t].at]]
                                                = NoOne]
             /\ stage' = [stage EXCEPT ![registration[t].previous] = 0]
             /\ DisposeOnce(registration[t].previous)
             /\ registration' = [registration EXCEPT ![t].pc = "removing"]
             /\ UNCHANGED <<runtimeVars, taken>>
    <3>1. /\ registration[t] \in RegistrationRecord
          /\ registration[t].previous \in Instances
      BY <2>0, <2>2 DEF RegistrationRecord, NoRegistration
    <3>2. [registration[t] EXCEPT !.pc = "removing"] \in RegistrationRecord
      BY <3>1 DEF RegistrationRecord
    <3>3. registration' \in [TransactionIds -> RegistrationRecord
                                                 \cup {NoRegistration}]
      BY <2>2, <3>2
    <3>4. claims' \subseteq Instances /\ disposed' \in [Instances -> Nat]
      BY <2>2, <3>1 DEF DisposeOnce
    <3>a. registry' \in [Keys -> Instances \cup {NoOne}] BY <2>2, Zenon
    <3>5. stage' \in [Instances -> 0..4] BY <2>2, <3>1
    <3>6. UNCHANGED replaceFrame BY <1>22 DEF ReplaceEnd
    <3> QED BY <2>2, <3>a, <3>3, <3>4, <3>5, <3>6 DEF replaceFrame
  <2> QED BY <1>22, <2>1, <2>2 DEF ReplaceEnd
<1>23. ASSUME NEW t \in TransactionIds, ReplaceCommit(t)
      PROVE  TypeOK'
  <2>0. registration[t].pc # "none" BY <1>23 DEF ReplaceCommit
  <2>1. /\ RuntimeTypeOK' /\ OwnerTypeOK'
        /\ registry' \in [Keys -> Instances \cup {NoOne}]
        /\ stage' \in [Instances -> 0..4]
    BY <1>23, <2>0, ReplaceSettleType DEF ReplaceCommit
  <2>2. UNCHANGED replaceFrame BY <1>23 DEF ReplaceCommit
  <2> QED BY <2>1, <2>2 DEF replaceFrame
<1>24. ASSUME NEW i \in Instances, SettleDispose(i)
      PROVE  TypeOK'
  BY <1>24 DEF SettleDispose, DisposeOnce
<1>25. ASSUME NEW i \in Instances, DisposeModule(i)
      PROVE  TypeOK'
  BY <1>25 DEF DisposeModule, DisposeOnce
<1>26. CASE SettleClear BY <1>26, WokenType DEF SettleClear, Cleared, EndSession
<1>27. CASE SettleEnd BY <1>27 DEF SettleEnd
<1>28. CASE FinishDisposal
  <2>1. RuntimeTypeOK' BY <1>28, RuntimeStepType DEF FinishDisposal
  <2>2. disposal' = NoDisposal /\ disposal.verdict \in Verdict BY <1>28 DEF FinishDisposal
  <2>3. initCall' \in [InitCalls -> InitCallRecord] BY <1>28, WokenType DEF FinishDisposal
  <2>4. DisposalTypeOK' BY <2>2 DEF DisposalTypeOK, NoDisposal, Verdict
  <2> QED
    BY <1>28, <2>1, <2>2, <2>3, <2>4
       DEF FinishDisposal, Cleared, EndSession, DisposalTypeOK
<1>29. CASE QuiesceHookReturn
  <2>0. shutdown.pc # "none" BY <1>29 DEF QuiesceHookReturn
  <2>1. CASE QuiesceOutcome
    BY <1>29, <2>0, <2>1, QuiesceOutcomeType DEF QuiesceHookReturn, quiesceFrame,
       DisposalTypeOK
  <2>2. CASE shutdown' = [shutdown EXCEPT !.pc = "wait"]
             /\ UNCHANGED <<runtimeVars, cancelVars, disposal>>
    <3>1. shutdown' \in ShutdownRecord BY <2>0, <2>2 DEF ShutdownRecord, NoShutdown
    <3> QED BY <1>29, <2>2, <3>1 DEF QuiesceHookReturn, quiesceFrame
  <2> QED BY <1>29, <2>1, <2>2 DEF QuiesceHookReturn
<1>30. CASE QuiescePoll
  <2>0. shutdown.pc # "none" BY <1>30 DEF QuiescePoll
  <2> QED BY <1>30, <2>0, QuiesceOutcomeType DEF QuiescePoll, quiesceFrame, DisposalTypeOK
<1>31. ASSUME NEW s \in ShutdownCalls, ShutdownResolve(s)
      PROVE  TypeOK'
  <2>1. lastResult \in Verdict BY <1>31 DEF ShutdownResolve, Answered
  <2> QED BY <1>31, <2>1 DEF ShutdownResolve
<1>32. CASE UNCHANGED vars
  <2>1. RuntimeTypeOK' /\ ModuleTypeOK' /\ OwnerTypeOK' BY <1>32
  <2>2. AsyncTypeOK' /\ CallTypeOK' /\ SettlementTypeOK' BY <1>32
  <2>3. ClosingTypeOK' BY <1>32
  <2> QED BY <2>1, <2>2, <2>3
<1> QED
  BY <1>1, <1>2, <1>3, <1>4, <1>5, <1>6, <1>7, <1>8, <1>9, <1>10, <1>11, <1>12, <1>13, <1>14, <1>15, <1>16, <1>17, <1>18, <1>19, <1>20, <1>21, <1>22, <1>23, <1>24, <1>25, <1>26, <1>27, <1>28, <1>29, <1>30, <1>31, <1>32 DEF Next, Operation, CallStep, RegistrationStep, CleanupStep, QuiesceStep

\* The driver invariant.  A step that moves no driver keeps it when it either
\* begins a generation or leaves the state and the stages to the driver...
LEMMA NoDriverMoves ==
  ASSUME TypeOK, TypeOK', DriverInv,
         \A c \in InitCalls : initCall'[c] = initCall[c] \/ ~Driving(c)',
         \/ generation' > generation
         \/ /\ generation' = generation
            /\ state' = state \/ state \notin {"INITIALIZING", "ACTIVATING"}
            /\ stage' = stage \/ state # "INITIALIZING"
  PROVE  DriverInv'
<1> USE DEF Driving, InStages, InActivation, Stale
<1>t. /\ generation \in Nat /\ generation' \in Nat
      /\ \A c \in InitCalls : initCall[c].gen \in Nat
  BY DEF TypeOK, RuntimeTypeOK, CallTypeOK, InitCallRecord
<1>1. OneDriver' BY <1>t DEF DriverInv, OneDriver
<1>2. DriverState' BY <1>t DEF DriverInv, DriverState, OneDriver
<1>3. HookStage' BY <1>t DEF DriverInv, DriverState, HookStage, OneDriver
<1> QED BY <1>1, <1>2, <1>3 DEF DriverInv

\* ...and so does a step of the driver of this generation to a place that fits
\* the state and the stages.
LEMMA DriverMoves ==
  ASSUME TypeOK, TypeOK', DriverInv, NEW c \in InitCalls,
         Driving(c), ~Stale(c), generation' = generation,
         \A d \in InitCalls \ {c} : initCall'[d] = initCall[d] \/ ~Driving(d)',
         initCall'[c].gen = initCall[c].gen,
         initCall'[c].pc \in InStages => state' = "INITIALIZING",
         initCall'[c].pc \in InActivation => state' = "ACTIVATING",
         initCall'[c].pc = "hook" => stage'[initCall'[c].at] \in {0, 2}
  PROVE  DriverInv'
<1> USE DEF Driving, InStages, InActivation, Stale
<1>1. OneDriver' BY DEF DriverInv, OneDriver
<1>2. \A d \in InitCalls \ {c} : Driving(d)' => Stale(d)' BY DEF DriverInv, OneDriver
<1>3. DriverState' BY <1>2 DEF DriverState
<1>4. HookStage' BY <1>2 DEF HookStage
<1> QED BY <1>1, <1>3, <1>4 DEF DriverInv

LEMMA ReturnMoves ==
  ASSUME CallTypeOK, NEW c \in InitCalls, NEW r, Return(c, r)
  PROVE  \A d \in InitCalls : initCall'[d] = initCall[d] \/ ~Driving(d)'
BY DEF CallTypeOK, Return, Returned, Driving, InStages, InActivation

LEMMA WokenMoves ==
  ASSUME CallTypeOK
  PROVE  \A d \in InitCalls :
           /\ Woken[d].gen = initCall[d].gen /\ Woken[d].at = initCall[d].at
           /\ Woken[d] = initCall[d] \/ Woken[d].pc = "woken"
BY DEF CallTypeOK, Woken, InitCallRecord

LEMMA FailMoves ==
  ASSUME TypeOK, NEW g, Fail(g)
  PROVE  \/ generation' = generation + 1 /\ CanFail(g)
         \/ UNCHANGED <<state, generation>> /\ ~CanFail(g)
BY DEF Fail, FailInitialization

LEMMA GotoMoves ==
  ASSUME CallTypeOK, NEW c \in InitCalls, NEW pc, NEW i, Goto(c, pc, i)
  PROVE  /\ \A d \in InitCalls \ {c} : initCall'[d] = initCall[d]
         /\ initCall'[c].gen = initCall[c].gen
         /\ initCall'[c].pc = pc /\ initCall'[c].at = i
BY DEF CallTypeOK, Goto, InitCallRecord

LEMMA ProceedDriver ==
  ASSUME TypeOK, TypeOK', DriverInv, NEW c \in InitCalls,
         Driving(c), ~Stale(c), state = "INITIALIZING",
         NEW plan, NEW st, Proceed(c, plan, st)
  PROVE  DriverInv'
<1> DEFINE i == NextToAdvance(plan, st)
<1> HIDE DEF i
<1>t. generation \in Nat /\ initCall[c].gen = generation /\ CallTypeOK
  BY DEF TypeOK, RuntimeTypeOK, Stale
<1> USE DEF Driving, InStages, InActivation
<1>1. CASE Fail(initCall[c].gen) /\ Return(c, FALSE)
  <2>1. generation' > generation BY <1>t, <1>1, FailMoves DEF CanFail
  <2> QED BY <1>t, <1>1, <2>1, ReturnMoves, NoDriverMoves
<1>2. CASE /\ Goto(c, "hook", i) /\ stage' = st /\ st[i] \in {0, 2}
           /\ UNCHANGED <<state, generation>>
  BY <1>t, <1>2, GotoMoves, DriverMoves
<1>3. CASE Goto(c, "async", i) /\ UNCHANGED <<state, generation>>
  BY <1>t, <1>3, GotoMoves, DriverMoves
<1>4. CASE Goto(c, "actHook", First(plan)) /\ BeginActivation(initCall[c].gen)
  <2>1. state' = "ACTIVATING" /\ generation' = generation BY <1>4 DEF BeginActivation
  <2> QED BY <1>t, <1>4, <2>1, GotoMoves, DriverMoves
<1>5. CASE /\ initCall' = [Woken EXCEPT ![c].pc = "emit"]
           /\ ActivateNothing(initCall[c].gen)
  <2>1. state' = "READY" /\ generation' = generation BY <1>5 DEF ActivateNothing
  <2>2. /\ initCall'[c].gen = initCall[c].gen /\ initCall'[c].pc = "emit"
        /\ \A d \in InitCalls \ {c} : initCall'[d] = initCall[d] \/ ~Driving(d)'
    BY <1>t, <1>5, WokenMoves, WokenType DEF InitCallRecord
  <2> QED BY <1>t, <2>1, <2>2, DriverMoves
<1> QED BY <1>1, <1>2, <1>3, <1>4, <1>5 DEF Proceed, i

LEMMA GiveUpDriver ==
  ASSUME TypeOK, TypeOK', DriverInv, NEW c \in InitCalls, GiveUp(c)
  PROVE  DriverInv'
BY ReturnMoves, NoDriverMoves DEF GiveUp, TypeOK

LEMMA FailStepDriver ==
  ASSUME TypeOK, TypeOK', DriverInv, NEW c \in InitCalls, FailStep(c)
  PROVE  DriverInv'
<1>1. generation' > generation \/ UNCHANGED <<state, generation>>
  BY FailMoves DEF FailStep, TypeOK, RuntimeTypeOK
<1>2. UNCHANGED stage /\ Return(c, FALSE) /\ CallTypeOK BY DEF FailStep, TypeOK
<1> QED BY <1>1, <1>2, ReturnMoves, NoDriverMoves

LEMMA ActivationOutcomeDriver ==
  ASSUME TypeOK, TypeOK', DriverInv, NEW c \in InitCalls,
         initCall[c].pc \in InActivation, ActivationOutcome(c)
  PROVE  DriverInv'
<1>t. CallTypeOK /\ generation \in Nat BY DEF TypeOK, RuntimeTypeOK
<1> USE DEF Driving, InStages, InActivation
<1>1. CASE CancelMemberScope(c)
  <2>1. generation' > generation \/ UNCHANGED <<state, generation>>
    BY <1>t, <1>1, FailMoves DEF CancelMemberScope
  <2>2. UNCHANGED stage /\ Return(c, FALSE) BY <1>1 DEF CancelMemberScope
  <2> QED BY <1>t, <2>1, <2>2, ReturnMoves, NoDriverMoves
<1>2. CASE FailStep(c) BY <1>2, FailStepDriver
<1>3. CASE ~Stale(c) /\ Activated(c)
  <2>s. state = "ACTIVATING" /\ Driving(c) /\ initCall[c].gen = generation
    BY <1>3 DEF DriverInv, DriverState, Stale
  <2>1. CASE \E i : Goto(c, "actHook", i) /\ UNCHANGED <<state, generation>>
    BY <1>t, <1>3, <2>s, <2>1, GotoMoves, DriverMoves
  <2>2. CASE /\ initCall' = [Woken EXCEPT ![c].pc = "emit"]
             /\ FinishActivation(initCall[c].gen)
    <3>1. state' = "READY" /\ generation' = generation BY <2>2 DEF FinishActivation
    <3>2. /\ initCall'[c].gen = initCall[c].gen /\ initCall'[c].pc = "emit"
          /\ \A d \in InitCalls \ {c} :
               initCall'[d] = initCall[d] \/ ~Driving(d)'
      BY <1>t, <2>2, WokenMoves, WokenType DEF InitCallRecord
    <3> QED BY <1>3, <2>s, <3>1, <3>2, DriverMoves
  <2> QED BY <1>3, <2>1, <2>2 DEF Activated
<1> QED BY <1>1, <1>2, <1>3 DEF ActivationOutcome

LEMMA DriverStep ==
  ASSUME TypeInv, [Next]_vars
  PROVE  DriverInv'
<1>t. TypeOK' /\ DriverInv /\ generation \in Nat BY TypeStep DEF TypeOK, RuntimeTypeOK
<1>c. TypeOK /\ CallTypeOK BY DEF TypeOK
<1>q. ASSUME UNCHANGED <<initCall, generation>>,
             state' = state \/ state \notin {"INITIALIZING", "ACTIVATING"},
             stage' = stage \/ state # "INITIALIZING"
      PROVE  DriverInv'
  BY <1>t, <1>c, <1>q, NoDriverMoves
<1>n. ASSUME \A c \in InitCalls : initCall'[c] = initCall[c] \/ ~Driving(c)',
             generation' > generation
      PROVE  DriverInv'
  BY <1>t, <1>c, <1>n, NoDriverMoves
<1>o. ASSUME QuiesceOutcome \/ UNCHANGED runtimeVars,
             UNCHANGED <<initCall, stage>>
      PROVE  DriverInv'
  <2>1. generation' = generation + 1 \/ UNCHANGED <<state, generation>>
    BY <1>o DEF QuiesceOutcome, QuiesceNext, EndQuiesce, StartDisposal, BeginDispose
  <2> QED BY <1>o, <1>q, <1>n, <1>t, <2>1
<1> USE DEF vars, failVars, runtimeVars, moduleVars, initFrame
<1>1. CASE BeginProjectInstallers BY <1>1, <1>q DEF BeginProjectInstallers, ClearFailure
<1>2. CASE MarkProjectInstallersApplied BY <1>2, <1>q DEF MarkProjectInstallersApplied
<1>3. ASSUME NEW t \in TransactionIds, NEW i \in Instances, RegisterBegin(t, i)
      PROVE  DriverInv'
  BY <1>3, <1>q DEF RegisterBegin, BeginTransaction
<1>4. ASSUME NEW t \in TransactionIds, NEW i \in Instances, ReplaceBegin(t, i)
      PROVE  DriverInv'
  BY <1>4, <1>q DEF ReplaceBegin, BeginTransaction
<1>5. ASSUME NEW k \in Keys, UnregisterInactive(k)
      PROVE  DriverInv'
  BY <1>5, <1>q DEF UnregisterInactive, MayRegister, CanMutateRegistration
<1>6. ASSUME NEW c \in InitCalls, InitCall(c)
      PROVE  DriverInv'
  <2>1. CASE \E r : Return(c, r) /\ UNCHANGED <<state, generation, stage>>
    BY <1>t, <1>c, <2>1, ReturnMoves, NoDriverMoves
  <2>2. CASE \E pc \in {"false", "joined"} :
               /\ initCall' = [initCall EXCEPT ![c] =
                    [pc |-> pc, gen |-> generation, at |-> NoOne]]
               /\ UNCHANGED <<state, generation, stage>>
    <3>1. \A d \in InitCalls : initCall'[d] = initCall[d] \/ ~Driving(d)'
      BY <1>c, <2>2 DEF CallTypeOK, Driving, InStages, InActivation
    <3> QED BY <1>t, <1>c, <2>2, <3>1, NoDriverMoves
  <2>3. CASE BeginAndFailInitialization /\ Return(c, FALSE)
    <3>1. generation' > generation BY <1>t, <2>3 DEF BeginAndFailInitialization
    <3> QED BY <1>c, <1>n, <2>3, <3>1, ReturnMoves
  <2>4. CASE /\ BeginInitialization \/ RestartAfterFailure
             /\ initCall' = [initCall EXCEPT ![c] =
                  [pc |-> "onInit", gen |-> generation + 1, at |-> NoOne]]
    <3>1. generation' = generation + 1 /\ state' = "INITIALIZING"
      BY <2>4 DEF BeginInitialization, RestartAfterFailure
    <3>2. /\ \A d \in InitCalls \ {c} : initCall'[d] = initCall[d]
          /\ initCall'[c].gen = generation'
          /\ initCall'[c].pc = "onInit"
      BY <1>c, <2>4, <3>1 DEF CallTypeOK
    <3>3. \A d \in InitCalls \ {c} : Driving(d)' => Stale(d)'
      BY <1>t, <1>c, <3>1, <3>2
         DEF DriverInv, OneDriver, Driving, Stale, CallTypeOK, InitCallRecord
    <3>4. OneDriver'
      BY <1>t, <1>c, <3>1, <3>2, <3>3
         DEF DriverInv, OneDriver, Driving, Stale, CallTypeOK, InitCallRecord
    <3>5. DriverState'
      BY <3>1, <3>2, <3>3
         DEF DriverState, Driving, InStages, InActivation
    <3>6. HookStage' BY <3>2, <3>3 DEF HookStage, Driving, InStages
    <3> QED BY <3>4, <3>5, <3>6 DEF DriverInv
  <2> QED BY <1>6, <2>1, <2>2, <2>3, <2>4 DEF InitCall
<1>7. ASSUME NEW c \in InitCalls, CancelToken(c)
      PROVE  DriverInv'
  <2>1. \A d \in InitCalls : initCall'[d] = initCall[d] \/ ~Driving(d)'
    BY <1>7, <1>c, ReturnMoves DEF CancelToken
  <2> QED BY <1>7, <1>t, <1>c, <2>1, NoDriverMoves DEF CancelToken
<1>8. ASSUME NEW i \in Instances, AsyncReturn(i)
      PROVE  DriverInv'
  BY <1>8, <1>q DEF AsyncReturn
<1>9. ASSUME NEW i \in Instances, AsyncSelfCancel(i)
      PROVE  DriverInv'
  BY <1>9, <1>q DEF AsyncSelfCancel
<1>10. CASE PublicFail
  <2>1. generation' > generation BY <1>10, <1>t, <1>c, FailMoves DEF PublicFail
  <2> QED BY <1>10, <1>n, <2>1 DEF PublicFail
<1>11. ASSUME NEW s \in ShutdownCalls, ShutdownCall(s)
      PROVE  DriverInv'
  <2>1. CASE UNCHANGED <<state, generation>> BY <1>11, <1>q, <2>1 DEF ShutdownCall
  <2>2. CASE \E v, f, u : StartDisposal(v, f, u)
    <3>1. generation' > generation BY <1>t, <2>2 DEF StartDisposal, BeginDispose
    <3> QED BY <1>11, <1>n, <3>1 DEF ShutdownCall
  <2>3. CASE BeginQuiesce /\ state \in {"NEW", "READY", "FAILED"}
    BY <1>11, <1>q, <2>3 DEF ShutdownCall, BeginQuiesce
  <2> QED BY <1>11, <2>1, <2>2, <2>3 DEF ShutdownCall
<1>12. CASE CancelShutdownToken BY <1>12, <1>q DEF CancelShutdownToken
<1>13. CASE DisposeCall
  <2>1. generation' > generation BY <1>13, <1>t DEF DisposeCall, StartDisposal, BeginDispose
  <2> QED BY <1>13, <1>n, <2>1 DEF DisposeCall
<1>14. ASSUME NEW c \in InitCalls, OnInitReturn(c)
      PROVE  DriverInv'
  <2>1. CASE Return(c, FALSE) /\ UNCHANGED <<state, generation, stage>>
    BY <1>t, <1>c, <2>1, ReturnMoves, NoDriverMoves
  <2>2. CASE FailStep(c) BY <1>t, <1>c, <2>2, FailStepDriver
  <2>3. CASE /\ ~Stale(c) /\ state = "INITIALIZING"
             /\ Proceed(c, Registered, stage)
    BY <1>14, <1>t, <1>c, <2>3, ProceedDriver
       DEF OnInitReturn, Driving, InStages
  <2> QED BY <1>14, <2>1, <2>2, <2>3 DEF OnInitReturn
<1>15. ASSUME NEW c \in InitCalls, HookReturn(c)
      PROVE  DriverInv'
  <2>1. CASE GiveUp(c) BY <1>t, <1>c, <2>1, GiveUpDriver
  <2>2. CASE ~Stale(c) /\ \E st : Proceed(c, buildingPlan, st)
    <3>1. Driving(c) /\ state = "INITIALIZING"
      BY <1>15, <1>t, <2>2
         DEF HookReturn, DriverInv, DriverState, Driving, InStages
    <3> QED BY <1>t, <1>c, <2>2, <3>1, ProceedDriver
  <2> QED BY <1>15, <2>1, <2>2 DEF HookReturn
<1>16. ASSUME NEW c \in InitCalls, AsyncStep(c)
      PROVE  DriverInv'
  <2>1. CASE GiveUp(c) BY <1>t, <1>c, <2>1, GiveUpDriver
  <2>2. CASE FailStep(c) BY <1>t, <1>c, <2>2, FailStepDriver
  <2>3. CASE ~Stale(c) /\ \E st : Proceed(c, buildingPlan, st)
    <3>1. Driving(c) /\ state = "INITIALIZING"
      BY <1>16, <1>t, <2>3
         DEF AsyncStep, DriverInv, DriverState, Driving, InStages
    <3> QED BY <1>t, <1>c, <2>3, <3>1, ProceedDriver
  <2> QED BY <1>16, <2>1, <2>2, <2>3 DEF AsyncStep
<1>17. ASSUME NEW c \in InitCalls, ActHookReturn(c)
      PROVE  DriverInv'
  <2>1. CASE FailStep(c) BY <1>t, <1>c, <2>1, FailStepDriver
  <2>2. CASE ActivationOutcome(c)
    BY <1>17, <1>t, <1>c, <2>2, ActivationOutcomeDriver
       DEF ActHookReturn, InActivation
  <2>3. CASE /\ ~Stale(c) /\ Goto(c, "actWait", initCall[c].at)
             /\ UNCHANGED <<state, generation>>
    <3>1. Driving(c) /\ state = "ACTIVATING"
      BY <1>17, <1>t, <2>3
         DEF ActHookReturn, DriverInv, DriverState, Driving, InActivation
    <3> QED BY <1>t, <1>c, <2>3, <3>1, GotoMoves, DriverMoves DEF InStages
  <2> QED BY <1>17, <2>1, <2>2, <2>3 DEF ActHookReturn
<1>18. ASSUME NEW c \in InitCalls, ActPoll(c)
      PROVE  DriverInv'
  BY <1>18, <1>t, <1>c, ActivationOutcomeDriver DEF ActPoll, InActivation
<1>19. ASSUME NEW c \in InitCalls, EmitReturn(c)
      PROVE  DriverInv'
  BY <1>19, <1>t, <1>c, ReturnMoves, NoDriverMoves DEF EmitReturn
<1>20. ASSUME NEW c \in InitCalls, JoinResolve(c)
      PROVE  DriverInv'
  BY <1>20, <1>t, <1>c, ReturnMoves, NoDriverMoves DEF JoinResolve
<1>21. ASSUME NEW t \in TransactionIds, RegisterEnd(t)
      PROVE  DriverInv'
  <2>1. stage' = stage \/ state = "NEW" BY <1>21 DEF RegisterEnd, CanMutateRegistration
  <2> QED BY <1>21, <1>q, <2>1 DEF RegisterEnd, FinishTransaction
<1>22. ASSUME NEW t \in TransactionIds, ReplaceEnd(t)
      PROVE  DriverInv'
  <2>1. stage' = stage \/ state = "NEW"
    BY <1>22 DEF ReplaceEnd, ReplaceSettle, CanMutateRegistration
  <2>2. UNCHANGED <<state, generation>>
    BY <1>22 DEF ReplaceEnd, ReplaceSettle, FinishTransaction
  <2> QED BY <1>22, <1>q, <2>1, <2>2 DEF ReplaceEnd, replaceFrame
<1>23. ASSUME NEW t \in TransactionIds, ReplaceCommit(t)
      PROVE  DriverInv'
  <2>1. stage' = stage \/ state = "NEW"
    BY <1>23 DEF ReplaceCommit, ReplaceSettle, CanMutateRegistration
  <2>2. UNCHANGED <<state, generation>>
    BY <1>23 DEF ReplaceCommit, ReplaceSettle, FinishTransaction
  <2> QED BY <1>23, <1>q, <2>1, <2>2 DEF ReplaceCommit, replaceFrame
<1>24. ASSUME NEW i \in Instances, SettleDispose(i)
      PROVE  DriverInv'
  BY <1>24, <1>q DEF SettleDispose
<1>25. ASSUME NEW i \in Instances, DisposeModule(i)
      PROVE  DriverInv'
  BY <1>25, <1>q DEF DisposeModule
<1>26. CASE SettleClear
  <2>1. \A d \in InitCalls : initCall'[d] = initCall[d] \/ ~Driving(d)'
    BY <1>26, <1>c, WokenMoves
       DEF SettleClear, Driving, InStages, InActivation
  <2>2. state \notin {"INITIALIZING", "ACTIVATING"}
    BY <1>26 DEF SettleClear, SettlementState, Settling
  <2> QED BY <1>26, <1>t, <1>c, <2>1, <2>2, NoDriverMoves DEF SettleClear
<1>27. CASE SettleEnd BY <1>27, <1>q DEF SettleEnd
<1>28. CASE FinishDisposal
  <2>1. \A d \in InitCalls : initCall'[d] = initCall[d] \/ ~Driving(d)'
    BY <1>28, <1>c, WokenMoves
       DEF FinishDisposal, Driving, InStages, InActivation
  <2>2. state = "DISPOSING" /\ generation' = generation
    BY <1>28 DEF FinishDisposal, FinishDispose
  <2> QED BY <1>t, <1>c, <2>1, <2>2, NoDriverMoves
<1>29. CASE QuiesceHookReturn BY <1>29, <1>o DEF QuiesceHookReturn, quiesceFrame
<1>30. CASE QuiescePoll BY <1>30, <1>o DEF QuiescePoll, quiesceFrame
<1>31. ASSUME NEW s \in ShutdownCalls, ShutdownResolve(s)
      PROVE  DriverInv'
  BY <1>31, <1>q DEF ShutdownResolve
<1>32. CASE UNCHANGED vars BY <1>32, <1>q
<1> QED BY <1>1, <1>2, <1>3, <1>4, <1>5, <1>6, <1>7, <1>8, <1>9, <1>10, <1>11,
     <1>12, <1>13, <1>14, <1>15, <1>16, <1>17, <1>18, <1>19, <1>20,
     <1>21, <1>22, <1>23, <1>24, <1>25, <1>26, <1>27, <1>28, <1>29,
     <1>30, <1>31, <1>32
     DEF Next, Operation, CallStep, RegistrationStep, CleanupStep, QuiesceStep

\* The settlement state and the published result.

LEMMA FailSettles ==
  ASSUME SettlementState, NEW g, Fail(g)
  PROVE  SettlementState'
BY DEF Fail, FailInitialization, SettlementState, Settling

LEMMA SettlementStep ==
  ASSUME TypeInv, [Next]_vars
  PROVE  SettlementState'
<1>i. SettlementState OBVIOUS
<1>q. ASSUME UNCHANGED settlement,
             state' = state \/ state' \in {"FAILED", "QUIESCING", "DISPOSING",
                                           "DISPOSED"}
      PROVE  SettlementState'
  BY <1>i, <1>q DEF SettlementState, Settling
<1>n. ASSUME ~Settling'
      PROVE  SettlementState'
  BY <1>n DEF SettlementState
<1>f. ASSUME NEW g, Fail(g)
      PROVE  SettlementState'
  BY <1>i, <1>f, FailSettles
<1>s. ASSUME NEW c \in InitCalls, ~Stale(c), Driving(c), UNCHANGED settlement
      PROVE  SettlementState'
  <2>1. state \in {"INITIALIZING", "ACTIVATING"} BY <1>s DEF DriverInv, DriverState, Driving
  <2> QED BY <1>i, <1>s, <2>1, <1>n DEF SettlementState, Settling
<1>p. ASSUME NEW c \in InitCalls, ~Stale(c), Driving(c),
             NEW plan, NEW st, Proceed(c, plan, st)
      PROVE  SettlementState'
  <2>1. UNCHANGED settlement \/ Fail(initCall[c].gen) BY <1>p DEF Proceed
  <2> QED BY <1>p, <1>f, <1>s, <2>1
<1>a. ASSUME NEW c \in InitCalls, initCall[c].pc \in InActivation,
             ActivationOutcome(c)
      PROVE  SettlementState'
  <2>1. CASE UNCHANGED <<settlement, state>> BY <1>q, <2>1
  <2>2. CASE Fail(initCall[c].gen) BY <1>f, <2>2
  <2>3. CASE Activated(c) /\ ~Stale(c)
    <3>1. UNCHANGED settlement BY <2>3 DEF Activated
    <3> QED BY <1>a, <1>s, <2>3, <3>1 DEF Driving
  <2> QED BY <1>a, <2>1, <2>2, <2>3 DEF ActivationOutcome, CancelMemberScope, FailStep
<1> USE DEF failVars, runtimeVars
<1>1. ASSUME Operation
      PROVE  SettlementState'
  <2>1. CASE BeginProjectInstallers \/ MarkProjectInstallersApplied
    BY <1>q, <1>n, <2>1
       DEF BeginProjectInstallers, MarkProjectInstallersApplied, Settling
  <2>2. CASE \E t \in TransactionIds, i \in Instances :
               RegisterBegin(t, i) \/ ReplaceBegin(t, i)
    BY <1>q, <2>2 DEF RegisterBegin, ReplaceBegin, BeginTransaction
  <2>3. CASE \E k \in Keys : UnregisterInactive(k) BY <1>q, <2>3 DEF UnregisterInactive
  <2>4. CASE \E c \in InitCalls : InitCall(c)
    <3>1. CASE UNCHANGED failVars BY <1>q, <3>1
    <3>2. CASE BeginAndFailInitialization
      BY <3>2 DEF BeginAndFailInitialization, SettlementState
    <3>3. CASE ~Settling /\ UNCHANGED settlement BY <1>n, <3>3 DEF Settling
    <3> QED BY <2>4, <3>1, <3>2, <3>3 DEF InitCall
  <2>5. CASE \E c \in InitCalls : CancelToken(c) BY <1>q, <2>5 DEF CancelToken
  <2>6. CASE \E i \in Instances : AsyncReturn(i) \/ AsyncSelfCancel(i)
    BY <1>q, <2>6 DEF AsyncReturn, AsyncSelfCancel
  <2>7. CASE PublicFail BY <1>f, <2>7 DEF PublicFail
  <2>8. CASE \E s \in ShutdownCalls : ShutdownCall(s)
    <3>1. PICK s \in ShutdownCalls : ShutdownCall(s) BY <2>8
    <3>2. UNCHANGED settlement BY <3>1 DEF ShutdownCall
    <3>3. state' = state \/ state' \in {"QUIESCING", "DISPOSING"}
      BY <3>1 DEF ShutdownCall, StartDisposal, BeginDispose, BeginQuiesce
    <3> QED BY <1>q, <3>2, <3>3
  <2>9. CASE CancelShutdownToken \/ DisposeCall
    BY <1>q, <2>9 DEF CancelShutdownToken, DisposeCall, StartDisposal, BeginDispose
  <2> QED
    BY <1>1, <2>1, <2>2, <2>3, <2>4, <2>5, <2>6, <2>7, <2>8, <2>9
       DEF Operation
<1>2. ASSUME NEW c \in InitCalls, CallStep(c)
      PROVE  SettlementState'
  <2> USE DEF Driving, InStages, InActivation
  <2>1. CASE OnInitReturn(c) BY <1>q, <1>f, <1>p, <2>1 DEF OnInitReturn, FailStep
  <2>2. CASE HookReturn(c) BY <1>q, <1>p, <2>2 DEF HookReturn, GiveUp
  <2>3. CASE AsyncStep(c) BY <1>q, <1>f, <1>p, <2>3 DEF AsyncStep, GiveUp, FailStep
  <2>4. CASE ActHookReturn(c) BY <1>q, <1>f, <1>a, <2>4 DEF ActHookReturn, FailStep
  <2>5. CASE ActPoll(c) BY <1>a, <2>5 DEF ActPoll
  <2>6. CASE EmitReturn(c) \/ JoinResolve(c) BY <1>q, <2>6 DEF EmitReturn, JoinResolve
  <2> QED BY <1>2, <2>1, <2>2, <2>3, <2>4, <2>5, <2>6 DEF CallStep
<1>3. ASSUME NEW t \in TransactionIds, RegistrationStep(t)
      PROVE  SettlementState'
  <2>1. UNCHANGED settlement
    BY <1>3 DEF RegistrationStep, RegisterEnd, ReplaceEnd, ReplaceCommit,
       replaceFrame
  <2>2. UNCHANGED state
    BY <1>3 DEF RegistrationStep, RegisterEnd, ReplaceEnd, ReplaceCommit,
       ReplaceSettle, FinishTransaction
  <2> QED BY <1>q, <2>1, <2>2
<1>4. ASSUME CleanupStep
      PROVE  SettlementState'
  <2>1. CASE \E i \in Instances : SettleDispose(i) \/ DisposeModule(i)
    BY <1>q, <2>1 DEF SettleDispose, DisposeModule
  <2>2. CASE SettleClear BY <1>i, <2>2 DEF SettleClear, SettlementState, Settling
  <2>3. CASE SettleEnd BY <1>n, <2>3 DEF SettleEnd, Settling
  <2>4. CASE FinishDisposal BY <1>q, <2>4 DEF FinishDisposal, FinishDispose
  <2> QED BY <1>4, <2>1, <2>2, <2>3, <2>4 DEF CleanupStep
<1>5. ASSUME QuiesceStep
      PROVE  SettlementState'
  <2>1. UNCHANGED settlement
    BY <1>5 DEF QuiesceStep, QuiesceHookReturn, QuiescePoll, quiesceFrame
  <2>2. UNCHANGED state \/ state' = "DISPOSING"
    BY <1>5 DEF QuiesceStep, QuiesceHookReturn, QuiescePoll, QuiesceOutcome,
       QuiesceNext, EndQuiesce, StartDisposal, BeginDispose
  <2> QED BY <1>q, <2>1, <2>2
<1>6. ASSUME NEW s \in ShutdownCalls, ShutdownResolve(s)
      PROVE  SettlementState'
  BY <1>q, <1>6 DEF ShutdownResolve
<1>7. CASE UNCHANGED vars BY <1>q, <1>7 DEF vars
<1> QED BY <1>1, <1>2, <1>3, <1>4, <1>5, <1>6, <1>7 DEF Next

\* Only a disposal that ends answers the shutdown, with its verdict.
LEMMA AnsweredStep ==
  ASSUME TypeInv, [Next]_vars
  PROVE  Answered'
<1>i. Answered /\ disposal.verdict \in Verdict BY DEF TypeOK, ClosingTypeOK
<1>q. ASSUME UNCHANGED lastResult, completion' = completion \/ completion' = "pending"
      PROVE  Answered'
  BY <1>i, <1>q DEF Answered
<1> USE DEF vars, closeVars, initFrame, quiesceFrame, replaceFrame
<1>1. ASSUME Operation
      PROVE  Answered'
  <2>1. UNCHANGED lastResult
    BY <1>1 DEF Operation, BeginProjectInstallers,
       MarkProjectInstallersApplied, RegisterBegin, ReplaceBegin,
       UnregisterInactive, InitCall, CancelToken, AsyncReturn,
       AsyncSelfCancel, PublicFail, ShutdownCall, CancelShutdownToken,
       DisposeCall
  <2>2. completion' = completion \/ completion' = "pending"
    BY <1>1 DEF Operation, BeginProjectInstallers,
       MarkProjectInstallersApplied, RegisterBegin, ReplaceBegin,
       UnregisterInactive, InitCall, CancelToken, AsyncReturn,
       AsyncSelfCancel, PublicFail, ShutdownCall, CancelShutdownToken,
       DisposeCall, ClaimCompletion
  <2> QED BY <1>q, <2>1, <2>2
<1>2. ASSUME NEW c \in InitCalls, CallStep(c)
      PROVE  Answered'
  BY <1>q, <1>2 DEF CallStep, OnInitReturn, HookReturn, AsyncStep,
     ActHookReturn, ActPoll, EmitReturn, JoinResolve
<1>3. ASSUME NEW t \in TransactionIds, RegistrationStep(t)
      PROVE  Answered'
  BY <1>q, <1>3 DEF RegistrationStep, RegisterEnd, ReplaceEnd, ReplaceCommit
<1>4. ASSUME CleanupStep
      PROVE  Answered'
  <2>1. CASE FinishDisposal BY <1>i, <1>q, <2>1 DEF FinishDisposal, Answered
  <2> QED
    BY <1>q, <1>4, <2>1
       DEF CleanupStep, SettleDispose, DisposeModule, SettleClear, SettleEnd
<1>5. ASSUME QuiesceStep
      PROVE  Answered'
  BY <1>q, <1>5 DEF QuiesceStep, QuiesceHookReturn, QuiescePoll
<1>6. ASSUME NEW s \in ShutdownCalls, ShutdownResolve(s)
      PROVE  Answered'
  BY <1>q, <1>6 DEF ShutdownResolve
<1>7. CASE UNCHANGED vars BY <1>q, <1>7
<1> QED BY <1>1, <1>2, <1>3, <1>4, <1>5, <1>6, <1>7 DEF Next

\* Every variable keeps its type: stages stay between 0 and 4, the count of
\* stale write blocks does not go below zero, and what is registered, planned,
\* quiesced and disposed are modules.
THEOREM TypeInvariant == Spec => []TypeInv
<1>1. Init => TypeInv BY InitTypeInv
<1>2. TypeInv /\ [Next]_vars => TypeInv' BY TypeStep, DriverStep, SettlementStep, AnsweredStep
<1> QED BY <1>1, <1>2, PTL DEF Spec

THEOREM TypeCorrect == Spec => []TypeOK
<1>1. TypeInv => TypeOK OBVIOUS
<1> QED BY <1>1, TypeInvariant, PTL

-----------------------------------------------------------------------------
\* Drivers of an earlier generation

\* The call of another leaves a call of init() alone, unless it waits.
Waiting(c) == initCall[c].pc = "joined"

LEMMA ProceedOthers ==
  ASSUME TypeOK, NEW c \in InitCalls, NEW plan, NEW st, Proceed(c, plan, st)
  PROVE  \A d \in InitCalls \ {c} :
           \/ initCall'[d] = initCall[d]
           \/ Waiting(d) /\ initCall'[d].pc = "woken"
<1>1. CallTypeOK /\ \A d \in InitCalls :
        Woken[d] = initCall[d] \/ (Waiting(d) /\ Woken[d].pc = "woken")
  BY DEF TypeOK, CallTypeOK, Woken, InitCallRecord, Waiting
<1>2. CASE initCall' = [Woken EXCEPT ![c].pc = "emit"] BY <1>1, <1>2 DEF Woken
<1>3. CASE \E r : Return(c, r) BY <1>1, <1>3 DEF Return, CallTypeOK
<1>4. CASE \E pc, i : Goto(c, pc, i) BY <1>1, <1>4 DEF Goto, CallTypeOK
<1> QED BY <1>2, <1>3, <1>4 DEF Proceed

LEMMA ActivationOthers ==
  ASSUME TypeOK, NEW c \in InitCalls, ActivationOutcome(c)
  PROVE  \A d \in InitCalls \ {c} :
           \/ initCall'[d] = initCall[d]
           \/ Waiting(d) /\ initCall'[d].pc = "woken"
<1>1. CallTypeOK /\ \A d \in InitCalls :
        Woken[d] = initCall[d] \/ (Waiting(d) /\ Woken[d].pc = "woken")
  BY DEF TypeOK, CallTypeOK, Woken, InitCallRecord, Waiting
<1>2. CASE initCall' = [Woken EXCEPT ![c].pc = "emit"] BY <1>1, <1>2 DEF Woken
<1>3. CASE \E r : Return(c, r) BY <1>1, <1>3 DEF Return, CallTypeOK
<1>4. CASE \E pc, i : Goto(c, pc, i) BY <1>1, <1>4 DEF Goto, CallTypeOK
<1> QED
  BY <1>2, <1>3, <1>4
     DEF ActivationOutcome, CancelMemberScope, FailStep, Activated

LEMMA OthersWait ==
  ASSUME TypeOK, NEW d \in InitCalls, CallStep(d), NEW c \in InitCalls \ {d}
  PROVE  initCall'[c] = initCall[c] \/ (Waiting(c) /\ initCall'[c].pc = "woken")
<1>t. CallTypeOK BY DEF TypeOK
<1>1. ASSUME NEW r, Return(d, r)
      PROVE  initCall'[c] = initCall[c]
  BY <1>t, <1>1 DEF Return, CallTypeOK
<1>2. ASSUME NEW pc, NEW i, Goto(d, pc, i)
      PROVE  initCall'[c] = initCall[c]
  BY <1>t, <1>2 DEF Goto, CallTypeOK
<1>3. CASE OnInitReturn(d) BY <1>1, <1>3, ProceedOthers DEF OnInitReturn, FailStep
<1>4. CASE HookReturn(d) BY <1>1, <1>4, ProceedOthers DEF HookReturn, GiveUp
<1>5. CASE AsyncStep(d) BY <1>1, <1>5, ProceedOthers DEF AsyncStep, GiveUp, FailStep
<1>6. CASE ActHookReturn(d) BY <1>1, <1>2, <1>6, ActivationOthers DEF ActHookReturn, FailStep
<1>7. CASE ActPoll(d) BY <1>7, ActivationOthers DEF ActPoll
<1>8. CASE EmitReturn(d) \/ JoinResolve(d) BY <1>1, <1>8 DEF EmitReturn, JoinResolve
<1> QED BY <1>3, <1>4, <1>5, <1>6, <1>7, <1>8 DEF CallStep

LEMMA CallMoves ==
  ASSUME TypeInv, [Next]_vars, NEW c \in InitCalls
  PROVE  \/ initCall'[c] = initCall[c]
         \/ CallStep(c)
         \/ InitCall(c)
         \/ Waiting(c) /\ initCall'[c].pc \in {"woken", "false"}
<1>t. TypeOK /\ CallTypeOK BY DEF TypeOK
<1> USE DEF failVars, initFrame
<1>w. ASSUME initCall' = Woken
      PROVE  initCall'[c] = initCall[c]
             \/ (Waiting(c) /\ initCall'[c].pc = "woken")
  BY <1>t, <1>w DEF CallTypeOK, Woken, InitCallRecord, Waiting
<1>1. CASE Operation
  <2>1. ASSUME NEW d \in InitCalls \ {c}, InitCall(d)
        PROVE  initCall'[c] = initCall[c]
    BY <1>t, <2>1 DEF InitCall, Return, CallTypeOK
  <2>2. ASSUME NEW d \in InitCalls, CancelToken(d)
        PROVE  initCall'[c] = initCall[c]
               \/ (Waiting(c) /\ initCall'[c].pc = "false")
    BY <1>t, <2>2 DEF CancelToken, Return, Returned, CallTypeOK, Waiting
  <2>3. CASE UNCHANGED initCall BY <2>3
  <2> QED
    BY <1>1, <2>1, <2>2, <2>3 DEF Operation, BeginProjectInstallers,
       MarkProjectInstallersApplied, RegisterBegin, ReplaceBegin, UnregisterInactive,
       AsyncReturn, AsyncSelfCancel, PublicFail, ShutdownCall, CancelShutdownToken,
       DisposeCall
<1>2. ASSUME NEW d \in InitCalls \ {c}, CallStep(d)
      PROVE  initCall'[c] = initCall[c]
             \/ (Waiting(c) /\ initCall'[c].pc = "woken")
  BY <1>t, <1>2, OthersWait
<1>3. CASE \E t \in TransactionIds : RegistrationStep(t)
  BY <1>3 DEF RegistrationStep, RegisterEnd, ReplaceEnd, ReplaceCommit,
     replaceFrame
<1>4. CASE CleanupStep
  BY <1>4, <1>w DEF CleanupStep, SettleDispose, DisposeModule, SettleClear,
     SettleEnd, FinishDisposal
<1>5. CASE QuiesceStep BY <1>5 DEF QuiesceStep, QuiesceHookReturn, QuiescePoll, quiesceFrame
<1>6. CASE \E s \in ShutdownCalls : ShutdownResolve(s) BY <1>6 DEF ShutdownResolve
<1>7. CASE UNCHANGED vars BY <1>7 DEF vars
<1> QED BY <1>1, <1>2, <1>3, <1>4, <1>5, <1>6, <1>7 DEF Next

\* What a stale call does when it resumes
LEMMA StaleStep ==
  ASSUME TypeInv, NEW c \in InitCalls, Stale(c), CallStep(c)
  PROVE  /\ initCall'[c].pc = "false"
         /\ UNCHANGED <<runtimeVars, settlement, installers, moduleVars,
                        asyncVars, activationScope>>
<1>t. TypeOK /\ CallTypeOK BY DEF TypeOK
<1> USE DEF Stale
<1>r. ASSUME Return(c, FALSE)
      PROVE  initCall'[c].pc = "false"
  BY <1>t, <1>r DEF Return, Returned, CallTypeOK
<1>f. ASSUME Fail(initCall[c].gen)
      PROVE  UNCHANGED failVars
  BY <1>f DEF Fail, CanFail
<1>1. CASE OnInitReturn(c) BY <1>r, <1>1 DEF OnInitReturn
<1>2. CASE HookReturn(c) BY <1>r, <1>2 DEF HookReturn, GiveUp
<1>3. CASE AsyncStep(c) BY <1>r, <1>3 DEF AsyncStep, GiveUp
<1>o. ASSUME ActivationOutcome(c), UNCHANGED asyncVars
      PROVE  /\ initCall'[c].pc = "false"
             /\ UNCHANGED <<runtimeVars, settlement, installers, moduleVars,
                            asyncVars, activationScope>>
  BY <1>r, <1>f, <1>o DEF ActivationOutcome, CancelMemberScope, FailStep, CanFail
<1>4. CASE ActHookReturn(c) BY <1>r, <1>f, <1>o, <1>4 DEF ActHookReturn, FailStep
<1>5. CASE ActPoll(c) BY <1>o, <1>5 DEF ActPoll
<1>6. CASE EmitReturn(c) \/ JoinResolve(c) BY <1>r, <1>6 DEF EmitReturn, JoinResolve
<1> QED BY <1>1, <1>2, <1>3, <1>4, <1>5, <1>6 DEF CallStep

\* Only a call that waited, or found the architecture READY, answers true.
LEMMA AnswersTrue ==
  ASSUME TypeInv, NEW c \in InitCalls, CallStep(c) \/ InitCall(c),
         initCall'[c].pc = "true"
  PROVE  state = "READY" /\ (initCall[c].pc # "idle" => ~Stale(c))
<1>t. CallTypeOK BY DEF TypeOK
<1>r. ASSUME NEW r \in BOOLEAN, Return(c, r)
      PROVE  r
  BY <1>t, <1>r DEF Return, Returned, CallTypeOK
<1>g. ASSUME NEW pc, NEW i, Goto(c, pc, i)
      PROVE  pc = "true"
  BY <1>t, <1>g DEF Goto, CallTypeOK, InitCallRecord
<1>w. ASSUME initCall' = [Woken EXCEPT ![c].pc = "emit"]
      PROVE  FALSE
  <2>1. Woken \in [InitCalls -> InitCallRecord] BY <1>t, WokenType
  <2> QED BY <1>w, <2>1 DEF InitCallRecord
<1>p. ASSUME NEW plan, NEW st, Proceed(c, plan, st)
      PROVE  FALSE
  BY <1>r, <1>g, <1>w, <1>p DEF Proceed
<1>a. ASSUME ActivationOutcome(c)
      PROVE  FALSE
  BY <1>r, <1>g, <1>w, <1>a
     DEF ActivationOutcome, CancelMemberScope, FailStep, Activated
<1>1. CASE InitCall(c)
  <2>1. initCall[c].pc = "idle" BY <1>1 DEF InitCall
  <2>2. CASE state = "READY" BY <2>1, <2>2
  <2>3. CASE state # "READY"
    <3>1. ~Return(c, FALSE) BY <1>r
    <3>2. initCall' # [initCall EXCEPT ![c] =
                         [pc |-> IF c \in cancelledTokens THEN "false"
                                                          ELSE "joined",
                          gen |-> generation, at |-> NoOne]]
      BY <1>t DEF CallTypeOK
    <3>3. initCall' # [initCall EXCEPT ![c] =
                         [pc |-> "onInit", gen |-> generation + 1,
                          at |-> NoOne]]
      BY <1>t DEF CallTypeOK
    <3> QED BY <1>1, <2>3, <3>1, <3>2, <3>3 DEF InitCall
  <2> QED BY <2>2, <2>3
<1>2. CASE OnInitReturn(c) \/ HookReturn(c) \/ AsyncStep(c)
  BY <1>r, <1>p, <1>2 DEF OnInitReturn, HookReturn, AsyncStep, GiveUp, FailStep
<1>3. CASE ActHookReturn(c) \/ ActPoll(c)
  BY <1>r, <1>g, <1>a, <1>3 DEF ActHookReturn, ActPoll, FailStep
<1>4. CASE EmitReturn(c) \/ JoinResolve(c) BY <1>r, <1>4 DEF EmitReturn, JoinResolve
<1> QED BY <1>1, <1>2, <1>3, <1>4 DEF CallStep

\* A driver that resumes in a later generation ends with false and touches
\* nothing of it, and init() answers true only for the generation that is READY.
THEOREM StaleDriversInert == Spec => StaleDriverInert
<1> DEFINE Inert(c) ==
      /\ /\ initCall[c].pc \notin {"idle", "joined"} \cup InitReturned
         /\ Stale(c)
         /\ initCall'[c] # initCall[c]
         => /\ initCall'[c].pc = "false"
            /\ UNCHANGED <<runtimeVars, settlement, installers, moduleVars,
                           asyncVars, activationScope>>
      /\ initCall'[c].pc = "true" /\ initCall[c].pc # "true" =>
           /\ state = "READY"
           /\ initCall[c].pc # "idle" => ~Stale(c)
<1>1. TypeInv /\ [Next]_vars => \A c \in InitCalls : Inert(c)
  <2> SUFFICES ASSUME TypeInv, [Next]_vars, NEW c \in InitCalls
               PROVE  Inert(c)
    OBVIOUS
  <2>1. \/ initCall'[c] = initCall[c]
        \/ CallStep(c)
        \/ InitCall(c)
        \/ Waiting(c) /\ initCall'[c].pc \in {"woken", "false"}
    BY CallMoves
  <2>2. InitCall(c) => initCall[c].pc = "idle" BY DEF InitCall
  <2> QED BY <2>1, <2>2, StaleStep, AnswersTrue DEF Waiting
<1> QED BY <1>1, TypeInvariant, PTL DEF Spec, StaleDriverInert

-----------------------------------------------------------------------------
\* The result of a shutdown

Closing == {"QUIESCING", "DISPOSING", "DISPOSED"}

\* Every other module of a plan comes before its last one.
LEMMA LastPrecedes ==
  ASSUME NEW plan \in SUBSET Instances, plan # {}
  PROVE  /\ Last(plan) \in plan
         /\ \A j \in plan \ {Last(plan)} : Rank[j] < Rank[Last(plan)]
<1>1. \E i \in plan : \A j \in plan : Rank[j] <= Rank[i] BY PlanAssumption
<1>2. Last(plan) \in plan /\ \A j \in plan : Rank[j] <= Rank[Last(plan)] BY <1>1 DEF Last
<1> QED BY <1>2, InstancesAssumption

\* The completion is claimed while the architecture closes, and published once.
Completed ==
  /\ state \in {"QUIESCING", "DISPOSING"} => completion = "pending"
  /\ state = "DISPOSED" <=> published = 1
  /\ state = "DISPOSED" <=> completion = "done"
  /\ published \in {0, 1}
  /\ state = "DISPOSED" => lastResult # "none"

\* A shutdown asks the modules of the active plan one after the other: what it
\* has still to ask comes before the module it is at, and every other one has
\* given its answer.
AskedInTurn ==
  shutdown.pc # "none" =>
    /\ shutdown.finished \cap shutdown.unfinished = {}
    /\ shutdown.at \notin shutdown.finished \cup shutdown.unfinished
    /\ shutdown.todo \cap (shutdown.finished \cup shutdown.unfinished) = {}
    /\ \A j \in shutdown.todo : Rank[j] < Rank[shutdown.at]
    /\ state = "QUIESCING" =>
         activePlan \subseteq shutdown.finished \cup shutdown.unfinished
                             \cup shutdown.todo \cup {shutdown.at}

NoShutdownBefore == state \notin Closing => shutdown = NoShutdown

\* What the disposal will publish accounts for the modules.
VerdictAccounts ==
  state = "DISPOSING" =>
    /\ disposal.verdict = "forced" => ForcedUnfinished \subseteq disposal.unfinished
    /\ disposal.verdict # "forced" =>
         activePlan \subseteq disposal.finished \cup disposal.unfinished
    /\ disposal.finished \cap disposal.unfinished = {}
    /\ disposal.verdict = "succeeded" => activePlan \subseteq disposal.finished

ShutdownInv == Completed /\ AskedInTurn /\ NoShutdownBefore /\ VerdictAccounts

LEMMA InitShutdownInv == Init => ShutdownInv
BY DEF Init, RuntimeInit, ShutdownInv, Completed, AskedInTurn,
   NoShutdownBefore, VerdictAccounts, Closing, NoShutdown

\* A step that is not one of a shutdown leaves it alone: it does not begin to
\* close the architecture, and touches no module of one that closes.
Apart ==
  /\ UNCHANGED <<closeVars, disposal>>
  /\ state \in Closing => UNCHANGED <<state, moduleVars>>
  /\ state \notin Closing => state' \notin Closing

LEMMA ApartKeeps ==
  ASSUME ShutdownInv, Apart
  PROVE  ShutdownInv'
<1> USE DEF ShutdownInv, Apart, closeVars, moduleVars, Closing
<1>1. Completed' BY DEF Completed
<1>2. AskedInTurn' /\ NoShutdownBefore' BY DEF AskedInTurn, NoShutdownBefore
<1>3. VerdictAccounts' BY DEF VerdictAccounts, ForcedUnfinished, CleanupPlan
<1> QED BY <1>1, <1>2, <1>3

LEMMA FailApart ==
  ASSUME NEW g, Fail(g), UNCHANGED <<closeVars, disposal>>,
         CanFail(g) \/ UNCHANGED moduleVars
  PROVE  Apart
BY DEF Fail, FailInitialization, CanFail, Apart, Closing

LEMMA StartsApart ==
  ASSUME state \notin Closing, state' \notin Closing,
         UNCHANGED <<closeVars, disposal>>
  PROVE  Apart
BY DEF Apart

LEMMA StillApart ==
  ASSUME UNCHANGED <<state, moduleVars, closeVars, disposal>>
  PROVE  Apart
BY DEF Apart

LEMMA CallApart ==
  ASSUME TypeInv, NEW c \in InitCalls, CallStep(c)
  PROVE  Apart
<1> USE DEF initFrame, InStages, InActivation
<1>f. UNCHANGED <<closeVars, disposal>>
  BY DEF CallStep, OnInitReturn, HookReturn, AsyncStep, ActHookReturn,
     ActPoll, EmitReturn, JoinResolve
<1>1. CASE Stale(c) BY <1>1, <1>f, StaleStep, StillApart
<1>2. CASE ~Stale(c) /\ Driving(c)
  <2>1. state \in {"INITIALIZING", "ACTIVATING"} BY <1>2 DEF DriverInv, DriverState, Driving
  <2>f. ASSUME NEW g, Fail(g)
        PROVE  state' \in {state, "FAILED"}
    BY <2>f DEF Fail, FailInitialization
  <2>2. ASSUME NEW plan, NEW st, Proceed(c, plan, st)
        PROVE  state' \in {state, "FAILED", "ACTIVATING", "READY"}
    BY <2>2, <2>f DEF Proceed, BeginActivation, ActivateNothing
  <2>3. ASSUME ActivationOutcome(c)
        PROVE  state' \in {state, "FAILED", "READY"}
    BY <2>3, <2>f DEF ActivationOutcome, CancelMemberScope, FailStep, Activated,
       FinishActivation
  <2>4. state' \in {state, "FAILED", "ACTIVATING", "READY"}
    <3>1. CASE OnInitReturn(c) BY <2>f, <2>2, <3>1 DEF OnInitReturn, FailStep
    <3>2. CASE HookReturn(c) BY <2>2, <3>2 DEF HookReturn, GiveUp
    <3>3. CASE AsyncStep(c) BY <2>f, <2>2, <3>3 DEF AsyncStep, GiveUp, FailStep
    <3>4. CASE ActHookReturn(c) BY <2>f, <2>3, <3>4 DEF ActHookReturn, FailStep
    <3>5. CASE ActPoll(c) BY <2>3, <3>5 DEF ActPoll
    <3>6. CASE EmitReturn(c) \/ JoinResolve(c) BY <3>6 DEF EmitReturn, JoinResolve
    <3> QED BY <3>1, <3>2, <3>3, <3>4, <3>5, <3>6 DEF CallStep
  <2> QED BY <1>f, <2>1, <2>4, StartsApart DEF Closing
<1>3. CASE ~Driving(c)
  <2>1. EmitReturn(c) \/ JoinResolve(c)
    BY <1>3 DEF Driving, CallStep, OnInitReturn, HookReturn, AsyncStep,
       ActHookReturn, ActPoll
  <2> QED BY <1>f, <2>1, StillApart DEF EmitReturn, JoinResolve
<1> QED BY <1>1, <1>2, <1>3

\* The operations that do not close the architecture
LEMMA OperationApart ==
  ASSUME TypeInv, Operation
  PROVE  \/ Apart
         \/ \E s \in ShutdownCalls : ShutdownCall(s)
         \/ CancelShutdownToken
         \/ DisposeCall
<1> USE DEF initFrame
<1>1. CASE BeginProjectInstallers
  <2>1. state \notin Closing /\ state' \notin Closing
    BY <1>1 DEF BeginProjectInstallers, ClearFailure, Closing
  <2> QED BY <1>1, <2>1, StartsApart DEF BeginProjectInstallers
<1>2. CASE MarkProjectInstallersApplied BY <1>2, StillApart DEF MarkProjectInstallersApplied
<1>3. CASE \E t \in TransactionIds, i \in Instances :
             RegisterBegin(t, i) \/ ReplaceBegin(t, i)
  BY <1>3, StillApart DEF RegisterBegin, ReplaceBegin, BeginTransaction
<1>4. CASE \E k \in Keys : UnregisterInactive(k)
  <2>1. state = "NEW" /\ UNCHANGED <<state, closeVars, disposal>>
    BY <1>4 DEF UnregisterInactive, MayRegister, CanMutateRegistration
  <2> QED BY <2>1, StartsApart DEF Closing
<1>5. ASSUME NEW c \in InitCalls, InitCall(c)
      PROVE  Apart
  <2>1. UNCHANGED <<closeVars, disposal, moduleVars>> BY <1>5 DEF InitCall
  <2>2. CASE UNCHANGED failVars BY <2>1, <2>2, StillApart
  <2>3. CASE BeginAndFailInitialization \/ BeginInitialization
             \/ RestartAfterFailure
    <3>1. state \notin Closing /\ state' \notin Closing
      BY <2>3 DEF BeginAndFailInitialization, BeginInitialization,
         RestartAfterFailure, Closing
    <3> QED BY <2>1, <3>1, StartsApart
  <2> QED BY <1>5, <2>2, <2>3 DEF InitCall
<1>6. CASE \E c \in InitCalls : CancelToken(c) BY <1>6, StillApart DEF CancelToken
<1>7. CASE \E i \in Instances : AsyncReturn(i) \/ AsyncSelfCancel(i)
  BY <1>7, StillApart DEF AsyncReturn, AsyncSelfCancel
<1>8. CASE PublicFail BY <1>8, FailApart DEF PublicFail
<1> QED BY <1>1, <1>2, <1>3, <1>4, <1>5, <1>6, <1>7, <1>8 DEF Operation

LEMMA RegistrationApart ==
  ASSUME NEW t \in TransactionIds, RegistrationStep(t)
  PROVE  Apart
<1>1. UNCHANGED <<state, activePlan, buildingPlan, closeVars, disposal>>
  BY DEF RegistrationStep, RegisterEnd, ReplaceEnd, ReplaceCommit, ReplaceSettle,
     replaceFrame, FinishTransaction
<1>2. UNCHANGED <<registry, stage>> \/ state = "NEW"
  BY DEF RegistrationStep, RegisterEnd, ReplaceEnd, ReplaceCommit,
     ReplaceSettle, CanMutateRegistration
<1> QED BY <1>1, <1>2 DEF Apart, Closing

\* A disposal that begins, with a verdict that accounts for the modules
LEMMA DisposalBegins ==
  ASSUME TypeInv, ShutdownInv, state \notin {"DISPOSING", "DISPOSED"},
         NEW v, NEW f, NEW u, StartDisposal(v, f, u),
         UNCHANGED <<moduleVars, lastResult, published>>,
         completion' = "pending", shutdown' = shutdown \/ shutdown' = NoShutdown,
         v = "forced" => ForcedUnfinished \subseteq u,
         v # "forced" => activePlan \subseteq f \cup u,
         f \cap u = {},
         v = "succeeded" => activePlan \subseteq f
  PROVE  ShutdownInv'
<1> USE DEF ShutdownInv, moduleVars, Closing
<1>s. /\ state' = "DISPOSING"
      /\ disposal'.verdict = v /\ disposal'.finished = f
      /\ disposal'.unfinished = u
  BY DEF StartDisposal, BeginDispose
<1>1. Completed' BY <1>s DEF Completed
<1>2. AskedInTurn' /\ NoShutdownBefore' BY <1>s DEF AskedInTurn, NoShutdownBefore, NoShutdown
<1>3. VerdictAccounts' BY <1>s DEF VerdictAccounts, ForcedUnfinished, CleanupPlan
<1> QED BY <1>1, <1>2, <1>3

LEMMA CleanupShutdown ==
  ASSUME TypeInv, ShutdownInv, CleanupStep
  PROVE  ShutdownInv'
<1> USE DEF failVars, runtimeVars, initFrame
<1>1. CASE \E i \in Instances : SettleDispose(i) \/ DisposeModule(i)
  BY <1>1, StillApart, ApartKeeps DEF SettleDispose, DisposeModule
<1>2. CASE SettleEnd BY <1>2, StillApart, ApartKeeps DEF SettleEnd
<1>3. CASE SettleClear
  <2>1. UNCHANGED <<state, closeVars, disposal>> /\ state # "DISPOSING"
          /\ activePlan' = {}
    BY <1>3 DEF SettleClear, Cleared
  <2> QED
    BY <2>1 DEF ShutdownInv, Completed, AskedInTurn, NoShutdownBefore,
       VerdictAccounts, closeVars
<1>4. CASE FinishDisposal
  <2>1. /\ state = "DISPOSING" /\ state' = "DISPOSED"
        /\ completion = "pending" /\ published = 0
    BY <1>4 DEF FinishDisposal, FinishDispose, ShutdownInv, Completed
  <2>2. /\ lastResult' = disposal.verdict /\ completion' = "done"
        /\ published' = 1 /\ UNCHANGED shutdown
    BY <1>4, <2>1 DEF FinishDisposal
  <2>3. disposal.verdict # "none" BY DEF TypeOK, ClosingTypeOK, Verdict
  <2> QED
    BY <2>1, <2>2, <2>3 DEF ShutdownInv, Completed, AskedInTurn,
       NoShutdownBefore, VerdictAccounts, Closing
<1> QED BY <1>1, <1>2, <1>3, <1>4 DEF CleanupStep

LEMMA ShutdownCallShutdown ==
  ASSUME TypeInv, ShutdownInv, NEW s \in ShutdownCalls, ShutdownCall(s)
  PROVE  ShutdownInv'
<1>f. UNCHANGED <<moduleVars, lastResult, published>> BY DEF ShutdownCall
<1>1. CASE UNCHANGED <<runtimeVars, disposal, completion, shutdown>>
  BY <1>f, <1>1 DEF ShutdownInv, Completed, AskedInTurn, NoShutdownBefore, VerdictAccounts,
     ForcedUnfinished, CleanupPlan
<1>2. CASE /\ ClaimCompletion
           /\ StartDisposal("forced", {}, ForcedUnfinished)
           /\ UNCHANGED shutdown
  BY <1>f, <1>2, DisposalBegins DEF ClaimCompletion, StartDisposal, BeginDispose
<1>3. CASE /\ ClaimCompletion
           /\ \E v \in EarlyVerdict : StartDisposal(v, {}, activePlan)
           /\ UNCHANGED shutdown
  BY <1>f, <1>3, DisposalBegins DEF EarlyVerdict, ClaimCompletion, StartDisposal, BeginDispose
<1>4. CASE /\ ClaimCompletion /\ activePlan = {}
           /\ StartDisposal("succeeded", {}, {})
           /\ UNCHANGED shutdown
  BY <1>f, <1>4, DisposalBegins DEF ClaimCompletion, StartDisposal, BeginDispose
<1>5. CASE /\ ClaimCompletion /\ activePlan # {}
           /\ BeginQuiesce
           /\ shutdown' = [NoShutdown EXCEPT
                !.pc = "hook", !.at = Last(activePlan),
                !.todo = activePlan \ {Last(activePlan)}]
           /\ UNCHANGED disposal
  <2>1. activePlan \in SUBSET Instances BY DEF TypeOK, ModuleTypeOK
  <2>2. /\ shutdown'.pc = "hook" /\ shutdown'.at = Last(activePlan)
        /\ shutdown'.todo = activePlan \ {Last(activePlan)}
        /\ shutdown'.finished = {} /\ shutdown'.unfinished = {}
    BY <1>5 DEF NoShutdown
  <2>3. /\ state' = "QUIESCING" /\ state \notin Closing
        /\ completion' = "pending" /\ UNCHANGED activePlan
    BY <1>f, <1>5 DEF BeginQuiesce, ClaimCompletion, Closing
  <2>4. \A j \in activePlan \ {Last(activePlan)} :
          Rank[j] < Rank[Last(activePlan)]
    BY <1>5, <2>1, LastPrecedes
  <2>5. AskedInTurn' BY <2>2, <2>3, <2>4 DEF AskedInTurn
  <2> QED
    BY <1>f, <2>3, <2>5 DEF ShutdownInv, Completed, NoShutdownBefore,
       VerdictAccounts, Closing
<1> QED BY <1>1, <1>2, <1>3, <1>4, <1>5 DEF ShutdownCall

\* The module a shutdown is at has answered.
LEMMA QuiesceNextShutdown ==
  ASSUME TypeInv, ShutdownInv, state = "QUIESCING", shutdown.pc # "none",
         NEW f, NEW u,
         \/ f = shutdown.finished \cup {shutdown.at} /\ u = shutdown.unfinished
         \/ f = shutdown.finished /\ u = shutdown.unfinished \cup {shutdown.at},
         QuiesceNext(f, u),
         UNCHANGED <<moduleVars, lastResult, published, completion>>
  PROVE  ShutdownInv'
<1>t. shutdown \in ShutdownRecord BY DEF TypeOK, ClosingTypeOK, NoShutdown
<1>a. AskedInTurn /\ completion = "pending" BY DEF ShutdownInv, Completed
<1>b. /\ f \cap u = {} /\ shutdown.todo \cap (f \cup u) = {}
      /\ activePlan \subseteq f \cup u \cup shutdown.todo
  BY <1>t, <1>a, InstancesAssumption DEF AskedInTurn, ShutdownRecord
<1>1. CASE /\ shutdown.todo # {}
           /\ shutdown' = [pc |-> "hook", at |-> Last(shutdown.todo),
                           todo |-> shutdown.todo \ {Last(shutdown.todo)},
                           finished |-> f, unfinished |-> u]
           /\ UNCHANGED <<runtimeVars, cancelVars, disposal>>
  <2>1. shutdown.todo \in SUBSET Instances BY <1>t DEF ShutdownRecord
  <2>2. /\ Last(shutdown.todo) \in shutdown.todo
        /\ \A j \in shutdown.todo \ {Last(shutdown.todo)} :
             Rank[j] < Rank[Last(shutdown.todo)]
    BY <1>1, <2>1, LastPrecedes
  <2>3. AskedInTurn' BY <1>1, <1>b, <2>2 DEF AskedInTurn
  <2> QED BY <1>1, <2>3 DEF ShutdownInv, Completed, NoShutdownBefore, VerdictAccounts, Closing
<1>2. CASE /\ shutdown.todo = {}
           /\ EndQuiesce(IF u = {} THEN "succeeded" ELSE "failed", f, u)
  BY <1>a, <1>b, <1>2, DisposalBegins DEF EndQuiesce
<1>3. CASE EndQuiesce("timed_out", f, u \cup shutdown.todo)
  BY <1>a, <1>b, <1>3, DisposalBegins DEF EndQuiesce
<1> QED BY <1>1, <1>2, <1>3 DEF QuiesceNext

LEMMA QuiesceOutcomeShutdown ==
  ASSUME TypeInv, ShutdownInv, shutdown.pc # "none", state # "DISPOSING",
         QuiesceOutcome, UNCHANGED quiesceFrame
  PROVE  ShutdownInv'
<1>f. UNCHANGED <<moduleVars, lastResult, published, completion>> BY DEF quiesceFrame
<1>1. CASE /\ state # "QUIESCING" /\ shutdown' = NoShutdown
           /\ UNCHANGED <<runtimeVars, disposal>>
  BY <1>f, <1>1 DEF ShutdownInv, Completed, AskedInTurn, NoShutdownBefore, VerdictAccounts,
     NoShutdown
<1>2. ASSUME state = "QUIESCING", NEW v \in {"cancelled", "timed_out"},
             EndQuiesce(v, shutdown.finished,
               shutdown.unfinished \cup {shutdown.at} \cup shutdown.todo)
      PROVE  ShutdownInv'
  <2>1. /\ AskedInTurn /\ completion = "pending" BY <1>2 DEF ShutdownInv, Completed
  <2> QED BY <1>f, <1>2, <2>1, DisposalBegins DEF EndQuiesce, AskedInTurn
<1>3. ASSUME state = "QUIESCING",
             \/ QuiesceNext(shutdown.finished \cup {shutdown.at},
                            shutdown.unfinished)
             \/ QuiesceNext(shutdown.finished,
                            shutdown.unfinished \cup {shutdown.at})
      PROVE  ShutdownInv'
  BY <1>f, <1>3, QuiesceNextShutdown
<1> QED BY <1>1, <1>2, <1>3 DEF QuiesceOutcome

LEMMA QuiesceShutdown ==
  ASSUME TypeInv, ShutdownInv, QuiesceStep
  PROVE  ShutdownInv'
<1>1. shutdown.pc # "none" /\ state # "DISPOSING" /\ UNCHANGED quiesceFrame
  BY DEF QuiesceStep, QuiesceHookReturn, QuiescePoll, AtFrame, Unwound
<1>2. CASE QuiesceOutcome BY <1>1, <1>2, QuiesceOutcomeShutdown
<1>3. CASE /\ shutdown' = [shutdown EXCEPT !.pc = "wait"]
           /\ state = "QUIESCING"
           /\ UNCHANGED <<runtimeVars, cancelVars, disposal>>
  <2>1. shutdown \in ShutdownRecord BY <1>1 DEF TypeOK, ClosingTypeOK, NoShutdown
  <2>2. /\ shutdown'.finished = shutdown.finished
        /\ shutdown'.unfinished = shutdown.unfinished
        /\ shutdown'.at = shutdown.at /\ shutdown'.todo = shutdown.todo
    BY <1>3, <2>1 DEF ShutdownRecord
  <2> QED
    BY <1>1, <1>3, <2>2 DEF ShutdownInv, Completed, AskedInTurn, NoShutdownBefore,
       VerdictAccounts, Closing, quiesceFrame
<1> QED BY <1>2, <1>3 DEF QuiesceStep, QuiesceHookReturn, QuiescePoll

LEMMA ShutdownStep ==
  ASSUME TypeInv, ShutdownInv, [Next]_vars
  PROVE  ShutdownInv'
<1>c. ASSUME UNCHANGED <<state, moduleVars, shutdown, completion, lastResult,
                         published, disposal>>
      PROVE  ShutdownInv'
  BY <1>c DEF ShutdownInv, Completed, AskedInTurn, NoShutdownBefore, VerdictAccounts,
     ForcedUnfinished, CleanupPlan
<1>1. CASE DisposeCall BY <1>1, DisposalBegins DEF DisposeCall, ClaimCompletion
<1>2. CASE CancelShutdownToken BY <1>2, <1>c DEF CancelShutdownToken
<1>3. CASE Operation BY <1>1, <1>2, <1>3, OperationApart, ApartKeeps, ShutdownCallShutdown
<1>4. CASE \E c \in InitCalls : CallStep(c) BY <1>4, CallApart, ApartKeeps
<1>5. CASE \E t \in TransactionIds : RegistrationStep(t) BY <1>5, RegistrationApart, ApartKeeps
<1>6. CASE \E s \in ShutdownCalls : ShutdownResolve(s) BY <1>6, <1>c DEF ShutdownResolve
<1>7. CASE UNCHANGED vars BY <1>7, <1>c DEF vars, closeVars
<1> QED BY <1>3, <1>4, <1>5, <1>6, <1>7, CleanupShutdown, QuiesceShutdown DEF Next

\* The invariant behind the audit of a shutdown holds throughout.
THEOREM ShutdownInvariant == Spec => []ShutdownInv
<1>1. TypeInv /\ ShutdownInv /\ [Next]_vars => ShutdownInv' BY ShutdownStep
<1> QED BY InitShutdownInv, TypeInvariant, <1>1, PTL DEF Spec

\* The result a disposal publishes accounts for the modules, one result is
\* published, and a closed architecture has published it.
THEOREM ShutdownAudited == Spec => []ShutdownAudit
<1>1. ShutdownInv => ShutdownAudit BY DEF ShutdownInv, Completed, VerdictAccounts, ShutdownAudit
<1> QED BY <1>1, ShutdownInvariant, PTL

-----------------------------------------------------------------------------
(***************************************************************************)
(* Who owns the modules and in which order they are visited, for any       *)
(* number of modules, calls and dependencies and any nesting of            *)
(* registrations, settlements and disposals, provided that the injection   *)
(* hook of a replacement does not propose the replacement again (without   *)
(* that it is false: ReplaceTwice.cfg).                                    *)
(*                                                                         *)
(* First, no module is disposed twice: the claims of the disposal sessions *)
(* and the checks around them are enough.                                  *)
(*                                                                         *)
(* The second part sorts the steps of the architecture into kinds, by what *)
(* they do to modules, plans and passes, and proves kind by kind that no   *)
(* module is lost.                                                         *)
(*                                                                         *)
(* The third part goes on with these kinds: every stage runs in dependency *)
(* order over one plan, READY commits it whole, modules leave in the       *)
(* reverse order, an initialization starts from a clean architecture, and  *)
(* with all this the architecture implements its contract.  PlanInv says   *)
(* where the driver of this generation is: every module before the one it  *)
(* is at has completed the stage, no other one has.  BlockInv says what    *)
(* the stale write block counts.                                           *)
(***************************************************************************)

\* A module is registered under its own key only.
RegistryKeys ==
  \A k \in Keys : registry[k] # NoOne => KeyOf[registry[k]] = k

\* The plans hold registered modules; there is none before an initialization
\* and nothing is left after a settlement.
PlansRegistered == activePlan \cup buildingPlan \subseteq Registered

NothingPlanned == state = "NEW" => activePlan = {} /\ buildingPlan = {}

Emptied == state = "FAILED" /\ settlement.pc # "disposing" => Registered = {}

\* A registered module that is disposed is claimed, in a cleanup pass.
RegisteredClaimed ==
  \A i \in Registered : disposed[i] > 0 => i \in claims /\ CleaningUp

\* What a cleanup pass has still to walk and is disposed, is claimed.
PassClaimed ==
  /\ settlement.pc = "disposing" =>
       \A i \in settlement.todo : disposed[i] > 0 => i \in claims
  /\ state = "DISPOSING" =>
       \A i \in disposal.todo : disposed[i] > 0 => i \in claims

\* The candidate of an open register call that is disposed is claimed.
CandidateClaimed ==
  \A t \in OpenRegisters :
    disposed[registration[t].at] > 0 => registration[t].at \in claims

\* The candidate of a replace call belongs to that call alone.
Replacing(t) == registration[t].pc \in {"replace", "removing"}

ReplacementApart ==
  \A t \in TransactionIds : Replacing(t) =>
    LET i == registration[t].at IN
    /\ disposed[i] = 0
    /\ i \notin Registered
    /\ settlement.pc = "disposing" => i \notin settlement.todo
    /\ state = "DISPOSING" => i \notin disposal.todo
    /\ \A u \in TransactionIds \ {t} :
         registration[u].pc # "none" /\ registration[u].at = i => u < t

\* A call that registers or replaces holds its transaction open.
HeldOpen ==
  \A t \in TransactionIds :
    transactions[t].open <=> registration[t].pc # "none"

OwnerInv ==
  /\ RegistryKeys
  /\ PlansRegistered
  /\ NothingPlanned
  /\ Emptied
  /\ RegisteredClaimed
  /\ PassClaimed
  /\ CandidateClaimed
  /\ ReplacementApart
  /\ HeldOpen
  /\ DisposedAtMostOnce

\* Most steps move no module and no claim: they may begin a cleanup pass,
\* end the notifications of a settlement, and change the lifecycle state.
PassesMove ==
  /\ \/ UNCHANGED settlement
     \/ /\ settlement.pc # "disposing"
        /\ settlement' = [pc |-> "disposing", todo |-> CleanupSet]
     \/ /\ settlement.pc = "emitting"
        /\ settlement' = [pc |-> "off", todo |-> {}]
  /\ \/ UNCHANGED disposal /\ (state' = "DISPOSING" <=> state = "DISPOSING")
     \/ state # "DISPOSING" /\ disposal'.todo = CleanupSet
  /\ state' = "NEW" =>
       state = "NEW" \/ (state = "FAILED" /\ settlement.pc # "disposing")
  /\ state' = "FAILED" => state = "FAILED" \/ settlement'.pc = "disposing"
  /\ \A t \in TransactionIds : transactions'[t].open = transactions[t].open

USE DEF OwnerInv

LEMMA Quiet ==
  ASSUME TypeInv, OwnerInv, PassesMove,
         UNCHANGED <<registry, claims, disposed, registration>>,
         activePlan' \cup buildingPlan' \subseteq Registered,
         state' = "NEW" => UNCHANGED <<activePlan, buildingPlan>>
  PROVE  OwnerInv'
<1>r. Registered' = Registered BY DEF Registered
<1>c. CleanupSet \subseteq Registered BY DEF PlansRegistered, CleanupSet, CleanupPlan
<1>1. RegistryKeys' /\ DisposedAtMostOnce' BY DEF RegistryKeys, DisposedAtMostOnce
<1>2. PlansRegistered' BY <1>r DEF PlansRegistered
<1>3. NothingPlanned' BY DEF NothingPlanned, PlansRegistered, Emptied, PassesMove
<1>4. Emptied' BY <1>r DEF Emptied, PassesMove
<1>5. RegisteredClaimed'
  <2>1. CleaningUp => CleaningUp' BY DEF PassesMove, CleaningUp
  <2> QED BY <1>r, <2>1 DEF RegisteredClaimed
<1>6. PassClaimed'
  <2>1. \A i \in CleanupSet : disposed[i] > 0 => i \in claims BY <1>c DEF RegisteredClaimed
  <2> QED BY <2>1 DEF PassClaimed, PassesMove
<1>7. CandidateClaimed' BY DEF CandidateClaimed, OpenRegisters
<1>8. ReplacementApart' BY <1>r, <1>c DEF ReplacementApart, Replacing, PassesMove
<1>9. HeldOpen' BY DEF HeldOpen, PassesMove
<1> QED BY <1>1, <1>2, <1>3, <1>4, <1>5, <1>6, <1>7, <1>8, <1>9

LEMMA SamePasses ==
  ASSUME UNCHANGED <<settlement, disposal, state, transactions>>
  PROVE  PassesMove
BY DEF PassesMove

LEMMA FailPasses ==
  ASSUME TypeInv, NEW g, Fail(g), UNCHANGED disposal
  PROVE  PassesMove /\ (state' = "NEW" => state = "NEW")
<1>1. CASE FailInitialization(g) /\ StartSettlement
  <2>1. settlement.pc # "disposing" /\ state # "DISPOSING"
    BY <1>1 DEF SettlementState, Settling, FailInitialization, CanFail
  <2>2. \A t \in TransactionIds : transactions'[t].open = transactions[t].open
    BY <1>1 DEF FailInitialization, MarkTransactionsFailed, TypeOK, RuntimeTypeOK,
       Transaction
  <2> QED
    BY <1>1, <2>1, <2>2
       DEF PassesMove, FailInitialization, StartSettlement
<1>2. CASE UNCHANGED failVars BY <1>2, SamePasses
<1> QED BY <1>1, <1>2 DEF Fail

LEMMA StartDisposalPasses ==
  ASSUME TypeInv, NEW v, NEW f, NEW u, StartDisposal(v, f, u),
         UNCHANGED settlement
  PROVE  PassesMove /\ state' = "DISPOSING"
<1>1. \A t \in TransactionIds : transactions'[t].open = transactions[t].open
  BY DEF StartDisposal, BeginDispose, TypeOK, RuntimeTypeOK, Transaction
<1> QED BY <1>1 DEF PassesMove, StartDisposal, BeginDispose

\* The driver of this generation walks the plan in progress.
LEMMA ProceedOwner ==
  ASSUME TypeInv, OwnerInv, NEW c \in InitCalls, Driving(c), ~Stale(c),
         NEW plan, plan \subseteq Registered, NEW st, Proceed(c, plan, st),
         UNCHANGED <<registry, initFrame>>
  PROVE  OwnerInv'
<1> USE DEF initFrame, closeVars, sessionVars, ownerVars
<1>p. activePlan \cup buildingPlan \subseteq Registered BY DEF PlansRegistered
<1>s. state \in {"INITIALIZING", "ACTIVATING"} BY DEF DriverInv, DriverState, Driving
<1>1. PassesMove /\ state' # "NEW"
  <2>1. CASE Fail(initCall[c].gen) BY <1>s, <2>1, FailPasses
  <2>2. CASE UNCHANGED <<settlement, transactions>>
             /\ state' \in {state, "ACTIVATING", "READY"}
    BY <1>s, <2>2 DEF PassesMove
  <2> QED BY <2>1, <2>2 DEF Proceed, BeginActivation, ActivateNothing
<1>2. activePlan' \cup buildingPlan' \subseteq Registered BY <1>p DEF Proceed
<1> QED BY <1>1, <1>2, Quiet

LEMMA FailStepOwner ==
  ASSUME TypeInv, OwnerInv, NEW c \in InitCalls, FailStep(c),
         UNCHANGED initFrame
  PROVE  OwnerInv'
BY FailPasses, Quiet DEF FailStep, initFrame, closeVars, sessionVars, ownerVars,
   PlansRegistered

LEMMA ActivationOutcomeOwner ==
  ASSUME TypeInv, OwnerInv, NEW c \in InitCalls,
         initCall[c].pc \in InActivation, ActivationOutcome(c),
         UNCHANGED initFrame
  PROVE  OwnerInv'
<1> USE DEF initFrame, closeVars, sessionVars, ownerVars, moduleVars
<1>p. activePlan \cup buildingPlan \subseteq Registered BY DEF PlansRegistered
<1>1. CASE CancelMemberScope(c)
  <2>1. PassesMove BY <1>1, FailPasses, SamePasses DEF CancelMemberScope
  <2> QED BY <1>p, <1>1, <2>1, Quiet DEF CancelMemberScope
<1>2. CASE FailStep(c) BY <1>2, FailStepOwner
<1>3. CASE ~Stale(c) /\ Activated(c) /\ UNCHANGED registry
  <2>1. state = "ACTIVATING" BY <1>3 DEF DriverInv, DriverState
  <2>2. PassesMove /\ state' # "NEW" BY <1>3, <2>1 DEF Activated, PassesMove, FinishActivation
  <2>3. activePlan' \cup buildingPlan' \subseteq Registered BY <1>p, <1>3 DEF Activated
  <2> QED BY <1>3, <2>2, <2>3, Quiet
<1> QED BY <1>1, <1>2, <1>3 DEF ActivationOutcome

\* The registry when a module is removed from it and when one is put into it
LEMMA Removed ==
  ASSUME TypeInv, RegistryKeys, NEW k \in Keys, registry[k] # NoOne,
         registry' = [registry EXCEPT ![k] = NoOne]
  PROVE  RegistryKeys' /\ Registered' = Registered \ {registry[k]}
<1>1. \A j \in Keys : registry'[j] = IF j = k THEN NoOne ELSE registry[j]
  BY DEF TypeOK, ModuleTypeOK
<1>2. RegistryKeys' BY <1>1 DEF RegistryKeys
<1>3. \A j \in Keys : registry[j] = registry[k] => j = k BY DEF RegistryKeys
<1> QED BY <1>1, <1>2, <1>3 DEF Registered

LEMMA Added ==
  ASSUME TypeInv, RegistryKeys, NEW i \in Instances, Commit(i),
         registry[KeyOf[i]] = NoOne
  PROVE  RegistryKeys' /\ Registered' = Registered \cup {i}
<1>0. KeyOf[i] \in Keys /\ i # NoOne BY InstancesAssumption, CallsAssumption
<1>1. \A j \in Keys : registry'[j] = IF j = KeyOf[i] THEN i ELSE registry[j]
  BY DEF Commit, TypeOK, ModuleTypeOK
<1>2. RegistryKeys' BY <1>1 DEF RegistryKeys
<1> QED BY <1>0, <1>1, <1>2 DEF Registered

\* While the architecture is assembled, and whenever no cleanup pass is on the
\* stack, what is registered is not disposed.
LEMMA Assembling ==
  ASSUME TypeInv, OwnerInv, state = "NEW" \/ Unwound
  PROVE  ~CleaningUp /\ \A i \in Registered : disposed[i] = 0
<1>1. ~CleaningUp BY DEF SettlementState, Settling, Unwound, CleaningUp
<1>2. \A i \in Registered : disposed[i] \in Nat /\ ~(disposed[i] > 0)
  BY <1>1 DEF RegisteredClaimed, Registered, TypeOK, ModuleTypeOK, OwnerTypeOK
<1> QED BY <1>1, <1>2

LEMMA RegisterBeginOwner ==
  ASSUME TypeInv, OwnerInv, NEW t \in TransactionIds, NEW i \in Instances,
         ~SelfRegistering, RegisterBegin(t, i)
  PROVE  OwnerInv'
<1> USE DEF RegisterBegin, moduleVars, sessionVars, closeVars
<1>n. state = "NEW" /\ UNCHANGED state
  BY DEF MayRegister, CanMutateRegistration, BeginTransaction
<1>c. ~CleaningUp /\ ~CleaningUp' BY <1>n, Assembling DEF CleaningUp
<1>r. Registered' = Registered BY DEF Registered
<1>g. \A u \in TransactionIds : registration'[u] =
        IF u = t THEN [pc |-> "register", at |-> i, previous |-> NoOne]
                 ELSE registration[u]
  BY DEF TypeOK, OwnerTypeOK
<1>d. disposed[i] = 0
        /\ \A u \in TransactionIds : Replacing(u) => registration[u].at # i
  BY DEF MayPropose, Replacing
<1>1. /\ RegistryKeys' /\ PlansRegistered' /\ NothingPlanned' /\ Emptied'
      /\ RegisteredClaimed' /\ PassClaimed' /\ DisposedAtMostOnce'
  BY <1>n, <1>c, <1>r DEF RegistryKeys, PlansRegistered, NothingPlanned, Emptied,
     RegisteredClaimed, PassClaimed, CleaningUp, DisposedAtMostOnce
<1>2. CandidateClaimed' BY <1>g, <1>d DEF CandidateClaimed, OpenRegisters
<1>3. ReplacementApart' BY <1>n, <1>r, <1>g, <1>d DEF ReplacementApart, Replacing
<1>4. HeldOpen'
  BY <1>g DEF HeldOpen, BeginTransaction, TypeOK, RuntimeTypeOK, Transaction, NoTransaction
<1> QED BY <1>1, <1>2, <1>3, <1>4

LEMMA ReplaceBeginOwner ==
  ASSUME TypeInv, OwnerInv, NEW t \in TransactionIds, NEW i \in Instances,
         ~SelfRegistering, ReplaceBegin(t, i)
  PROVE  OwnerInv'
<1> USE DEF ReplaceBegin, moduleVars, sessionVars, closeVars
<1>n. state = "NEW" /\ UNCHANGED state
  BY DEF MayRegister, CanMutateRegistration, BeginTransaction
<1>c. ~CleaningUp /\ ~CleaningUp' BY <1>n, Assembling DEF CleaningUp
<1>r. Registered' = Registered BY DEF Registered
<1>g. \A u \in TransactionIds : registration'[u] =
        IF u = t THEN [pc |-> "replace", at |-> i,
                       previous |-> registry[KeyOf[i]]]
                 ELSE registration[u]
  BY DEF TypeOK, OwnerTypeOK
<1>d. /\ disposed[i] = 0 /\ i \notin Registered
      /\ \A u \in TransactionIds : Replacing(u) => registration[u].at # i
  BY DEF MayPropose, Replacing
<1>u. \A u \in TransactionIds : registration[u].pc # "none" => u < t BY DEF Nests, HeldOpen
<1>1. /\ RegistryKeys' /\ PlansRegistered' /\ NothingPlanned' /\ Emptied'
      /\ RegisteredClaimed' /\ PassClaimed' /\ DisposedAtMostOnce'
  BY <1>n, <1>c, <1>r DEF RegistryKeys, PlansRegistered, NothingPlanned, Emptied,
     RegisteredClaimed, PassClaimed, CleaningUp, DisposedAtMostOnce
<1>2. CandidateClaimed' BY <1>g DEF CandidateClaimed, OpenRegisters
<1>3. ReplacementApart'
  <2> SUFFICES ASSUME NEW v \in TransactionIds, Replacing(v)'
               PROVE  LET j == registration[v].at IN
                      (/\ disposed[j] = 0
                       /\ j \notin Registered
                       /\ settlement.pc = "disposing" => j \notin settlement.todo
                       /\ state = "DISPOSING" => j \notin disposal.todo
                       /\ \A u \in TransactionIds \ {v} :
                            registration[u].pc # "none"
                            /\ registration[u].at = j => u < v)'
    BY DEF ReplacementApart
  <2>1. CASE v = t BY <1>n, <1>c, <1>r, <1>g, <1>d, <1>u, <2>1 DEF CleaningUp
  <2>2. CASE v # t BY <1>n, <1>r, <1>g, <1>d, <2>2 DEF ReplacementApart, Replacing
  <2> QED BY <2>1, <2>2
<1>4. HeldOpen'
  BY <1>g DEF HeldOpen, BeginTransaction, TypeOK, RuntimeTypeOK, Transaction, NoTransaction
<1> QED BY <1>1, <1>2, <1>3, <1>4

\* The end of a register or replace call
LEMMA Closed ==
  ASSUME TypeInv, OwnerInv, NEW t \in TransactionIds, FinishTransaction(t),
         registration' = [registration EXCEPT ![t] = NoRegistration]
  PROVE  /\ HeldOpen'
         /\ OpenRegisters' = OpenRegisters \ {t}
         /\ \A u \in TransactionIds :
              registration'[u] = IF u = t THEN NoRegistration
                                         ELSE registration[u]
         /\ UNCHANGED <<state, generation>>
<1>1. \A u \in TransactionIds :
        registration'[u] = IF u = t THEN NoRegistration ELSE registration[u]
  BY DEF TypeOK, OwnerTypeOK
<1>2. \A u \in TransactionIds :
        transactions'[u] = IF u = t THEN NoTransaction ELSE transactions[u]
  BY DEF TypeOK, RuntimeTypeOK, FinishTransaction
<1>3. HeldOpen' BY <1>1, <1>2 DEF HeldOpen, NoTransaction, NoRegistration
<1>4. OpenRegisters' = OpenRegisters \ {t} BY <1>1 DEF OpenRegisters, NoRegistration
<1> QED BY <1>1, <1>3, <1>4 DEF FinishTransaction

\* A candidate is an instance, and the innermost call replaces it alone.
LEMMA Candidate ==
  ASSUME TypeInv, NEW t \in TransactionIds, registration[t].pc # "none"
  PROVE  registration[t].at \in Instances
<1>1. registration[t] \in RegistrationRecord BY DEF TypeOK, OwnerTypeOK, NoRegistration
<1> QED BY <1>1 DEF RegistrationRecord

LEMMA Innermost ==
  ASSUME TypeInv, OwnerInv, NEW t \in TransactionIds, HooksReturned(t),
         registration[t].pc # "none"
  PROVE  \A u \in TransactionIds \ {t} :
           Replacing(u) => registration[u].at # registration[t].at
<1> SUFFICES ASSUME NEW u \in TransactionIds \ {t}, Replacing(u),
                    registration[u].at = registration[t].at
             PROVE  FALSE
  OBVIOUS
<1>1. t < u BY DEF ReplacementApart
<1>2. u <= t BY DEF HeldOpen, HooksReturned, Replacing
<1> QED BY <1>1, <1>2, CallsAssumption

LEMMA RegisterEndOwner ==
  ASSUME TypeInv, OwnerInv, NEW t \in TransactionIds, RegisterEnd(t)
  PROVE  OwnerInv'
<1> USE DEF closeVars
<1> DEFINE i == registration[t].at
           commits == /\ i \notin claims
                      /\ ~IsTransactionInvalidated(t)
                      /\ CanMutateRegistration
                      /\ registry[KeyOf[i]] = NoOne
           refused == ~commits /\ i \notin Registered
<1>t. registration[t].pc = "register" /\ t \in OpenRegisters /\ i \in Instances
  BY Candidate DEF RegisterEnd, OpenRegisters
<1>u. ~CleaningUp /\ \A j \in Registered : disposed[j] = 0
  BY Assembling DEF RegisterEnd, HooksReturned
<1>f. /\ HeldOpen'
      /\ OpenRegisters' = OpenRegisters \ {t}
      /\ \A u \in TransactionIds :
           registration'[u] = IF u = t THEN NoRegistration
                                       ELSE registration[u]
      /\ UNCHANGED <<state, generation>>
  BY Closed DEF RegisterEnd
<1>d. \A j \in Instances : disposed[j] \in Nat /\ disposed'[j] =
        IF j = i /\ refused /\ i \notin claims THEN disposed[j] + 1
                                               ELSE disposed[j]
  BY <1>t DEF RegisterEnd, TypeOK, OwnerTypeOK
<1>z. i \notin claims => disposed[i] = 0 BY <1>t, <1>d DEF CandidateClaimed
<1>c. claims' = IF OpenRegisters' # {}
                THEN IF refused THEN claims \cup {i} ELSE claims
                ELSE {}
  BY <1>f DEF RegisterEnd, EndSession
<1>r. /\ RegistryKeys'
      /\ Registered' = IF commits THEN Registered \cup {i} ELSE Registered
  <2>1. CASE commits
    <3>1. Commit(i) /\ registry[KeyOf[i]] = NoOne BY <2>1 DEF RegisterEnd
    <3> QED BY <2>1, <3>1, <1>t, Added
  <2>2. CASE ~commits
    <3>1. UNCHANGED registry BY <2>2 DEF RegisterEnd
    <3> QED BY <2>2, <3>1 DEF RegistryKeys, Registered
  <2> QED BY <2>1, <2>2
<1>n. UNCHANGED <<activePlan, buildingPlan, settlement, disposal>>
        /\ (commits => state = "NEW")
  BY DEF RegisterEnd, CanMutateRegistration
<1>k. ~CleaningUp' BY <1>u, <1>f, <1>n DEF CleaningUp
<1> HIDE DEF commits, refused
<1>1. PlansRegistered' /\ NothingPlanned' /\ Emptied'
  BY <1>f, <1>r, <1>n DEF PlansRegistered, NothingPlanned, Emptied
<1>2. \A j \in Registered' : disposed'[j] = 0
  <2>1. Registered \subseteq Instances BY DEF Registered, TypeOK, ModuleTypeOK
  <2>2. commits => i \notin claims /\ ~refused BY DEF commits, refused
  <2>3. refused => i \notin Registered BY DEF refused
  <2> QED BY <1>t, <1>u, <1>d, <1>z, <1>r, <2>1, <2>2, <2>3
<1>3. RegisteredClaimed' /\ PassClaimed'
  BY <1>2, <1>k DEF RegisteredClaimed, PassClaimed, CleaningUp
<1>4. CandidateClaimed'
  <2> SUFFICES ASSUME NEW u \in OpenRegisters',
                      disposed'[registration[u].at] > 0
               PROVE  registration[u].at \in claims'
    BY <1>f DEF CandidateClaimed, OpenRegisters
  <2>1. u \in OpenRegisters /\ registration[u].at \in Instances
    BY <1>f, Candidate DEF OpenRegisters
  <2>2. disposed[registration[u].at] > 0 => registration[u].at \in claims
    BY <2>1 DEF CandidateClaimed
  <2> QED BY <1>d, <1>c, <2>1, <2>2
<1>5. ReplacementApart'
  <2>1. \A u \in TransactionIds :
          Replacing(u)' => u # t /\ Replacing(u)
                          /\ registration'[u] = registration[u]
    BY <1>f DEF Replacing, NoRegistration
  <2>2. \A u \in TransactionIds : Replacing(u) => registration[u].at # i
    BY <1>t, Innermost DEF RegisterEnd, Replacing
  <2>3. \A u \in TransactionIds : Replacing(u) =>
          registration[u].at \in Instances
    BY Candidate DEF Replacing
  <2> SUFFICES ASSUME NEW v \in TransactionIds, Replacing(v)'
               PROVE  LET j == registration[v].at IN
                      /\ disposed'[j] = 0
                      /\ j \notin Registered'
                      /\ \A u \in TransactionIds \ {v} :
                           registration'[u].pc # "none"
                           /\ registration'[u].at = j => u < v
    BY <1>k, <2>1 DEF ReplacementApart, CleaningUp
  <2>4. disposed[registration[v].at] = 0 /\ registration[v].at \notin Registered
    BY <2>1 DEF ReplacementApart
  <2>5. \A u \in TransactionIds \ {v} :
          registration[u].pc # "none"
          /\ registration[u].at = registration[v].at => u < v
    BY <2>1 DEF ReplacementApart
  <2> QED BY <1>d, <1>r, <1>f, <2>1, <2>2, <2>3, <2>4, <2>5 DEF NoRegistration
<1>6. DisposedAtMostOnce' BY <1>d, <1>z DEF DisposedAtMostOnce
<1> QED BY <1>f, <1>r, <1>1, <1>3, <1>4, <1>5, <1>6

LEMMA ReplaceSettleOwner ==
  ASSUME TypeInv, OwnerInv, NEW t \in TransactionIds, Replacing(t),
         HooksReturned(t), NEW commits \in BOOLEAN, ReplaceSettle(t, commits),
         UNCHANGED replaceFrame,
         commits => /\ state = "NEW"
                    /\ registry[KeyOf[registration[t].at]] = NoOne
  PROVE  OwnerInv'
<1> USE DEF replaceFrame, closeVars
<1> DEFINE i == registration[t].at
<1>t. i \in Instances /\ disposed[i] = 0 /\ i \notin Registered
        /\ t \notin OpenRegisters
  BY Candidate DEF Replacing, ReplacementApart, OpenRegisters
<1>u. ~CleaningUp /\ \A j \in Registered : disposed[j] = 0 BY Assembling DEF HooksReturned
<1>f. /\ HeldOpen'
      /\ OpenRegisters' = OpenRegisters
      /\ \A u \in TransactionIds :
           registration'[u] = IF u = t THEN NoRegistration
                                       ELSE registration[u]
      /\ UNCHANGED <<state, generation>>
  BY <1>t, Closed DEF ReplaceSettle
<1>d. /\ \A j \in Instances : disposed[j] \in Nat /\ disposed'[j] =
           IF j = i /\ ~commits THEN IF SessionOpen /\ i \in claims
                                     THEN 0 ELSE 1
                                ELSE disposed[j]
      /\ claims \subseteq claims'
      /\ ~commits /\ OpenRegisters # {} => i \in claims'
  BY <1>t DEF ReplaceSettle, DisposeOnce, SessionOpen, sessionVars, TypeOK, OwnerTypeOK
<1>r. /\ RegistryKeys'
      /\ Registered' = IF commits THEN Registered \cup {i} ELSE Registered
  <2>1. CASE commits BY <2>1, <1>t, Added DEF ReplaceSettle
  <2>2. CASE ~commits BY <2>2 DEF RegistryKeys, Registered, ReplaceSettle
  <2> QED BY <2>1, <2>2
<1>n. UNCHANGED <<activePlan, buildingPlan, settlement, disposal>> OBVIOUS
<1>k. ~CleaningUp' BY <1>u, <1>f, <1>n DEF CleaningUp
<1>1. PlansRegistered' /\ NothingPlanned' /\ Emptied'
  BY <1>f, <1>r, <1>n DEF PlansRegistered, NothingPlanned, Emptied
<1>2. \A j \in Registered' : disposed'[j] = 0
  <2>1. Registered \subseteq Instances BY DEF Registered, TypeOK, ModuleTypeOK
  <2> QED BY <1>t, <1>u, <1>d, <1>r, <2>1
<1>3. RegisteredClaimed' /\ PassClaimed'
  BY <1>2, <1>k DEF RegisteredClaimed, PassClaimed, CleaningUp
<1>4. CandidateClaimed'
  <2> SUFFICES ASSUME NEW u \in OpenRegisters,
                      disposed'[registration[u].at] > 0
               PROVE  registration[u].at \in claims'
    BY <1>f, <1>t DEF CandidateClaimed, OpenRegisters
  <2>1. registration[u].at \in Instances BY Candidate DEF OpenRegisters
  <2>2. disposed[registration[u].at] > 0 => registration[u].at \in claims
    BY DEF CandidateClaimed
  <2> QED BY <1>d, <2>1, <2>2
<1>5. ReplacementApart'
  <2>1. \A u \in TransactionIds :
          Replacing(u)' => u # t /\ Replacing(u)
                          /\ registration'[u] = registration[u]
    BY <1>f DEF Replacing, NoRegistration
  <2>2. \A u \in TransactionIds \ {t} :
          Replacing(u) => registration[u].at # i
    BY Innermost DEF Replacing
  <2>3. \A u \in TransactionIds : Replacing(u) =>
          registration[u].at \in Instances
    BY Candidate DEF Replacing
  <2> SUFFICES ASSUME NEW v \in TransactionIds, Replacing(v)'
               PROVE  LET j == registration[v].at IN
                      /\ disposed'[j] = 0
                      /\ j \notin Registered'
                      /\ \A u \in TransactionIds \ {v} :
                           registration'[u].pc # "none"
                           /\ registration'[u].at = j => u < v
    BY <1>k, <2>1 DEF ReplacementApart, CleaningUp
  <2>4. disposed[registration[v].at] = 0 /\ registration[v].at \notin Registered
    BY <2>1 DEF ReplacementApart
  <2>5. \A u \in TransactionIds \ {v} :
          registration[u].pc # "none"
          /\ registration[u].at = registration[v].at => u < v
    BY <2>1 DEF ReplacementApart
  <2> QED BY <1>d, <1>r, <1>f, <2>1, <2>2, <2>3, <2>4, <2>5 DEF NoRegistration
<1>6. DisposedAtMostOnce' BY <1>d DEF DisposedAtMostOnce
<1> QED BY <1>f, <1>r, <1>1, <1>3, <1>4, <1>5, <1>6

\* A module is removed and disposed before the first initialization.
LEMMA RemoveOwner ==
  ASSUME TypeInv, OwnerInv, state = "NEW",
         NEW k \in Keys, registry[k] # NoOne,
         registry' = [registry EXCEPT ![k] = NoOne], DisposeOnce(registry[k]),
         UNCHANGED <<state, transactions, settlement, disposal, activePlan,
                     buildingPlan>>,
         \A u \in TransactionIds :
           /\ registration'[u].at = registration[u].at
           /\ \/ registration'[u].pc = registration[u].pc
              \/ Replacing(u) /\ registration'[u].pc = "removing"
  PROVE  OwnerInv'
<1> DEFINE p == registry[k]
<1>t. p \in Instances /\ p \in Registered BY DEF TypeOK, ModuleTypeOK, Registered
<1>u. ~CleaningUp /\ ~CleaningUp' /\ \A j \in Registered : disposed[j] = 0
  BY Assembling DEF CleaningUp
<1>r. RegistryKeys' /\ Registered' = Registered \ {p} BY Removed
<1>d. /\ \A j \in Instances : disposed[j] \in Nat /\ disposed'[j] =
           IF j = p THEN IF SessionOpen /\ p \in claims THEN 0 ELSE 1
                    ELSE disposed[j]
      /\ claims \subseteq claims'
      /\ OpenRegisters # {} => p \in claims'
  BY <1>t, <1>u DEF DisposeOnce, SessionOpen, TypeOK, OwnerTypeOK
<1>o. OpenRegisters' = OpenRegisters BY DEF OpenRegisters, Replacing
<1>1. PlansRegistered' /\ NothingPlanned' /\ Emptied'
  BY <1>r DEF PlansRegistered, NothingPlanned, Emptied
<1>2. RegisteredClaimed' /\ PassClaimed'
  <2>1. \A j \in Registered' : j \in Instances /\ disposed'[j] = 0
    BY <1>u, <1>r, <1>d DEF Registered, TypeOK, ModuleTypeOK
  <2> QED BY <1>u, <2>1 DEF RegisteredClaimed, PassClaimed, CleaningUp
<1>3. CandidateClaimed'
  <2> SUFFICES ASSUME NEW u \in OpenRegisters,
                      disposed'[registration[u].at] > 0
               PROVE  registration[u].at \in claims'
    BY <1>o DEF CandidateClaimed, OpenRegisters
  <2>1. registration[u].at \in Instances BY Candidate DEF OpenRegisters
  <2>2. disposed[registration[u].at] > 0 => registration[u].at \in claims
    BY DEF CandidateClaimed
  <2> QED BY <1>d, <2>1, <2>2
<1>4. ReplacementApart'
  <2>1. \A u \in TransactionIds :
          /\ Replacing(u)' <=> Replacing(u)
          /\ registration'[u].pc # "none" <=> registration[u].pc # "none"
    BY DEF Replacing
  <2>2. \A u \in TransactionIds : Replacing(u) =>
          registration[u].at \in Instances
    BY Candidate DEF Replacing
  <2> SUFFICES ASSUME NEW v \in TransactionIds, Replacing(v)
               PROVE  LET j == registration[v].at IN
                      /\ disposed'[j] = 0
                      /\ j \notin Registered'
                      /\ \A u \in TransactionIds \ {v} :
                           registration[u].pc # "none"
                           /\ registration[u].at = j => u < v
    BY <1>u, <2>1 DEF ReplacementApart, CleaningUp
  <2>3. disposed[registration[v].at] = 0 /\ registration[v].at \notin Registered
    BY DEF ReplacementApart
  <2>4. \A u \in TransactionIds \ {v} :
          registration[u].pc # "none"
          /\ registration[u].at = registration[v].at => u < v
    BY DEF ReplacementApart
  <2> QED BY <1>t, <1>d, <1>r, <2>2, <2>3, <2>4
<1>5. HeldOpen' BY DEF HeldOpen, Replacing
<1>6. DisposedAtMostOnce' BY <1>d DEF DisposedAtMostOnce
<1> QED BY <1>r, <1>1, <1>2, <1>3, <1>4, <1>5, <1>6

LEMMA ReplaceEndOwner ==
  ASSUME TypeInv, OwnerInv, NEW t \in TransactionIds, ReplaceEnd(t)
  PROVE  OwnerInv'
<1> DEFINE i == registration[t].at
           p == registration[t].previous
           valid == /\ ~IsTransactionInvalidated(t)
                    /\ CanMutateRegistration
                    /\ registry[KeyOf[i]] = p
                    /\ i \notin Registered
<1>t. Replacing(t) /\ HooksReturned(t) BY DEF ReplaceEnd, Replacing
<1>1. CASE (~valid \/ p = NoOne) /\ ReplaceSettle(t, valid)
  BY <1>1, <1>t, ReplaceSettleOwner DEF ReplaceEnd, CanMutateRegistration
<1>2. CASE /\ valid /\ p # NoOne
           /\ registry' = [registry EXCEPT ![KeyOf[i]] = NoOne]
           /\ DisposeOnce(p)
           /\ registration' = [registration EXCEPT ![t].pc = "removing"]
           /\ UNCHANGED <<runtimeVars, taken>>
  <2>1. KeyOf[i] \in Keys BY <1>t, Candidate, InstancesAssumption DEF Replacing
  <2>2. registration[t] \in RegistrationRecord
    BY <1>t DEF TypeOK, OwnerTypeOK, NoRegistration, Replacing
  <2>3. \A u \in TransactionIds : registration'[u] =
          IF u = t THEN [registration[t] EXCEPT !.pc = "removing"]
                   ELSE registration[u]
    BY <1>2 DEF TypeOK, OwnerTypeOK
  <2>4. \A u \in TransactionIds :
          /\ registration'[u].at = registration[u].at
          /\ \/ registration'[u].pc = registration[u].pc
             \/ Replacing(u) /\ registration'[u].pc = "removing"
    <3>1. /\ registration'[t].at = registration[t].at
          /\ registration'[t].pc = "removing"
      BY <2>2, <2>3 DEF RegistrationRecord
    <3>2. \A u \in TransactionIds \ {t} : registration'[u] = registration[u] BY <2>3
    <3> TAKE u \in TransactionIds
    <3>3. CASE u = t BY <1>t, <3>1, <3>3
    <3>4. CASE u # t BY <3>2, <3>4
    <3> QED BY <3>3, <3>4
  <2>5. UNCHANGED <<state, transactions, settlement, disposal, activePlan,
                    buildingPlan>>
    BY <1>2 DEF ReplaceEnd, replaceFrame
  <2> QED BY <1>2, <2>1, <2>4, <2>5, RemoveOwner DEF CanMutateRegistration
<1> QED BY <1>1, <1>2 DEF ReplaceEnd

LEMMA ReplaceCommitOwner ==
  ASSUME TypeInv, OwnerInv, NEW t \in TransactionIds, ReplaceCommit(t)
  PROVE  OwnerInv'
BY ReplaceSettleOwner DEF ReplaceCommit, Replacing, CanMutateRegistration

LEMMA UnregisterInactiveOwner ==
  ASSUME TypeInv, OwnerInv, NEW k \in Keys, UnregisterInactive(k)
  PROVE  OwnerInv'
<1>1. state = "NEW" /\ registry[k] # NoOne
        /\ registry' = [registry EXCEPT ![k] = NoOne]
        /\ DisposeOnce(registry[k])
  BY DEF UnregisterInactive, MayRegister, CanMutateRegistration
<1>2. UNCHANGED <<state, transactions, settlement, disposal, activePlan,
                  buildingPlan, registration>>
  BY DEF UnregisterInactive, ownerVars
<1>3. \A u \in TransactionIds :
        /\ registration'[u].at = registration[u].at
        /\ \/ registration'[u].pc = registration[u].pc
           \/ Replacing(u) /\ registration'[u].pc = "removing"
  BY <1>2
<1> QED BY <1>1, <1>2, <1>3, RemoveOwner

\* One dispose hook of a cleanup pass
LEMMA PassOwner ==
  ASSUME TypeInv, OwnerInv, NEW i \in Instances, DisposeOnce(i), i \notin claims,
         \/ settlement.pc = "disposing" /\ i \in settlement.todo
         \/ state = "DISPOSING" /\ i \in disposal.todo,
         UNCHANGED <<registry, activePlan, buildingPlan, state, transactions,
                     settlement, disposal, registration>>
  PROVE  OwnerInv'
<1>u. CleaningUp /\ CleaningUp' /\ SessionOpen BY DEF CleaningUp, SessionOpen
<1>z. disposed[i] = 0
  <2>1. disposed[i] \in Nat /\ ~(disposed[i] > 0) BY DEF PassClaimed, TypeOK, OwnerTypeOK
  <2> QED BY <2>1
<1>d. /\ \A j \in Instances : disposed[j] \in Nat
           /\ disposed'[j] = IF j = i THEN 1 ELSE disposed[j]
      /\ claims' = claims \cup {i}
  BY <1>u, <1>z DEF DisposeOnce, TypeOK, OwnerTypeOK
<1>r. Registered' = Registered /\ OpenRegisters' = OpenRegisters
  BY DEF Registered, OpenRegisters
<1>1. /\ RegistryKeys' /\ PlansRegistered' /\ NothingPlanned' /\ Emptied'
      /\ HeldOpen'
  BY <1>r DEF RegistryKeys, PlansRegistered, NothingPlanned, Emptied, HeldOpen
<1>2. RegisteredClaimed'
  <2>1. Registered \subseteq Instances BY DEF Registered, TypeOK, ModuleTypeOK
  <2> QED BY <1>u, <1>d, <1>r, <2>1 DEF RegisteredClaimed
<1>3. PassClaimed'
  <2>1. settlement.todo \subseteq Instances /\ disposal.todo \subseteq Instances
    BY DEF TypeOK, SettlementTypeOK, ClosingTypeOK
  <2> QED BY <1>d, <2>1 DEF PassClaimed
<1>4. CandidateClaimed'
  <2>1. \A u \in OpenRegisters : registration[u].at \in Instances BY Candidate DEF OpenRegisters
  <2>2. \A u \in OpenRegisters :
          disposed[registration[u].at] > 0 => registration[u].at \in claims
    BY DEF CandidateClaimed
  <2>3. \A u \in OpenRegisters :
          disposed'[registration[u].at] > 0 => registration[u].at \in claims'
    BY <1>d, <2>1, <2>2
  <2> QED BY <1>r, <2>3 DEF CandidateClaimed
<1>5. ReplacementApart'
  <2>1. \A u \in TransactionIds :
          Replacing(u) => registration[u].at \in Instances \ {i}
    BY Candidate DEF ReplacementApart, Replacing
  <2>2. \A u \in TransactionIds :
          Replacing(u) => disposed'[registration[u].at]
                            = disposed[registration[u].at]
    BY <1>d, <2>1
  <2> QED BY <1>r, <2>2 DEF ReplacementApart, Replacing
<1>6. DisposedAtMostOnce' BY <1>d DEF DisposedAtMostOnce
<1> QED BY <1>1, <1>2, <1>3, <1>4, <1>5, <1>6

\* The end of a cleanup pass
LEMMA ClearOwner ==
  ASSUME TypeInv, OwnerInv, Cleared, state' # "DISPOSING",
         settlement' = settlement \/ settlement'.pc = "emitting",
         \/ UNCHANGED claims
         \/ OpenRegisters = {} /\ settlement'.pc # "disposing",
         UNCHANGED <<transactions, disposed, registration>>
  PROVE  OwnerInv'
<1>r. Registered' = {} /\ OpenRegisters' = OpenRegisters
  BY DEF Cleared, Registered, OpenRegisters
<1>1. /\ RegistryKeys' /\ PlansRegistered' /\ NothingPlanned' /\ Emptied'
      /\ RegisteredClaimed'
  BY <1>r DEF RegistryKeys, PlansRegistered, NothingPlanned, Emptied,
     RegisteredClaimed, Cleared
<1>2. PassClaimed' /\ HeldOpen' /\ DisposedAtMostOnce'
  BY DEF PassClaimed, HeldOpen, DisposedAtMostOnce
<1>3. CandidateClaimed' BY <1>r DEF CandidateClaimed
<1>4. ReplacementApart' BY <1>r DEF ReplacementApart, Replacing
<1> QED BY <1>1, <1>2, <1>3, <1>4

LEMMA CleanupOwner ==
  ASSUME TypeInv, OwnerInv, CleanupStep
  PROVE  OwnerInv'
<1> USE DEF failVars, runtimeVars, moduleVars, closeVars, ownerVars,
            sessionVars, initFrame
<1>1. CASE \E i \in Instances : SettleDispose(i) BY <1>1, PassOwner DEF SettleDispose
<1>2. CASE \E i \in Instances : DisposeModule(i) BY <1>2, PassOwner DEF DisposeModule
<1>3. CASE SettleClear
  <2>1. settlement'.pc = "emitting" /\ state' # "DISPOSING" BY <1>3 DEF SettleClear
  <2> QED BY <1>3, <2>1, ClearOwner DEF SettleClear, EndSession
<1>4. CASE SettleEnd
  <2>1. PassesMove BY <1>4 DEF SettleEnd, PassesMove
  <2> QED BY <1>4, <2>1, Quiet DEF SettleEnd, PlansRegistered
<1>5. CASE FinishDisposal BY <1>5, ClearOwner DEF FinishDisposal, FinishDispose, EndSession
<1> QED BY <1>1, <1>2, <1>3, <1>4, <1>5 DEF CleanupStep

\* The steps of a call of init()
LEMMA CallOwner ==
  ASSUME TypeInv, OwnerInv, NEW c \in InitCalls, CallStep(c)
  PROVE  OwnerInv'
<1> USE DEF initFrame
<1>p. /\ activePlan \cup buildingPlan \subseteq Registered
      /\ buildingPlan \subseteq Registered
  BY DEF PlansRegistered
<1>s. ASSUME UNCHANGED <<failVars, moduleVars, initFrame>>
      PROVE  OwnerInv'
  BY <1>s, <1>p, SamePasses, Quiet DEF closeVars, ownerVars, sessionVars
<1>g. ASSUME GiveUp(c), UNCHANGED initFrame
      PROVE  OwnerInv'
  BY <1>g, <1>s DEF GiveUp
<1>1. CASE OnInitReturn(c)
  <2>1. CASE FailStep(c) BY <1>1, <2>1, FailStepOwner DEF OnInitReturn
  <2>2. CASE ~Stale(c) /\ Proceed(c, Registered, stage)
             /\ UNCHANGED registry
    BY <1>1, <2>2, ProceedOwner DEF OnInitReturn, Driving, InStages
  <2> QED BY <1>1, <1>s, <2>1, <2>2 DEF OnInitReturn
<1>2. CASE HookReturn(c) BY <1>2, <1>p, <1>g, ProceedOwner DEF HookReturn, Driving, InStages
<1>3. CASE AsyncStep(c)
  BY <1>3, <1>p, <1>g, ProceedOwner, FailStepOwner 
     DEF AsyncStep, Driving, InStages
<1>4. CASE ActHookReturn(c)
  BY <1>4, <1>s, FailStepOwner, ActivationOutcomeOwner
     DEF ActHookReturn, InActivation
<1>5. CASE ActPoll(c) BY <1>5, ActivationOutcomeOwner DEF ActPoll, InActivation
<1>6. CASE EmitReturn(c) \/ JoinResolve(c) BY <1>6, <1>s DEF EmitReturn, JoinResolve
<1> QED BY <1>1, <1>2, <1>3, <1>4, <1>5, <1>6 DEF CallStep

\* What the callers decide, but for registration
LEMMA OperationOwner ==
  ASSUME TypeInv, OwnerInv, ~SelfRegistering, Operation
  PROVE  OwnerInv'
<1> USE DEF initFrame, closeVars, ownerVars, sessionVars, moduleVars
<1>p. activePlan \cup buildingPlan \subseteq Registered BY DEF PlansRegistered
<1>s. ASSUME UNCHANGED <<runtimeVars, settlement, moduleVars, disposal,
                         sessionVars, registration>>
      PROVE  OwnerInv'
  BY <1>s, <1>p, SamePasses, Quiet
<1>d. ASSUME NEW v, NEW f, NEW u, StartDisposal(v, f, u),
             UNCHANGED <<settlement, moduleVars, sessionVars, registration>>
      PROVE  OwnerInv'
  BY <1>d, <1>p, StartDisposalPasses, Quiet
<1>1. CASE BeginProjectInstallers
  <2>1. PassesMove BY <1>1 DEF BeginProjectInstallers, ClearFailure, PassesMove, Settling
  <2> QED BY <1>1, <1>p, <2>1, Quiet DEF BeginProjectInstallers
<1>2. CASE MarkProjectInstallersApplied BY <1>2, <1>s DEF MarkProjectInstallersApplied
<1>3. CASE \E t \in TransactionIds, i \in Instances :
             RegisterBegin(t, i) \/ ReplaceBegin(t, i)
  BY <1>3, RegisterBeginOwner, ReplaceBeginOwner
<1>4. CASE \E k \in Keys : UnregisterInactive(k) BY <1>4, UnregisterInactiveOwner
<1>5. ASSUME NEW c \in InitCalls, InitCall(c)
      PROVE  OwnerInv'
  <2>1. CASE UNCHANGED failVars BY <1>5, <2>1, <1>s DEF InitCall
  <2>2. CASE ~Settling /\ BeginAndFailInitialization /\ StartSettlement
    <3>1. \A t \in TransactionIds : transactions'[t].open = transactions[t].open
      BY <2>2 DEF BeginAndFailInitialization, MarkTransactionsFailed, TypeOK, RuntimeTypeOK,
         Transaction
    <3>2. PassesMove
      BY <1>5, <2>2, <3>1 DEF InitCall, PassesMove, Settling, StartSettlement,
         BeginAndFailInitialization
    <3> QED BY <1>5, <1>p, <2>2, <3>2, Quiet DEF InitCall
  <2>3. CASE /\ BeginInitialization \/ RestartAfterFailure
             /\ UNCHANGED settlement
    <3>1. PassesMove /\ state' # "NEW"
      BY <1>5, <2>3 DEF InitCall, PassesMove, BeginInitialization,
         RestartAfterFailure
    <3> QED BY <1>5, <1>p, <2>3, <3>1, Quiet DEF InitCall
  <2> QED BY <1>5, <2>1, <2>2, <2>3 DEF InitCall
<1>6. CASE \E c \in InitCalls : CancelToken(c) BY <1>6, <1>s DEF CancelToken
<1>7. CASE \E i \in Instances : AsyncReturn(i) \/ AsyncSelfCancel(i)
  BY <1>7, <1>s DEF AsyncReturn, AsyncSelfCancel
<1>8. CASE PublicFail BY <1>8, <1>p, FailPasses, Quiet DEF PublicFail
<1>9. ASSUME NEW s \in ShutdownCalls, ShutdownCall(s)
      PROVE  OwnerInv'
  <2>1. CASE UNCHANGED <<runtimeVars, disposal>> BY <1>9, <2>1, <1>s DEF ShutdownCall
  <2>2. CASE \E v, f, u : StartDisposal(v, f, u) BY <1>9, <2>2, <1>d DEF ShutdownCall
  <2>3. CASE BeginQuiesce /\ UNCHANGED disposal
    <3>1. PassesMove /\ state' # "NEW" BY <1>9, <2>3 DEF ShutdownCall, PassesMove, BeginQuiesce
    <3> QED BY <1>9, <1>p, <2>3, <3>1, Quiet DEF ShutdownCall
  <2> QED BY <1>9, <2>1, <2>2, <2>3 DEF ShutdownCall
<1>10. CASE CancelShutdownToken BY <1>10, <1>s DEF CancelShutdownToken
<1>11. CASE DisposeCall BY <1>11, <1>d DEF DisposeCall
<1> QED
  BY <1>1, <1>2, <1>3, <1>4, <1>5, <1>6, <1>7, <1>8, <1>9, <1>10, <1>11
     DEF Operation

LEMMA QuiesceOwner ==
  ASSUME TypeInv, OwnerInv, QuiesceStep
  PROVE  OwnerInv'
<1> USE DEF quiesceFrame, shutdownFrame, ownerVars, sessionVars, moduleVars
<1>p. activePlan \cup buildingPlan \subseteq Registered BY DEF PlansRegistered
<1>f. UNCHANGED <<settlement, moduleVars, sessionVars, registration>>
  BY DEF QuiesceStep, QuiesceHookReturn, QuiescePoll
<1>1. CASE UNCHANGED <<runtimeVars, disposal>> BY <1>p, <1>f, <1>1, SamePasses, Quiet
<1>2. CASE \E v, f, u : StartDisposal(v, f, u) BY <1>p, <1>f, <1>2, StartDisposalPasses, Quiet
<1>3. ASSUME NEW f, NEW u, QuiesceNext(f, u)
      PROVE  UNCHANGED <<runtimeVars, disposal>>
             \/ \E v, g, w : StartDisposal(v, g, w)
  BY <1>3 DEF QuiesceNext, EndQuiesce
<1>4. QuiesceOutcome => UNCHANGED <<runtimeVars, disposal>>
                        \/ \E v, g, w : StartDisposal(v, g, w)
  BY <1>3 DEF QuiesceOutcome, EndQuiesce
<1> QED BY <1>1, <1>2, <1>4 DEF QuiesceStep, QuiesceHookReturn, QuiescePoll

LEMMA InitOwnerInv == Init => OwnerInv
<1> SUFFICES ASSUME Init PROVE OwnerInv OBVIOUS
<1>1. Registered = {} /\ OpenRegisters = {}
  BY DEF Init, Registered, OpenRegisters, NoRegistration
<1>2. \A t \in TransactionIds :
        ~transactions[t].open /\ registration[t].pc = "none"
  BY DEF Init, RuntimeInit, NoTransaction, NoRegistration
<1>3. RegistryKeys /\ PlansRegistered /\ NothingPlanned /\ Emptied
  BY <1>1 DEF Init, RegistryKeys, PlansRegistered, NothingPlanned, Emptied
<1>4. RegisteredClaimed /\ PassClaimed /\ CandidateClaimed
  BY <1>1 DEF Init, RuntimeInit, RegisteredClaimed, PassClaimed,
     CandidateClaimed
<1>5. ReplacementApart /\ HeldOpen /\ DisposedAtMostOnce
  BY <1>2 DEF Init, ReplacementApart, Replacing, HeldOpen, DisposedAtMostOnce
<1> QED BY <1>3, <1>4, <1>5

LEMMA OwnerStep ==
  ASSUME TypeInv, OwnerInv, ~SelfRegistering, [Next]_vars
  PROVE  OwnerInv'
<1>1. CASE Operation BY <1>1, OperationOwner
<1>2. CASE \E c \in InitCalls : CallStep(c) BY <1>2, CallOwner
<1>3. CASE \E t \in TransactionIds : RegistrationStep(t)
  BY <1>3, RegisterEndOwner, ReplaceEndOwner, ReplaceCommitOwner
     DEF RegistrationStep
<1>4. CASE CleanupStep BY <1>4, CleanupOwner
<1>5. CASE QuiesceStep BY <1>5, QuiesceOwner
<1>6. CASE UNCHANGED <<runtimeVars, settlement, moduleVars, disposal,
                       sessionVars, registration>>
  BY <1>6, SamePasses, Quiet DEF PlansRegistered, sessionVars
<1>7. CASE \E s \in ShutdownCalls : ShutdownResolve(s)
  BY <1>7, <1>6 DEF ShutdownResolve, ownerVars
<1>8. CASE UNCHANGED vars BY <1>8, <1>6 DEF vars, ownerVars
<1> QED BY <1>1, <1>2, <1>3, <1>4, <1>5, <1>7, <1>8 DEF Next

\* OwnerInv holds throughout when candidates do not propose themselves again.
THEOREM OwnerInvariant ==
  ASSUME ~SelfRegistering
  PROVE  Spec => []OwnerInv
<1>1. TypeInv /\ OwnerInv /\ [Next]_vars => OwnerInv' BY OwnerStep
<1> QED BY InitOwnerInv, TypeInvariant, <1>1, PTL DEF Spec

\* No module is disposed twice, whichever registrations, settlements and
\* disposals are nested in each other's hooks (_module_disposal_claims).
THEOREM DisposedOnce ==
  ASSUME ~SelfRegistering
  PROVE  Spec => []DisposedAtMostOnce
<1>1. OwnerInv => DisposedAtMostOnce OBVIOUS
<1> QED BY OwnerInvariant, <1>1, PTL

-----------------------------------------------------------------------------
\* What a step may be

stillVars == <<registry, stage, activePlan, buildingPlan, activationScope,
               disposal, claims, disposed, taken>>

\* No call begins or resumes to drive an initialization.
NoNewDriver ==
  \A d \in InitCalls : initCall'[d] = initCall[d] \/ ~Driving(d)'

Still == UNCHANGED <<stillVars, state, generation, settlement>> /\ NoNewDriver

\* The driver of this generation takes a step.
Drives(c) == Driving(c) /\ ~Stale(c) /\ CallStep(c)

Recovers ==
  /\ state = "FAILED" /\ ~Settling /\ staleBlocks = 0
  /\ state' = "NEW"
  /\ UNCHANGED <<stillVars, generation, settlement, initCall>>

Starts(c) ==
  /\ ~Settling
  /\ state = "NEW" \/ (state = "FAILED" /\ staleBlocks = 0)
  /\ state' = "INITIALIZING" /\ generation' = generation + 1
  /\ initCall' = [initCall EXCEPT ![c] =
       [pc |-> "onInit", gen |-> generation + 1, at |-> NoOne]]
  /\ UNCHANGED <<stillVars, settlement>>

Fails ==
  /\ state \notin Closing /\ ~Settling
  /\ state' = "FAILED" /\ generation' > generation
  /\ settlement' = [pc |-> "disposing", todo |-> CleanupSet]
  /\ NoNewDriver
  /\ UNCHANGED stillVars

Quiesces ==
  /\ state \notin Closing
  /\ state' = "QUIESCING"
  /\ UNCHANGED <<stillVars, generation, settlement, initCall>>

Disposes ==
  /\ state \notin {"DISPOSING", "DISPOSED"}
  /\ state' = "DISPOSING" /\ generation' = generation + 1
  /\ disposal'.todo = CleanupSet
  /\ UNCHANGED <<registry, stage, activePlan, buildingPlan, activationScope,
                 claims, disposed, taken, settlement, initCall>>

StepKind ==
  \/ Still
  \/ \E c \in InitCalls : Drives(c) \/ Starts(c)
  \/ \E t \in TransactionIds : RegistrationStep(t)
  \/ \E k \in Keys : UnregisterInactive(k)
  \/ CleanupStep
  \/ Recovers
  \/ Fails
  \/ Quiesces
  \/ Disposes

LEMMA FailKind ==
  ASSUME TypeInv, NEW g, Fail(g), NoNewDriver, UNCHANGED stillVars
  PROVE  Still \/ Fails
<1>1. CASE FailInitialization(g) /\ StartSettlement
  <2>1. generation \in Nat BY DEF TypeOK, RuntimeTypeOK
  <2> QED
    BY <1>1, <2>1 DEF Fails, FailInitialization, CanFail, StartSettlement, Closing,
       SettlementState
<1>2. CASE UNCHANGED failVars BY <1>2 DEF Still
<1> QED BY <1>1, <1>2 DEF Fail

LEMMA OperationKind ==
  ASSUME TypeInv, Operation
  PROVE  StepKind
<1> USE DEF stillVars, initFrame, moduleVars, sessionVars, ownerVars
<1>t. CallTypeOK /\ generation \in Nat BY DEF TypeOK, RuntimeTypeOK
<1>n. UNCHANGED initCall => NoNewDriver BY DEF NoNewDriver
<1>k. Still \/ Fails \/ Recovers \/ Quiesces \/ Disposes => StepKind BY DEF StepKind
<1>1. CASE BeginProjectInstallers
  BY <1>1, <1>n, <1>k DEF BeginProjectInstallers, ClearFailure, Still, Recovers
<1>2. CASE MarkProjectInstallersApplied
  BY <1>2, <1>n, <1>k DEF MarkProjectInstallersApplied, Still
<1>3. CASE \E t \in TransactionIds, i \in Instances :
             RegisterBegin(t, i) \/ ReplaceBegin(t, i)
  BY <1>3, <1>n, <1>k DEF RegisterBegin, ReplaceBegin, BeginTransaction, Still
<1>4. CASE \E k \in Keys : UnregisterInactive(k) BY <1>4 DEF StepKind
<1>5. ASSUME NEW c \in InitCalls, InitCall(c)
      PROVE  StepKind
  <2>1. UNCHANGED stillVars BY <1>5 DEF InitCall
  <2>2. CASE Return(c, FALSE) /\ UNCHANGED failVars
    BY <1>t, <1>k, <2>1, <2>2, ReturnMoves DEF Still, NoNewDriver
  <2>3. CASE Return(c, TRUE) /\ UNCHANGED failVars
    BY <1>t, <1>k, <2>1, <2>3, ReturnMoves DEF Still, NoNewDriver
  <2>4. CASE /\ initCall' = [initCall EXCEPT ![c] =
                  [pc |-> IF c \in cancelledTokens THEN "false" ELSE "joined",
                   gen |-> generation, at |-> NoOne]]
             /\ UNCHANGED failVars
    <3>1. NoNewDriver BY <1>t, <2>4 DEF NoNewDriver, Driving, InStages, InActivation, CallTypeOK
    <3> QED BY <1>k, <2>1, <2>4, <3>1 DEF Still
  <2>5. CASE /\ BeginAndFailInitialization /\ StartSettlement
             /\ Return(c, FALSE) /\ ~Settling
    <3>1. NoNewDriver BY <1>t, <2>5, ReturnMoves DEF NoNewDriver
    <3>2. Fails
      BY <1>t, <2>1, <2>5, <3>1
         DEF Fails, BeginAndFailInitialization, StartSettlement, Closing
    <3> QED BY <1>k, <3>2
  <2>6. CASE /\ BeginInitialization \/ RestartAfterFailure
             /\ initCall' = [initCall EXCEPT ![c] =
                  [pc |-> "onInit", gen |-> generation + 1, at |-> NoOne]]
             /\ UNCHANGED settlement
             /\ ~Settling /\ ~(state = "FAILED" /\ staleBlocks > 0)
    <3>1. staleBlocks \in Nat BY DEF TypeOK, AsyncTypeOK
    <3>2. Starts(c)
      BY <2>1, <2>6, <3>1
         DEF Starts, BeginInitialization, RestartAfterFailure
    <3> QED BY <3>2 DEF StepKind
  <2> QED BY <1>5, <2>2, <2>3, <2>4, <2>5, <2>6 DEF InitCall
<1>6. ASSUME NEW c \in InitCalls, CancelToken(c)
      PROVE  StepKind
  <2>1. NoNewDriver BY <1>t, <1>6, ReturnMoves DEF CancelToken, NoNewDriver
  <2> QED BY <1>6, <1>k, <2>1 DEF CancelToken, Still
<1>7. CASE \E i \in Instances : AsyncReturn(i) \/ AsyncSelfCancel(i)
  BY <1>7, <1>n, <1>k DEF AsyncReturn, AsyncSelfCancel, Still
<1>8. CASE PublicFail BY <1>8, <1>n, <1>k, FailKind DEF PublicFail
<1>9. ASSUME NEW s \in ShutdownCalls, ShutdownCall(s)
      PROVE  StepKind
  <2>f. UNCHANGED shutdownFrame BY <1>9 DEF ShutdownCall
  <2>1. CASE UNCHANGED <<runtimeVars, disposal>> BY <2>f, <2>1, <1>n, <1>k DEF Still
  <2>2. CASE \E v, f, u : StartDisposal(v, f, u)
    BY <2>f, <2>2, <1>k DEF Disposes, StartDisposal, BeginDispose
  <2>3. CASE BeginQuiesce /\ UNCHANGED disposal
    BY <2>f, <2>3, <1>k DEF Quiesces, BeginQuiesce, Closing
  <2> QED BY <1>9, <2>1, <2>2, <2>3 DEF ShutdownCall
<1>10. CASE CancelShutdownToken BY <1>10, <1>n, <1>k DEF CancelShutdownToken, Still
<1>11. CASE DisposeCall BY <1>11, <1>k DEF DisposeCall, Disposes, StartDisposal, BeginDispose
<1> QED
  BY <1>1, <1>2, <1>3, <1>4, <1>5, <1>6, <1>7, <1>8, <1>9, <1>10, <1>11
     DEF Operation

LEMMA QuiesceKind ==
  ASSUME TypeInv, QuiesceStep
  PROVE  Still \/ Disposes
<1> USE DEF stillVars, moduleVars, sessionVars, ownerVars
<1>f. UNCHANGED shutdownFrame BY DEF QuiesceStep, QuiesceHookReturn, QuiescePoll, quiesceFrame
<1>1. CASE UNCHANGED <<runtimeVars, disposal>> BY <1>f, <1>1 DEF Still, NoNewDriver
<1>2. CASE \E v, f, u : StartDisposal(v, f, u)
  BY <1>f, <1>2 DEF Disposes, StartDisposal, BeginDispose
<1>3. ASSUME NEW f, NEW u, QuiesceNext(f, u)
      PROVE  UNCHANGED <<runtimeVars, disposal>>
             \/ \E v, g, w : StartDisposal(v, g, w)
  BY <1>3 DEF QuiesceNext, EndQuiesce
<1>4. QuiesceOutcome => UNCHANGED <<runtimeVars, disposal>>
                        \/ \E v, g, w : StartDisposal(v, g, w)
  BY <1>3 DEF QuiesceOutcome, EndQuiesce
<1> QED BY <1>1, <1>2, <1>4 DEF QuiesceStep, QuiesceHookReturn, QuiescePoll

LEMMA CallKind ==
  ASSUME TypeInv, NEW c \in InitCalls, CallStep(c), ~Drives(c)
  PROVE  Still
<1>t. CallTypeOK BY DEF TypeOK
<1>i. UNCHANGED <<disposal, claims, disposed, taken>>
  BY DEF CallStep, OnInitReturn, HookReturn, AsyncStep, ActHookReturn,
     ActPoll, EmitReturn, JoinResolve, initFrame, sessionVars, ownerVars
<1>d. \A d \in InitCalls \ {c} : initCall'[d] = initCall[d] \/ ~Driving(d)'
  BY OthersWait DEF Driving, InStages, InActivation
<1>1. CASE Stale(c)
  <2>1. ~Driving(c)' BY <1>1, StaleStep DEF Driving, InStages, InActivation
  <2>2. NoNewDriver BY <1>d, <2>1 DEF NoNewDriver
  <2> QED BY <1>1, <1>i, <2>2, StaleStep DEF Still, stillVars
<1>2. CASE ~Driving(c)
  <2>1. EmitReturn(c) \/ JoinResolve(c)
    BY <1>2 DEF Driving, CallStep, OnInitReturn, HookReturn, AsyncStep,
       ActHookReturn, ActPoll, InStages, InActivation
  <2>2. NoNewDriver BY <1>t, <2>1, ReturnMoves DEF EmitReturn, JoinResolve, NoNewDriver
  <2> QED BY <1>i, <2>1, <2>2 DEF EmitReturn, JoinResolve, Still, stillVars
<1> QED BY <1>1, <1>2 DEF Drives

LEMMA StepKinds ==
  ASSUME TypeInv, [Next]_vars
  PROVE  StepKind
<1>1. CASE Operation BY <1>1, OperationKind
<1>2. CASE \E c \in InitCalls : CallStep(c) BY <1>2, CallKind DEF StepKind
<1>3. CASE QuiesceStep BY <1>3, QuiesceKind DEF StepKind
<1>4. CASE UNCHANGED <<stillVars, state, generation, settlement, initCall>>
  BY <1>4 DEF StepKind, Still, NoNewDriver
<1>5. CASE \E s \in ShutdownCalls : ShutdownResolve(s)
  BY <1>5, <1>4 DEF ShutdownResolve, ownerVars, sessionVars, stillVars
<1>6. CASE UNCHANGED vars BY <1>6, <1>4 DEF vars, ownerVars, sessionVars, stillVars
<1> QED BY <1>1, <1>2, <1>3, <1>5, <1>6 DEF Next, StepKind

-----------------------------------------------------------------------------
\* Ownership is accounted for

\* What is claimed is disposed.
ClaimsDisposed == \A i \in claims : disposed[i] > 0

\* A cleanup pass walks what is registered; a settlement that was overtaken by a
\* disposal has nothing left to do.
PassesWalk ==
  /\ settlement.pc = "disposing" =>
       IF state = "DISPOSED" THEN settlement.todo \subseteq claims
                             ELSE settlement.todo = Registered
  /\ state = "DISPOSING" => disposal.todo = Registered
  /\ state = "DISPOSED" => Registered = {}

\* What is registered was taken, and what was taken and is not registered any
\* more is disposed.
TakenAccounted ==
  /\ Registered \subseteq taken
  /\ \A i \in taken \ Registered : disposed[i] > 0

AccountInv == ClaimsDisposed /\ PassesWalk /\ TakenAccounted

LEMMA InitAccountInv == Init => AccountInv
<1> SUFFICES ASSUME Init PROVE AccountInv OBVIOUS
<1>1. Registered = {} BY DEF Init, Registered
<1> QED
  BY <1>1 DEF Init, RuntimeInit, AccountInv, ClaimsDisposed, PassesWalk,
     TakenAccounted

LEMMA CleanupSetRegistered ==
  ASSUME OwnerInv
  PROVE  CleanupSet = Registered /\ CleanupPlan \subseteq Registered
BY DEF PlansRegistered, CleanupSet, CleanupPlan

\* A step that moves no module may begin a cleanup pass over what is registered.
LEMMA KindAccount ==
  ASSUME TypeInv, OwnerInv, AccountInv,
         \/ Still \/ Recovers \/ Fails \/ Quiesces \/ Disposes
         \/ \E c \in InitCalls : Starts(c)
  PROVE  AccountInv'
<1>r. Registered' = Registered /\ CleanupSet = Registered
  BY CleanupSetRegistered
     DEF Registered, Still, Recovers, Fails, Quiesces, Disposes, Starts, stillVars
<1>1. UNCHANGED <<claims, disposed, taken>>
  BY DEF Still, Recovers, Fails, Quiesces, Disposes, Starts, stillVars
<1>2. ClaimsDisposed' /\ TakenAccounted'
  BY <1>r, <1>1 DEF AccountInv, ClaimsDisposed, TakenAccounted
<1>3. PassesWalk'
  BY <1>r, <1>1 DEF AccountInv, PassesWalk, Still, Recovers, Fails, Quiesces,
     Disposes, Starts, stillVars, Settling, Closing
<1> QED BY <1>2, <1>3 DEF AccountInv

\* A step of the driver begins a settlement, or no cleanup at all.
LEMMA DrivePasses ==
  ASSUME TypeInv, NEW c \in InitCalls, Drives(c)
  PROVE  /\ UNCHANGED <<registry, disposal, claims, disposed, taken>>
         /\ state \in {"INITIALIZING", "ACTIVATING"} /\ ~Settling
         /\ \/ /\ state' = "FAILED" /\ generation' = generation + 1
               /\ settlement' = [pc |-> "disposing", todo |-> CleanupSet]
               /\ \A d \in InitCalls :
                    initCall'[d] = initCall[d] \/ ~Driving(d)'
            \/ /\ UNCHANGED <<settlement, generation>>
               /\ state' \in {state, "ACTIVATING", "READY"}
<1>t. TypeOK /\ CallTypeOK BY DEF TypeOK
<1>s. state \in {"INITIALIZING", "ACTIVATING"} /\ ~Settling
  BY DEF Drives, DriverInv, DriverState, Driving, SettlementState
<1>i. UNCHANGED <<disposal, claims, disposed, taken>>
  BY DEF Drives, CallStep, OnInitReturn, HookReturn, AsyncStep, ActHookReturn,
     ActPoll, EmitReturn, JoinResolve, initFrame, sessionVars, ownerVars
<1>o. \A d \in InitCalls \ {c} : initCall'[d] = initCall[d] \/ ~Driving(d)'
  BY <1>t, OthersWait DEF Drives, Driving, InStages, InActivation
<1> DEFINE Ending == /\ state' = "FAILED" /\ generation' = generation + 1
                     /\ settlement' = [pc |-> "disposing", todo |-> CleanupSet]
                     /\ UNCHANGED registry
                     /\ \A d \in InitCalls :
                          initCall'[d] = initCall[d] \/ ~Driving(d)'
           Going == /\ UNCHANGED <<settlement, generation, registry>>
                    /\ state' \in {state, "ACTIVATING", "READY"}
<1>f. ASSUME Fail(initCall[c].gen), Return(c, FALSE), UNCHANGED registry
      PROVE  Ending
  BY <1>t, <1>s, <1>f, ReturnMoves DEF Drives, Stale, Fail, CanFail,
     FailInitialization, StartSettlement
<1>p. ASSUME NEW plan, NEW st, Proceed(c, plan, st), UNCHANGED registry
      PROVE  Ending \/ Going
  BY <1>f, <1>p DEF Proceed, BeginActivation, ActivateNothing
<1>a. ASSUME ActivationOutcome(c)
      PROVE  Ending \/ Going
  <2>1. CASE CancelMemberScope(c)
    <3>1. Fail(initCall[c].gen) BY <1>s, <2>1 DEF CancelMemberScope, CanFail, Drives, Stale
    <3> QED BY <1>f, <2>1, <3>1 DEF CancelMemberScope
  <2>2. CASE FailStep(c) BY <1>f, <2>2 DEF FailStep
  <2>3. CASE Activated(c) /\ UNCHANGED registry BY <2>3 DEF Activated, FinishActivation
  <2> QED BY <1>a, <2>1, <2>2, <2>3 DEF ActivationOutcome
<1>g. ASSUME GiveUp(c) \/ UNCHANGED <<failVars, moduleVars>>
      PROVE  Going
  BY <1>g DEF GiveUp
<1> HIDE DEF Ending, Going
<1>1. Ending \/ Going
  <2>1. CASE OnInitReturn(c) BY <1>f, <1>p, <1>g, <2>1 DEF OnInitReturn, FailStep
  <2>2. CASE HookReturn(c) BY <1>p, <1>g, <2>2 DEF HookReturn
  <2>3. CASE AsyncStep(c) BY <1>f, <1>p, <1>g, <2>3 DEF AsyncStep, FailStep
  <2>4. CASE ActHookReturn(c) BY <1>f, <1>a, <1>g, <2>4 DEF ActHookReturn, FailStep
  <2>5. CASE ActPoll(c) BY <1>a, <2>5 DEF ActPoll
  <2> QED
    BY <2>1, <2>2, <2>3, <2>4, <2>5 DEF Drives, CallStep, Driving, InStages,
       InActivation, EmitReturn, JoinResolve
<1> QED BY <1>s, <1>i, <1>1 DEF Ending, Going

LEMMA DriveAccount ==
  ASSUME TypeInv, OwnerInv, AccountInv, NEW c \in InitCalls, Drives(c)
  PROVE  AccountInv'
<1>1. Registered' = Registered /\ CleanupSet = Registered
  BY DrivePasses, CleanupSetRegistered DEF Registered
<1> QED
  BY <1>1, DrivePasses
     DEF AccountInv, ClaimsDisposed, PassesWalk, TakenAccounted, Settling

\* A module is taken, a candidate is refused, a module is removed.
Takes(i) ==
  /\ state = "NEW" /\ i \notin Registered /\ disposed[i] = 0
  /\ Registered' = Registered \cup {i}
  /\ taken' = taken \cup {i}
  /\ UNCHANGED disposed

Refuses(i) ==
  /\ i \notin Registered /\ disposed[i] = 0
  /\ disposed' = [disposed EXCEPT ![i] = @ + 1]
  /\ UNCHANGED <<registry, taken>>

Removes(i) ==
  /\ state = "NEW" /\ i \in Registered /\ disposed[i] = 0
  /\ Registered' = Registered \ {i}
  /\ disposed' = [disposed EXCEPT ![i] = @ + 1]
  /\ UNCHANGED taken

Assembles ==
  /\ UNCHANGED <<state, generation, activePlan, buildingPlan, activationScope,
                 settlement, disposal, initCall>>
  /\ state # "NEW" => UNCHANGED <<registry, stage>>
  /\ \A j \in Instances : stage'[j] \in {stage[j], 0}
  /\ ~CleaningUp
  /\ ClaimsDisposed'
  /\ \/ \E i \in Instances : Takes(i) \/ Refuses(i) \/ Removes(i)
     \/ UNCHANGED <<registry, disposed, taken>>

LEMMA CommitTakes ==
  ASSUME TypeInv, OwnerInv, NEW i \in Instances, Commit(i), state = "NEW",
         registry[KeyOf[i]] = NoOne, disposed[i] = 0, UNCHANGED disposed
  PROVE  Takes(i) /\ \A j \in Instances : stage'[j] \in {stage[j], 0}
<1>1. Registered' = Registered \cup {i} BY Added
<1>2. i \notin Registered
  BY InstancesAssumption DEF RegistryKeys, Registered, TypeOK, ModuleTypeOK
<1>3. \A j \in Instances : stage'[j] \in {stage[j], 0} BY DEF Commit, TypeOK, ModuleTypeOK
<1> QED BY <1>1, <1>2, <1>3 DEF Takes, Commit

LEMMA RegisterEndAssembles ==
  ASSUME TypeInv, OwnerInv, AccountInv, NEW t \in TransactionIds, RegisterEnd(t)
  PROVE  Assembles
<1> USE DEF closeVars
<1> DEFINE i == registration[t].at
           commits == /\ i \notin claims
                      /\ ~IsTransactionInvalidated(t)
                      /\ CanMutateRegistration
                      /\ registry[KeyOf[i]] = NoOne
           refused == ~commits /\ i \notin Registered
<1>t. /\ i \in Instances /\ t \in OpenRegisters
      /\ \A j \in Instances : disposed[j] \in Nat
  BY Candidate DEF RegisterEnd, OpenRegisters, TypeOK, OwnerTypeOK
<1>u. ~CleaningUp BY Assembling DEF RegisterEnd, HooksReturned
<1>f. UNCHANGED <<state, generation, activePlan, buildingPlan, activationScope,
                  settlement, disposal, initCall>>
  BY DEF RegisterEnd, FinishTransaction
<1>z. i \notin claims => disposed[i] = 0 BY <1>t DEF CandidateClaimed
<1>d. disposed' = IF refused /\ i \notin claims
                  THEN [disposed EXCEPT ![i] = @ + 1] ELSE disposed
  BY DEF RegisterEnd, TypeOK, OwnerTypeOK
<1>c. claims' \subseteq IF refused THEN claims \cup {i} ELSE claims
  BY DEF RegisterEnd, EndSession
<1>n. commits => state = "NEW" BY DEF CanMutateRegistration
<1>r. IF commits THEN Commit(i) /\ registry[KeyOf[i]] = NoOne
                 ELSE UNCHANGED <<registry, stage, taken>>
  BY DEF RegisterEnd
<1>i. (commits => i \notin claims /\ ~refused) /\ (refused => i \notin Registered) OBVIOUS
<1> HIDE DEF commits, refused
<1>1. ClaimsDisposed'
  <2>1. \A j \in claims : j \in Instances /\ disposed[j] > 0
    BY DEF AccountInv, ClaimsDisposed, TypeOK, OwnerTypeOK
  <2>2. \A j \in Instances : disposed'[j] >= disposed[j] BY <1>t, <1>d DEF TypeOK, OwnerTypeOK
  <2>3. i \notin claims /\ refused => disposed'[i] = disposed[i] + 1
    BY <1>t, <1>d DEF TypeOK, OwnerTypeOK
  <2>4. \A j \in claims : disposed'[j] > 0 BY <1>t, <1>d, <2>1
  <2> QED BY <1>t, <1>c, <2>3, <2>4 DEF ClaimsDisposed
<1>2. CASE commits
  BY <1>1, <1>2, <1>t, <1>u, <1>f, <1>z, <1>d, <1>n, <1>r, <1>i, CommitTakes
     DEF Assembles
<1>3. CASE ~commits
  <2>1. Refuses(i) \/ UNCHANGED <<registry, disposed, taken>>
    BY <1>3, <1>z, <1>d, <1>r, <1>i DEF Refuses
  <2>2. \A j \in Instances : stage'[j] \in {stage[j], 0} BY <1>3, <1>r
  <2> QED BY <1>1, <1>3, <1>t, <1>u, <1>f, <1>r, <2>1, <2>2 DEF Assembles
<1> QED BY <1>2, <1>3

\* dispose() of a module that was not disposed
LEMMA DisposeOnceEffect ==
  ASSUME TypeInv, AccountInv, NEW i \in Instances, disposed[i] = 0, DisposeOnce(i)
  PROVE  /\ disposed' = [disposed EXCEPT ![i] = @ + 1]
         /\ ClaimsDisposed'
<1>1. i \notin claims BY DEF AccountInv, ClaimsDisposed
<1>2. disposed' = [disposed EXCEPT ![i] = @ + 1] BY <1>1 DEF DisposeOnce
<1>3. claims' \subseteq claims \cup {i} BY DEF DisposeOnce
<1>4. \A j \in claims \cup {i} : disposed'[j] > 0
  <2>1. \A j \in claims \cup {i} : disposed'[j] = IF j = i THEN 1 ELSE disposed[j]
    BY <1>2 DEF TypeOK, OwnerTypeOK
  <2> QED BY <2>1 DEF AccountInv, ClaimsDisposed
<1> QED BY <1>2, <1>3, <1>4 DEF ClaimsDisposed

LEMMA ReplaceSettleAssembles ==
  ASSUME TypeInv, OwnerInv, AccountInv, NEW t \in TransactionIds, Replacing(t),
         HooksReturned(t), NEW commits \in BOOLEAN, ReplaceSettle(t, commits),
         UNCHANGED replaceFrame,
         commits => /\ state = "NEW"
                    /\ registry[KeyOf[registration[t].at]] = NoOne
  PROVE  Assembles
<1> USE DEF replaceFrame, closeVars, sessionVars
<1> DEFINE i == registration[t].at
<1>t. i \in Instances /\ disposed[i] = 0 /\ i \notin Registered
  BY Candidate DEF Replacing, ReplacementApart
<1>u. ~CleaningUp BY Assembling DEF HooksReturned
<1>f. UNCHANGED <<state, generation, activePlan, buildingPlan, activationScope,
                  settlement, disposal, initCall>>
  BY DEF ReplaceSettle, FinishTransaction
<1>1. CASE commits
  <2>1. Commit(i) /\ UNCHANGED <<claims, disposed>> BY <1>1 DEF ReplaceSettle
  <2>2. ClaimsDisposed' BY <2>1 DEF AccountInv, ClaimsDisposed
  <2> QED BY <1>1, <1>t, <1>u, <1>f, <2>1, <2>2, CommitTakes DEF Assembles
<1>2. CASE ~commits
  <2>1. DisposeOnce(i) /\ UNCHANGED <<registry, stage, taken>> BY <1>2, <1>t DEF ReplaceSettle
  <2>2. Refuses(i) /\ ClaimsDisposed' BY <1>t, <2>1, DisposeOnceEffect DEF Refuses
  <2> QED BY <1>t, <1>u, <1>f, <2>1, <2>2 DEF Assembles
<1> QED BY <1>1, <1>2

LEMMA RemovalAssembles ==
  ASSUME TypeInv, OwnerInv, AccountInv, state = "NEW",
         NEW k \in Keys, registry[k] # NoOne,
         registry' = [registry EXCEPT ![k] = NoOne], DisposeOnce(registry[k]),
         stage' = [stage EXCEPT ![registry[k]] = 0],
         UNCHANGED <<state, generation, activePlan, buildingPlan,
                     activationScope, settlement, disposal, initCall, taken>>
  PROVE  Assembles
<1> DEFINE p == registry[k]
<1>t. p \in Instances /\ p \in Registered BY DEF TypeOK, ModuleTypeOK, Registered
<1>u. ~CleaningUp /\ disposed[p] = 0 BY <1>t, Assembling
<1>1. Registered' = Registered \ {p} BY Removed
<1>2. Removes(p) /\ ClaimsDisposed' BY <1>t, <1>u, <1>1, DisposeOnceEffect DEF Removes
<1>3. \A j \in Instances : stage'[j] \in {stage[j], 0} BY <1>t DEF TypeOK, ModuleTypeOK
<1> QED BY <1>t, <1>u, <1>2, <1>3 DEF Assembles

LEMMA RegistrationAssembles ==
  ASSUME TypeInv, OwnerInv, AccountInv,
         \/ \E t \in TransactionIds : RegistrationStep(t)
         \/ \E k \in Keys : UnregisterInactive(k)
  PROVE  Assembles
<1>1. ASSUME NEW t \in TransactionIds, ReplaceEnd(t)
      PROVE  Assembles
  <2> DEFINE i == registration[t].at
             p == registration[t].previous
             valid == /\ ~IsTransactionInvalidated(t)
                      /\ CanMutateRegistration
                      /\ registry[KeyOf[i]] = p
                      /\ i \notin Registered
  <2>t. Replacing(t) /\ HooksReturned(t) /\ UNCHANGED replaceFrame
    BY <1>1 DEF ReplaceEnd, Replacing
  <2>1. CASE (~valid \/ p = NoOne) /\ ReplaceSettle(t, valid)
    BY <2>1, <2>t, ReplaceSettleAssembles DEF CanMutateRegistration
  <2>2. CASE /\ valid /\ p # NoOne
             /\ registry' = [registry EXCEPT ![KeyOf[i]] = NoOne]
             /\ stage' = [stage EXCEPT ![p] = 0]
             /\ DisposeOnce(p)
             /\ UNCHANGED <<runtimeVars, taken>>
    <3>1. KeyOf[i] \in Keys /\ state = "NEW" /\ p = registry[KeyOf[i]]
      BY <2>2, <2>t, Candidate, InstancesAssumption
         DEF Replacing, CanMutateRegistration
    <3> QED BY <2>2, <2>t, <3>1, RemovalAssembles DEF replaceFrame
  <2> QED BY <1>1, <2>1, <2>2 DEF ReplaceEnd
<1>2. ASSUME NEW t \in TransactionIds, ReplaceCommit(t)
      PROVE  Assembles
  BY <1>2, ReplaceSettleAssembles
     DEF ReplaceCommit, Replacing, CanMutateRegistration
<1>3. ASSUME NEW k \in Keys, UnregisterInactive(k)
      PROVE  Assembles
  BY <1>3, RemovalAssembles DEF UnregisterInactive, MayRegister, CanMutateRegistration,
     ownerVars
<1> QED BY <1>1, <1>2, <1>3, RegisterEndAssembles DEF RegistrationStep

LEMMA AssemblesAccount ==
  ASSUME TypeInv, AccountInv, Assembles
  PROVE  AccountInv'
<1>1. PassesWalk' BY DEF Assembles, PassesWalk, AccountInv, CleaningUp, Registered
<1>2. TakenAccounted'
  <2>1. ASSUME NEW i \in Instances, Takes(i)
        PROVE  TakenAccounted'
    BY <2>1 DEF Takes, AccountInv, TakenAccounted
  <2>2. ASSUME NEW i \in Instances, Refuses(i) \/ Removes(i)
        PROVE  TakenAccounted'
    <3>1. /\ Registered' \subseteq Registered /\ taken' = taken
          /\ Registered \subseteq Registered' \cup {i}
      BY <2>2 DEF Refuses, Removes, Registered
    <3>2. \A j \in Instances : disposed'[j] = IF j = i THEN 1 ELSE disposed[j]
      BY <2>2 DEF Refuses, Removes, TypeOK, OwnerTypeOK
    <3>3. taken \subseteq Instances BY DEF TypeOK, OwnerTypeOK
    <3> QED BY <3>1, <3>2, <3>3 DEF AccountInv, TakenAccounted
  <2>3. CASE UNCHANGED <<registry, disposed, taken>>
    BY <2>3 DEF AccountInv, TakenAccounted, Registered
  <2> QED BY <2>1, <2>2, <2>3 DEF Assembles
<1> QED BY <1>1, <1>2 DEF Assembles, AccountInv

\* A cleanup pass disposes a module, and clears the registry at its end.
Walks(i) ==
  /\ CleaningUp /\ state \in {"FAILED", "QUIESCING", "DISPOSING"}
  /\ i \in Registered /\ disposed[i] = 0
  /\ NextToDispose(Registered \ claims, i)
  /\ claims' = claims \cup {i}
  /\ disposed' = [disposed EXCEPT ![i] = @ + 1]
  /\ UNCHANGED <<state, generation, registry, stage, activePlan, buildingPlan,
                 activationScope, settlement, disposal, initCall, taken>>

Clears ==
  /\ \A i \in Registered : disposed[i] > 0
  /\ Cleared
  /\ \/ /\ settlement.pc = "disposing" /\ settlement'.pc = "emitting"
        /\ state \in {"FAILED", "QUIESCING", "DISPOSED"} /\ UNCHANGED state
     \/ /\ state = "DISPOSING" /\ state' = "DISPOSED"
        /\ UNCHANGED settlement
        /\ settlement.pc = "disposing" =>
             settlement.todo \subseteq claims /\ UNCHANGED claims
  /\ claims' \subseteq claims
  /\ UNCHANGED <<generation, disposed, taken>>
  /\ NoNewDriver

Notifies ==
  /\ settlement.pc = "emitting" /\ settlement'.pc = "off"
  /\ UNCHANGED <<stillVars, state, generation, initCall>>

LEMMA WalksOnce ==
  ASSUME TypeInv, OwnerInv, AccountInv, NEW i \in Instances,
         i \in Registered \ claims, NextToDispose(Registered \ claims, i),
         DisposeOnce(i),
         CleaningUp, state \in {"FAILED", "QUIESCING", "DISPOSING"},
         UNCHANGED <<state, generation, moduleVars, activationScope, settlement,
                     disposal, initCall, taken>>
  PROVE  Walks(i)
<1>1. disposed[i] = 0
  <2>1. disposed[i] \in Nat /\ ~(disposed[i] > 0) BY DEF RegisteredClaimed, TypeOK, OwnerTypeOK
  <2> QED BY <2>1
<1>2. disposed' = [disposed EXCEPT ![i] = @ + 1] BY <1>1, DisposeOnceEffect
<1>3. claims' = claims \cup {i} BY DEF DisposeOnce, SessionOpen, CleaningUp
<1> QED BY <1>1, <1>2, <1>3 DEF Walks

LEMMA CleanupKinds ==
  ASSUME TypeInv, OwnerInv, AccountInv, CleanupStep
  PROVE  (\E i \in Instances : Walks(i)) \/ Clears \/ Notifies
<1>t. CallTypeOK BY DEF TypeOK
<1> USE DEF failVars, runtimeVars, initFrame, sessionVars, ownerVars
<1>s. settlement.pc = "disposing" =>
        state \in {"FAILED", "QUIESCING", "DISPOSING", "DISPOSED"}
  BY DEF SettlementState, Settling
<1>c. \A i \in claims : disposed[i] > 0 BY DEF AccountInv, ClaimsDisposed
<1>w. NoNewDriver \/ initCall' # Woken
  BY <1>t, WokenMoves DEF NoNewDriver, Driving, InStages, InActivation
<1>1. ASSUME NEW i \in Instances, SettleDispose(i)
      PROVE  Walks(i)
  <2>1. /\ settlement.pc = "disposing" /\ state # "DISPOSING"
        /\ i \in settlement.todo \ claims
        /\ NextToDispose(settlement.todo \ claims, i) /\ DisposeOnce(i)
        /\ UNCHANGED <<state, generation, moduleVars, activationScope,
                       settlement, disposal, initCall, taken>>
    BY <1>1 DEF SettleDispose
  <2>2. settlement.todo = Registered /\ state # "DISPOSED" BY <2>1 DEF AccountInv, PassesWalk
  <2>3. /\ CleaningUp /\ state \in {"FAILED", "QUIESCING", "DISPOSING"}
        /\ i \in Registered \ claims /\ NextToDispose(Registered \ claims, i)
    BY <1>s, <2>1, <2>2 DEF CleaningUp
  <2> QED BY <2>1, <2>2, <2>3, WalksOnce
<1>2. ASSUME NEW i \in Instances, DisposeModule(i)
      PROVE  Walks(i)
  <2>1. /\ state = "DISPOSING"
        /\ i \in disposal.todo \ claims
        /\ NextToDispose(disposal.todo \ claims, i) /\ DisposeOnce(i)
        /\ UNCHANGED <<state, generation, moduleVars, activationScope,
                       settlement, disposal, initCall, taken>>
    BY <1>2 DEF DisposeModule
  <2>2. disposal.todo = Registered BY <2>1 DEF AccountInv, PassesWalk
  <2>3. /\ CleaningUp
        /\ i \in Registered \ claims /\ NextToDispose(Registered \ claims, i)
    BY <2>1, <2>2 DEF CleaningUp
  <2> QED BY <2>1, <2>3, WalksOnce
<1>3. CASE SettleClear
  <2>1. \A i \in Registered : disposed[i] > 0
    BY <1>3, <1>c DEF SettleClear, AccountInv, PassesWalk
  <2>2. NoNewDriver BY <1>3, <1>w DEF SettleClear
  <2>3. claims' \subseteq claims BY <1>3 DEF SettleClear, EndSession
  <2>4. /\ settlement.pc = "disposing" /\ settlement'.pc = "emitting"
        /\ state \in {"FAILED", "QUIESCING", "DISPOSED"} /\ UNCHANGED state
    BY <1>3, <1>s DEF SettleClear
  <2> QED BY <1>3, <2>1, <2>2, <2>3, <2>4 DEF SettleClear, Clears
<1>4. CASE SettleEnd BY <1>4 DEF SettleEnd, Notifies, stillVars
<1>5. CASE FinishDisposal
  <2>0. state = "DISPOSING" /\ disposal.todo \subseteq claims
          /\ disposal.todo = Registered
    BY <1>5 DEF FinishDisposal, AccountInv, PassesWalk
  <2>1. \A i \in Registered : disposed[i] > 0 BY <1>c, <2>0
  <2>2. NoNewDriver BY <1>5, <1>w DEF FinishDisposal, NoNewDriver
  <2>3. claims' \subseteq claims BY <1>5 DEF FinishDisposal, EndSession
  <2>4. settlement.pc = "disposing" =>
          settlement.todo \subseteq claims /\ UNCHANGED claims
    BY <1>5, <2>0 DEF FinishDisposal, EndSession, AccountInv, PassesWalk
  <2> QED
    BY <1>5, <2>0, <2>1, <2>2, <2>3, <2>4
       DEF FinishDisposal, FinishDispose, Clears
<1> QED BY <1>1, <1>2, <1>3, <1>4, <1>5 DEF CleanupStep

LEMMA CleanupAccount ==
  ASSUME TypeInv, OwnerInv, AccountInv, CleanupStep
  PROVE  AccountInv'
<1>1. ASSUME NEW i \in Instances, Walks(i)
      PROVE  AccountInv'
  <2>1. \A j \in Instances : disposed'[j] = IF j = i THEN 1 ELSE disposed[j]
    BY <1>1 DEF Walks, TypeOK, OwnerTypeOK
  <2>2. claims \subseteq Instances /\ taken \subseteq Instances BY DEF TypeOK, OwnerTypeOK
  <2>3. Registered' = Registered BY <1>1 DEF Walks, Registered
  <2> QED
    BY <1>1, <2>1, <2>2, <2>3
       DEF Walks, AccountInv, ClaimsDisposed, PassesWalk, TakenAccounted
<1>2. CASE Clears
  <2>1. Registered' = {} BY <1>2 DEF Clears, Cleared, Registered
  <2> QED
    BY <1>2, <2>1
       DEF Clears, AccountInv, ClaimsDisposed, PassesWalk, TakenAccounted
<1>3. CASE Notifies
  <2>1. Registered' = Registered BY <1>3 DEF Notifies, stillVars, Registered
  <2> QED
    BY <1>3, <2>1 DEF Notifies, stillVars, AccountInv, ClaimsDisposed,
       PassesWalk, TakenAccounted
<1> QED BY <1>1, <1>2, <1>3, CleanupKinds

LEMMA AccountStep ==
  ASSUME TypeInv, OwnerInv, AccountInv, [Next]_vars
  PROVE  AccountInv'
BY StepKinds, KindAccount, DriveAccount, RegistrationAssembles,
   AssemblesAccount, CleanupAccount DEF StepKind

\* AccountInv holds throughout.
THEOREM AccountInvariant ==
  ASSUME ~SelfRegistering
  PROVE  Spec => []AccountInv
<1>1. TypeInv /\ OwnerInv /\ AccountInv /\ [Next]_vars => AccountInv' BY AccountStep
<1> QED BY InitAccountInv, TypeInvariant, OwnerInvariant, <1>1, PTL DEF Spec

\* A module the architecture took is registered until it is disposed, and outside
\* a cleanup pass no disposed module is still registered.
THEOREM OwnershipIsAccounted ==
  ASSUME ~SelfRegistering
  PROVE  Spec => []OwnershipAccounted
<1>1. OwnerInv /\ AccountInv => OwnershipAccounted
  BY DEF RegisteredClaimed, AccountInv, TakenAccounted, OwnershipAccounted
<1> QED BY OwnerInvariant, AccountInvariant, <1>1, PTL

-----------------------------------------------------------------------------
\* The order of the stages

\* The modules up to some rank have reached the stage after s, the others s.
Stepped(plan, st, s) ==
  /\ \A j \in plan : st[j] \in {s, s + 1}
  /\ \A i, j \in plan : Rank[i] < Rank[j] /\ st[j] = s + 1 => st[i] = s + 1

\* Module n is at its stage with those after it; those before it are one further.
FrontAt(plan, st, n) ==
  n \in plan /\ \A j \in plan :
    st[j] = IF Rank[j] < Rank[n] THEN st[n] + 1 ELSE st[n]

LEMMA FirstPrecedes ==
  ASSUME NEW plan \in SUBSET Instances, plan # {}
  PROVE  First(plan) \in plan /\ \A j \in plan : Rank[First(plan)] <= Rank[j]
<1>1. \E i \in plan : \A j \in plan : Rank[i] <= Rank[j] BY PlanAssumption
<1> QED BY <1>1 DEF First

\* The module to advance next is at the front.
LEMMA NextAtFront ==
  ASSUME NEW plan \in SUBSET Instances, plan # {},
         NEW st \in [Instances -> 0..4], NEW s \in 0..3, Stepped(plan, st, s)
  PROVE  FrontAt(plan, st, NextToAdvance(plan, st))
<1> DEFINE least == {i \in plan : \A j \in plan : st[i] <= st[j]}
           n == First(least)
<1>0. /\ \A j \in plan : Rank[j] \in Nat /\ st[j] \in {s, s + 1}
      /\ \A i, j \in plan : Rank[i] = Rank[j] => i = j
  BY InstancesAssumption DEF Stepped
<1>1. NextToAdvance(plan, st) = n BY DEF NextToAdvance
<1>2. n \in plan /\ \A j \in plan : st[n] <= st[j] BY <1>1, NextToAdvanceInPlan
<1>3. \A j \in least : Rank[n] <= Rank[j]
  <2>1. least # {} /\ least \in SUBSET Instances BY <1>2
  <2> QED BY <2>1, FirstPrecedes
<1>4. \A j \in plan : st[j] <= st[n] => Rank[n] <= Rank[j]
  <2> SUFFICES ASSUME NEW j \in plan, st[j] <= st[n]
               PROVE  j \in least
    BY <1>3
  <2> QED BY <1>0, <1>2
<1> HIDE DEF n
<1>5. FrontAt(plan, st, n)
  <2>1. CASE st[n] = s BY <1>0, <1>2, <1>4, <2>1 DEF FrontAt, Stepped
  <2>2. CASE st[n] = s + 1 BY <1>0, <1>2, <1>4, <2>2 DEF FrontAt
  <2> QED BY <1>0, <1>2, <2>1, <2>2
<1> QED BY <1>1, <1>5

\* When the least stage of the plan is 3 the first module is at the front.
LEMMA FirstAtFront ==
  ASSUME NEW plan \in SUBSET Instances, plan # {},
         NEW st \in [Instances -> 0..4], NEW n, FrontAt(plan, st, n),
         st[n] = 3, \A j \in plan : st[j] <= 3
  PROVE  FrontAt(plan, st, First(plan)) /\ st[First(plan)] = 3
<1>1. First(plan) \in plan /\ \A j \in plan : Rank[First(plan)] <= Rank[j] BY FirstPrecedes
<1>2. \A j \in plan : Rank[j] \in Nat BY InstancesAssumption
<1>3. \A j \in plan : st[j] = 3 BY DEF FrontAt
<1> QED BY <1>1, <1>2, <1>3 DEF FrontAt

\* The module at the front completes its stage.
LEMMA FrontStepped ==
  ASSUME NEW plan \in SUBSET Instances, NEW st \in [Instances -> 0..4],
         NEW n, FrontAt(plan, st, n), st[n] <= 3,
         NEW ts, ts = [st EXCEPT ![n] = st[n] + 1]
  PROVE  ts \in [Instances -> 0..4] /\ Stepped(plan, ts, st[n])
<1>1. /\ n \in plan /\ \A j \in plan : Rank[j] \in Nat
      /\ \A i, j \in plan : Rank[i] = Rank[j] => i = j
  BY InstancesAssumption DEF FrontAt
<1>2. st[n] + 1 \in 0..4
  <2>1. st[n] \in 0..4 BY <1>1
  <2> QED BY <2>1
<1>3. ts \in [Instances -> 0..4] BY <1>2
<1>4. \A j \in plan : ts[j] = IF Rank[j] <= Rank[n] THEN st[n] + 1 ELSE st[n]
  BY <1>1 DEF FrontAt
<1> QED BY <1>1, <1>3, <1>4 DEF Stepped

\* The module at the front is activated: the next one is, or there is none.
LEMMA FrontActivated ==
  ASSUME NEW plan \in SUBSET Instances, NEW st \in [Instances -> 0..4],
         NEW n, FrontAt(plan, st, n), st[n] = 3,
         NEW ts, \A j \in plan : ts[j] = IF j = n THEN 4 ELSE st[j],
         NEW rest \in SUBSET plan, \A j \in plan : j \in rest <=> ts[j] < 4
  PROVE  /\ rest # {} => FrontAt(plan, ts, First(rest)) /\ ts[First(rest)] = 3
         /\ rest = {} => \A j \in plan : ts[j] = 4
<1>1. /\ n \in plan /\ \A j \in plan : Rank[j] \in Nat
      /\ \A i, j \in plan : Rank[i] = Rank[j] => i = j
  BY InstancesAssumption DEF FrontAt
<1>2. \A j \in plan : ts[j] = IF Rank[j] <= Rank[n] THEN 4 ELSE 3 BY <1>1 DEF FrontAt
<1>3. ASSUME rest # {}
      PROVE  FrontAt(plan, ts, First(rest)) /\ ts[First(rest)] = 3
  <2> DEFINE m == First(rest)
  <2>1. m \in rest /\ \A j \in rest : Rank[m] <= Rank[j] BY <1>3, FirstPrecedes
  <2> HIDE DEF m
  <2>2. m \in plan /\ ts[m] = 3 /\ Rank[m] > Rank[n] BY <1>1, <1>2, <2>1
  <2>3. \A j \in plan : ts[j] = IF Rank[j] < Rank[m] THEN 4 ELSE 3 BY <1>1, <1>2, <2>1, <2>2
  <2> QED BY <2>2, <2>3 DEF FrontAt, m
<1>4. ASSUME rest = {}
      PROVE  \A j \in plan : ts[j] = 4
  BY <1>2, <1>4
<1> QED BY <1>3, <1>4

-----------------------------------------------------------------------------
\* Plans and stages

\* Nothing is planned, and no module has entered a stage.
Untouched ==
  /\ activePlan = {} /\ buildingPlan = {} /\ activationScope = 0
  /\ \A i \in Instances : stage[i] = 0

Fresh ==
  state = "NEW" \/ (state = "FAILED" /\ settlement.pc # "disposing")
    => Untouched

\* The driver of this generation walks what is registered, and the module it is
\* at is at the front, in the stage that fits the driver's place.
AtStage(c) ==
  /\ buildingPlan = Registered
  /\ FrontAt(buildingPlan, stage, initCall[c].at)
  /\ initCall[c].pc = "hook" => stage[initCall[c].at] \in {0, 2}
  /\ initCall[c].pc = "async" => stage[initCall[c].at] = 1
  /\ initCall[c].pc \in InActivation => stage[initCall[c].at] = 3

Frontier ==
  \A c \in InitCalls : Driving(c) /\ ~Stale(c) =>
    IF initCall[c].pc = "onInit" THEN Untouched ELSE AtStage(c)

Whole ==
  state = "READY" =>
    /\ activePlan = Registered /\ buildingPlan = {}
    /\ \A i \in Registered : stage[i] = 4

\* A cleanup pass has disposed what comes later in the plan.
PassOrder ==
  CleaningUp =>
    \A i, j \in CleanupPlan :
      Rank[i] < Rank[j] /\ disposed[i] > 0 => disposed[j] > 0

PlanInv == Fresh /\ Frontier /\ Whole /\ PassOrder

LEMMA InitPlanInv == Init => PlanInv
<1> SUFFICES ASSUME Init PROVE PlanInv OBVIOUS
<1>1. \A c \in InitCalls : ~Driving(c) BY DEF Init, Driving, InStages, InActivation
<1> QED
  BY <1>1 DEF Init, RuntimeInit, PlanInv, Fresh, Frontier, Whole, PassOrder,
     Untouched, CleaningUp

\* Nobody drives an initialization of this generation outside these states.
LEMMA Undriven ==
  ASSUME TypeInv, state \notin {"INITIALIZING", "ACTIVATING"},
         NEW c \in InitCalls, Driving(c)
  PROVE  Stale(c)
BY DEF DriverInv, DriverState, Driving

LEMMA FrontierKept ==
  ASSUME TypeInv, Frontier, NoNewDriver,
         \/ generation' > generation
         \/ /\ generation' = generation
            /\ \/ state \notin {"INITIALIZING", "ACTIVATING"}
               \/ UNCHANGED <<registry, stage, activePlan, buildingPlan,
                              activationScope>>
  PROVE  Frontier'
<1> SUFFICES ASSUME NEW c \in InitCalls, Driving(c)', ~Stale(c)'
             PROVE  (IF initCall[c].pc = "onInit" THEN Untouched
                                                  ELSE AtStage(c))'
  BY DEF Frontier
<1>1. initCall'[c] = initCall[c] /\ Driving(c) BY DEF NoNewDriver, Driving
<1>2. /\ generation \in Nat /\ initCall[c].gen \in Nat
      /\ initCall[c].gen <= generation
  BY <1>1 DEF TypeOK, RuntimeTypeOK, CallTypeOK, InitCallRecord, DriverInv, OneDriver
<1>3. generation' = generation /\ ~Stale(c) BY <1>1, <1>2 DEF Stale
<1>4. state \in {"INITIALIZING", "ACTIVATING"} BY <1>1, <1>3, Undriven
<1>5. /\ UNCHANGED <<registry, stage, activePlan, buildingPlan,
                     activationScope>>
      /\ Registered' = Registered
  BY <1>2, <1>3, <1>4 DEF Registered
<1> QED BY <1>1, <1>3, <1>5 DEF Frontier, Untouched, AtStage, FrontAt

LEMMA KindPlan ==
  ASSUME TypeInv, OwnerInv, PlanInv,
         Still \/ Recovers \/ Fails \/ Quiesces \/ Disposes
  PROVE  PlanInv'
<1> USE DEF Still, Recovers, Fails, Quiesces, Disposes, Closing
<1>u. UNCHANGED <<registry, stage, activePlan, buildingPlan, activationScope,
                  disposed>>
  BY DEF stillVars
<1>r. Registered' = Registered /\ CleanupPlan' = CleanupPlan BY <1>u DEF Registered, CleanupPlan
<1>1. Fresh' BY <1>u DEF PlanInv, Fresh, Untouched, Settling
<1>2. Frontier'
  <2>1. NoNewDriver BY DEF NoNewDriver
  <2>2. generation' > generation \/ generation' = generation BY DEF TypeOK, RuntimeTypeOK
  <2> QED BY <1>u, <2>1, <2>2, FrontierKept DEF PlanInv
<1>3. Whole' BY <1>u, <1>r DEF PlanInv, Whole
<1>4. PassOrder'
  <2>1. CASE CleaningUp BY <1>u, <1>r, <2>1 DEF PlanInv, PassOrder
  <2>2. CASE ~CleaningUp
    <3>1. \A i \in CleanupPlan : ~(disposed[i] > 0)
      BY <2>2, CleanupSetRegistered DEF RegisteredClaimed
    <3> QED BY <1>u, <1>r, <3>1 DEF PassOrder
  <2> QED BY <2>1, <2>2
<1> QED BY <1>1, <1>2, <1>3, <1>4 DEF PlanInv

\* An initialization starts from nothing.
LEMMA StartsPlan ==
  ASSUME TypeInv, OwnerInv, PlanInv, NEW c \in InitCalls, Starts(c)
  PROVE  Untouched /\ PlanInv'
<1>u. UNCHANGED <<registry, stage, activePlan, buildingPlan, activationScope,
                  disposed, settlement>>
  BY DEF Starts, stillVars
<1>s. state' = "INITIALIZING" /\ ~Settling BY DEF Starts
<1>1. Untouched BY DEF PlanInv, Fresh, Starts, Settling
<1>2. Frontier'
  <2> SUFFICES ASSUME NEW d \in InitCalls, Driving(d)', ~Stale(d)'
               PROVE  initCall'[d].pc = "onInit" /\ Untouched'
    BY DEF Frontier
  <2>1. initCall'[c].pc = "onInit" BY DEF Starts, TypeOK, CallTypeOK
  <2>2. CASE d # c
    <3>1. initCall'[d] = initCall[d] BY <2>2 DEF Starts, TypeOK, CallTypeOK
    <3>2. Driving(d) /\ initCall[d].gen \in Nat /\ generation \in Nat
      BY <3>1 DEF Driving, TypeOK, CallTypeOK, InitCallRecord, RuntimeTypeOK
    <3>3. initCall[d].gen <= generation BY <3>2 DEF DriverInv, OneDriver
    <3> QED BY <3>1, <3>2, <3>3 DEF Starts, Stale
  <2> QED BY <1>u, <1>1, <2>1, <2>2 DEF Untouched
<1> QED
  BY <1>s, <1>u, <1>1, <1>2
     DEF PlanInv, Fresh, Whole, PassOrder, CleaningUp, Settling

LEMMA AssemblesPlan ==
  ASSUME TypeInv, PlanInv, Assembles
  PROVE  PlanInv'
<1>1. Fresh' BY DEF Assembles, PlanInv, Fresh, Untouched
<1>2. Frontier'
  <2>1. NoNewDriver /\ generation' = generation BY DEF Assembles, NoNewDriver
  <2>2. \/ state \notin {"INITIALIZING", "ACTIVATING"}
        \/ UNCHANGED <<registry, stage, activePlan, buildingPlan,
                       activationScope>>
    BY DEF Assembles
  <2> QED BY <2>1, <2>2, FrontierKept DEF PlanInv
<1>3. Whole' BY DEF Assembles, PlanInv, Whole, Registered
<1>4. PassOrder' BY DEF Assembles, PassOrder, CleaningUp
<1> QED BY <1>1, <1>2, <1>3, <1>4 DEF PlanInv

\* A cleanup pass takes the last module of the plan that is left.
LEMMA WalksPlan ==
  ASSUME TypeInv, OwnerInv, AccountInv, PlanInv, NEW i \in Instances, Walks(i)
  PROVE  PlanInv'
<1> DEFINE rest == (Registered \ claims) \cap CleanupPlan
<1>u. UNCHANGED <<state, generation, registry, stage, activePlan, buildingPlan,
                  activationScope, settlement, initCall>>
  BY DEF Walks
<1>p. CleanupPlan' = CleanupPlan /\ CleanupPlan \subseteq Registered
      /\ Registered' = Registered /\ Registered \subseteq Instances
  BY <1>u, CleanupSetRegistered DEF CleanupPlan, Registered, TypeOK, ModuleTypeOK
<1>d. \A j \in Instances : disposed'[j] = IF j = i THEN 1 ELSE disposed[j]
  BY DEF Walks, TypeOK, OwnerTypeOK
<1>1. Fresh' BY <1>u DEF PlanInv, Fresh, Untouched
<1>2. Frontier' BY <1>u, FrontierKept DEF PlanInv, NoNewDriver
<1>3. Whole' BY <1>u, <1>p DEF PlanInv, Whole
<1>4. PassOrder'
  <2>1. ASSUME NEW j \in CleanupPlan, i \in CleanupPlan, Rank[i] < Rank[j]
        PROVE  disposed[j] > 0
    <3>1. rest # {} BY <1>p, <2>1 DEF PassOrder, PlanInv, Walks, NextToDispose
    <3>2. i = Last(rest) /\ rest \in SUBSET Instances BY <1>p, <3>1 DEF Walks, NextToDispose
    <3>3. \A k \in rest : ~(Rank[i] < Rank[k])
      <4>1. \A k \in rest \ {i} : Rank[k] < Rank[i] BY <3>1, <3>2, LastPrecedes
      <4> QED BY <1>p, <4>1, InstancesAssumption
    <3>4. j \in claims BY <1>p, <2>1, <3>3
    <3> QED BY <3>4 DEF AccountInv, ClaimsDisposed
  <2>2. \A j, k \in CleanupPlan :
          Rank[j] < Rank[k] /\ disposed[j] > 0 => disposed[k] > 0
    BY DEF PlanInv, PassOrder, Walks
  <2> QED BY <1>p, <1>d, <2>1, <2>2 DEF PassOrder
<1> QED BY <1>1, <1>2, <1>3, <1>4 DEF PlanInv

LEMMA CleanupPlans ==
  ASSUME TypeInv, OwnerInv, AccountInv, PlanInv, CleanupStep
  PROVE  PlanInv'
<1>1. CASE Clears
  <2>1. Untouched' /\ CleanupPlan' = {} BY <1>1 DEF Clears, Cleared, Untouched, CleanupPlan
  <2>2. state' # "READY" /\ state \notin {"INITIALIZING", "ACTIVATING"}
    BY <1>1 DEF Clears, SettlementState, Settling
  <2>3. Frontier' BY <1>1, <2>2, FrontierKept DEF Clears, PlanInv
  <2> QED BY <2>1, <2>2, <2>3 DEF PlanInv, Fresh, Whole, PassOrder
<1>2. CASE Notifies
  <2>1. UNCHANGED <<state, generation, registry, stage, activePlan,
                    buildingPlan, activationScope, initCall, disposed>>
    BY <1>2 DEF Notifies, stillVars
  <2>2. Registered' = Registered /\ CleanupPlan' = CleanupPlan
    BY <2>1 DEF Registered, CleanupPlan
  <2>3. Frontier' BY <2>1, FrontierKept DEF PlanInv, NoNewDriver
  <2> QED
    BY <1>2, <2>1, <2>2, <2>3 DEF Notifies, PlanInv, Fresh, Untouched, Whole,
       PassOrder, CleaningUp
<1> QED BY <1>1, <1>2, WalksPlan, CleanupKinds

\* The driver of this generation fails it, completes a step, waits for a
\* completion, or has one.
Completes(c, plan, st) ==
  /\ Proceed(c, plan, st)
  /\ UNCHANGED <<registry, staleBlocks>>

Steps(c) ==
  \/ initCall[c].pc = "onInit" /\ Completes(c, Registered, stage)
  \/ /\ initCall[c].pc = "hook"
     /\ Completes(c, buildingPlan, [stage EXCEPT ![initCall[c].at] = @ + 1])
  \/ /\ initCall[c].pc = "async"
     /\ Completes(c, buildingPlan, [stage EXCEPT ![initCall[c].at] = 2])

Awaits(c) ==
  /\ initCall[c].pc \in InActivation
  /\ Goto(c, "actWait", initCall[c].at)
  /\ UNCHANGED <<state, moduleVars, asyncVars, activationScope>>

Activates(c) ==
  /\ initCall[c].pc \in InActivation
  /\ Activated(c)
  /\ UNCHANGED <<registry, asyncVars>>

Blocks(i) ==
  /\ asyncInit[i] # "returned"
  /\ asyncInit' = [asyncInit EXCEPT ![i] = "blocked"]
  /\ staleBlocks' = staleBlocks + 1

FailsDriven(c) ==
  /\ state' = "FAILED"
  /\ \/ UNCHANGED asyncVars
     \/ initCall[c].pc = "async" /\ Blocks(initCall[c].at)

LEMMA DriveKinds ==
  ASSUME TypeInv, NEW c \in InitCalls, Drives(c)
  PROVE  FailsDriven(c) \/ Steps(c) \/ Awaits(c) \/ Activates(c)
<1>s. state \in {"INITIALIZING", "ACTIVATING"} /\ ~Stale(c) BY DrivePasses DEF Drives
<1>f. Fail(initCall[c].gen) => state' = "FAILED"
  BY <1>s DEF Fail, CanFail, Stale, FailInitialization
<1>a. ASSUME ActivationOutcome(c), initCall[c].pc \in InActivation,
             UNCHANGED asyncVars
      PROVE  FailsDriven(c) \/ Activates(c)
  <2>1. CASE CancelMemberScope(c)
    BY <1>a, <1>f, <1>s, <2>1 DEF CancelMemberScope, CanFail, Stale, FailsDriven
  <2>2. CASE FailStep(c) BY <1>a, <1>f, <2>2 DEF FailStep, FailsDriven
  <2>3. CASE Activated(c) /\ UNCHANGED registry BY <1>a, <2>3 DEF Activates
  <2> QED BY <1>a, <2>1, <2>2, <2>3 DEF ActivationOutcome
<1>g. ~GiveUp(c) BY <1>s DEF GiveUp
<1>1. CASE OnInitReturn(c)
  <2>1. state = "INITIALIZING" BY <1>1, <1>s DEF OnInitReturn, DriverInv, DriverState, InStages
  <2> QED
    BY <1>1, <1>f, <1>s, <2>1
       DEF OnInitReturn, FailStep, FailsDriven, Steps, Completes
<1>2. CASE HookReturn(c) BY <1>2, <1>g DEF HookReturn, Steps, Completes
<1>3. CASE AsyncStep(c)
  BY <1>3, <1>g, <1>f
     DEF AsyncStep, FailStep, FailsDriven, Blocks, Steps, Completes
<1>4. CASE ActHookReturn(c)
  <2>1. CASE FailStep(c) \/ ActivationOutcome(c)
    BY <1>4, <1>a, <1>f, <2>1
       DEF ActHookReturn, FailStep, FailsDriven, InActivation
  <2>2. CASE Goto(c, "actWait", initCall[c].at)
             /\ UNCHANGED <<failVars, moduleVars, activationScope>>
    BY <1>4, <2>2 DEF ActHookReturn, Awaits, InActivation
  <2> QED BY <1>4, <2>1, <2>2 DEF ActHookReturn
<1>5. CASE ActPoll(c) BY <1>5, <1>a DEF ActPoll, InActivation
<1> QED
  BY <1>1, <1>2, <1>3, <1>4, <1>5 DEF Drives, CallStep, Driving, InStages,
     InActivation, EmitReturn, JoinResolve

\* A completed step leads to the next module at the front, or to READY with
\* nothing registered.
LEMMA CompletesFront ==
  ASSUME TypeInv, NEW c \in InitCalls, Drives(c),
         NEW st \in [Instances -> 0..4], NEW s \in 0..2,
         Stepped(Registered, st, s), Completes(c, Registered, st),
         state' # "FAILED"
  PROVE  \/ /\ state' = "READY" /\ initCall'[c].pc = "emit"
            /\ activePlan' = Registered' /\ buildingPlan' = {}
            /\ Registered' = {}
         \/ /\ state' # "READY" /\ initCall'[c].pc # "onInit"
            /\ AtStage(c)'
<1> DEFINE n == NextToAdvance(Registered, st)
<1>s. /\ state \in {"INITIALIZING", "ACTIVATING"} /\ ~Stale(c)
      /\ initCall[c].gen = generation /\ CallTypeOK
  BY DrivePasses DEF Drives, Stale, TypeOK
<1>r. Registered' = Registered /\ Registered \in SUBSET Instances
      /\ stage' = st
  BY DEF Completes, Proceed, Registered, TypeOK, ModuleTypeOK
<1>f. ASSUME Registered # {}
      PROVE  FrontAt(Registered, st, n)
  BY <1>f, <1>r, NextAtFront
<1> HIDE DEF n
<1>1. CASE Fail(initCall[c].gen) BY <1>1, <1>s DEF Fail, CanFail, FailInitialization
<1>2. CASE /\ Registered # {} /\ st[n] \in {0, 2} /\ Goto(c, "hook", n)
           /\ buildingPlan' = Registered /\ UNCHANGED failVars
  <2>1. initCall'[c].pc = "hook" /\ initCall'[c].at = n BY <1>s, <1>2, GotoMoves
  <2> QED BY <1>s, <1>r, <1>f, <1>2, <2>1 DEF AtStage, FrontAt, InActivation
<1>3. CASE /\ Registered # {} /\ st[n] = 1 /\ Goto(c, "async", n)
           /\ buildingPlan' = Registered /\ UNCHANGED failVars
  <2>1. initCall'[c].pc = "async" /\ initCall'[c].at = n BY <1>s, <1>3, GotoMoves
  <2> QED BY <1>s, <1>r, <1>f, <1>3, <2>1 DEF AtStage, FrontAt, InActivation
<1>4. CASE /\ Registered # {} /\ st[n] = 3
           /\ BeginActivation(initCall[c].gen)
           /\ Goto(c, "actHook", First(Registered))
           /\ buildingPlan' = Registered
  <2>1. initCall'[c].pc = "actHook" /\ initCall'[c].at = First(Registered)
    BY <1>s, <1>4, GotoMoves
  <2>2. \A j \in Registered : st[j] <= 3 BY DEF Stepped
  <2>3. /\ FrontAt(Registered, st, First(Registered))
        /\ st[First(Registered)] = 3
    BY <1>r, <1>f, <1>4, <2>2, FirstAtFront
  <2> QED
    BY <1>r, <1>4, <2>1, <2>3
       DEF AtStage, FrontAt, InActivation, BeginActivation
<1>5. CASE /\ Registered = {} /\ ActivateNothing(initCall[c].gen)
           /\ initCall' = [Woken EXCEPT ![c].pc = "emit"]
           /\ activePlan' = Registered /\ buildingPlan' = {}
  <2>1. initCall'[c].pc = "emit" BY <1>s, <1>5, WokenType DEF InitCallRecord
  <2> QED BY <1>r, <1>5, <2>1 DEF ActivateNothing
<1> QED BY <1>1, <1>2, <1>3, <1>4, <1>5 DEF Completes, Proceed, n

LEMMA StepsFront ==
  ASSUME TypeInv, Frontier, NEW c \in InitCalls, Drives(c), Steps(c),
         state' # "FAILED"
  PROVE  \/ /\ state' = "READY" /\ initCall'[c].pc = "emit"
            /\ activePlan' = Registered' /\ buildingPlan' = {}
            /\ Registered' = {}
         \/ /\ state' # "READY" /\ initCall'[c].pc # "onInit"
            /\ AtStage(c)'
<1> DEFINE i == initCall[c].at
<1>t. /\ stage \in [Instances -> 0..4] /\ Registered \in SUBSET Instances
      /\ Driving(c) /\ ~Stale(c)
  BY DEF TypeOK, ModuleTypeOK, Registered, Drives
<1>1. CASE initCall[c].pc = "onInit" /\ Completes(c, Registered, stage)
  <2>1. Untouched BY <1>t, <1>1 DEF Frontier
  <2>2. Stepped(Registered, stage, 0) BY <1>t, <2>1 DEF Untouched, Stepped
  <2> QED BY <1>t, <1>1, <2>2, CompletesFront
<1>2. CASE initCall[c].pc \in {"hook", "async"} /\ ~(initCall[c].pc = "onInit")
  <2> DEFINE ts == [stage EXCEPT ![i] = stage[i] + 1]
  <2>1. AtStage(c) /\ stage[i] \in 0..2 BY <1>t, <1>2 DEF Frontier, AtStage
  <2>2. /\ FrontAt(Registered, stage, i) /\ buildingPlan = Registered BY <2>1 DEF AtStage
  <2> HIDE DEF i
  <2>3. stage[i] <= 3 BY <2>1
  <2>4. ts \in [Instances -> 0..4] /\ Stepped(Registered, ts, stage[i])
    BY <1>t, <2>2, <2>3, FrontStepped
  <2>5. Completes(c, Registered, ts)
    <3>1. initCall[c].pc = "async" => stage[i] = 1 BY <2>1 DEF AtStage, i
    <3>2. initCall[c].pc = "async" => stage[i] + 1 = 2 BY <3>1
    <3> QED BY <1>2, <2>2, <3>2 DEF Steps, i
  <2> HIDE DEF ts
  <2> QED BY <2>1, <2>4, <2>5, CompletesFront
<1> QED BY <1>1, <1>2 DEF Steps

LEMMA ActivatesFront ==
  ASSUME TypeInv, Frontier, NEW c \in InitCalls, Drives(c),
         Awaits(c) \/ Activates(c)
  PROVE  \/ /\ state' = "READY" /\ initCall'[c].pc = "emit"
            /\ activePlan' = Registered' /\ buildingPlan' = {}
            /\ \A j \in Registered' : stage'[j] = 4
         \/ /\ state' # "READY" /\ initCall'[c].pc # "onInit"
            /\ AtStage(c)'
<1> DEFINE i == initCall[c].at
           ts == [stage EXCEPT ![i] = 4]
           rest == {j \in Registered : ts[j] < 4}
<1>t. /\ stage \in [Instances -> 0..4] /\ Registered \in SUBSET Instances
      /\ Driving(c) /\ ~Stale(c) /\ CallTypeOK
      /\ initCall[c].pc \in InActivation
      /\ state \in {"INITIALIZING", "ACTIVATING"}
  BY DrivePasses DEF TypeOK, ModuleTypeOK, Registered, Drives, Awaits, Activates
<1>r. Registered' = Registered BY DEF Awaits, Activates, Registered
<1>a. /\ buildingPlan = Registered /\ FrontAt(Registered, stage, i)
      /\ stage[i] = 3
  BY <1>t DEF Frontier, AtStage, InActivation
<1>e. /\ \A j \in Registered : ts[j] = IF j = i THEN 4 ELSE stage[j]
      /\ rest \in SUBSET Registered
      /\ \A j \in Registered : j \in rest <=> ts[j] < 4
  BY <1>t
<1>1. CASE Awaits(c)
  <2>1. initCall'[c].pc = "actWait" /\ initCall'[c].at = i BY <1>t, <1>1, GotoMoves DEF Awaits
  <2> QED BY <1>t, <1>r, <1>a, <1>1, <2>1 DEF Awaits, AtStage, FrontAt, InActivation
<1>2. CASE Activates(c) /\ rest # {}
  <2>1. /\ Goto(c, "actHook", First(rest)) /\ stage' = ts
        /\ UNCHANGED <<state, buildingPlan>>
    BY <1>a, <1>2 DEF Activates, Activated
  <2> HIDE DEF i, ts, rest
  <2>2. FrontAt(Registered, ts, First(rest)) /\ ts[First(rest)] = 3
    BY <1>t, <1>a, <1>e, <1>2, FrontActivated
  <2>3. initCall'[c].pc = "actHook" /\ initCall'[c].at = First(rest) BY <1>t, <2>1, GotoMoves
  <2> QED BY <1>t, <1>r, <1>a, <2>1, <2>2, <2>3 DEF AtStage, FrontAt, InActivation
<1>3. CASE Activates(c) /\ rest = {}
  <2>1. /\ FinishActivation(initCall[c].gen) /\ stage' = ts
        /\ initCall' = [Woken EXCEPT ![c].pc = "emit"]
        /\ activePlan' = buildingPlan /\ buildingPlan' = {}
    BY <1>a, <1>3 DEF Activates, Activated
  <2>2. \A j \in Registered : ts[j] = 4 BY <1>t, <1>a, <1>e, <1>3, FrontActivated
  <2>3. initCall'[c].pc = "emit" BY <1>t, <2>1, WokenType DEF InitCallRecord
  <2> QED BY <1>r, <1>a, <2>1, <2>2, <2>3 DEF FinishActivation
<1> QED BY <1>1, <1>2, <1>3

LEMMA DrivePlan ==
  ASSUME TypeInv, TypeInv', OwnerInv, OwnerInv', PlanInv,
         NEW c \in InitCalls, Drives(c)
  PROVE  PlanInv'
<1>t. TypeOK /\ CallTypeOK BY DEF TypeOK
<1>1. CASE state' = "FAILED"
  <2>1. /\ settlement'.pc = "disposing" /\ UNCHANGED <<registry, disposed>>
        /\ ~CleaningUp
    BY <1>1, DrivePasses DEF CleaningUp, Settling
  <2>2. Frontier'
    <3>1. \A d \in InitCalls : ~(Driving(d)' /\ ~Stale(d)')
      BY <1>1 DEF DriverInv, DriverState, Driving
    <3> QED BY <3>1 DEF Frontier
  <2>3. PassOrder'
    <3>1. \A j \in Registered : ~(disposed[j] > 0) BY <2>1 DEF RegisteredClaimed
    <3>2. CleanupPlan' \subseteq Registered' BY DEF PlansRegistered, CleanupPlan
    <3> QED BY <2>1, <3>1, <3>2 DEF PassOrder, Registered
  <2> QED BY <1>1, <2>1, <2>2, <2>3 DEF PlanInv, Fresh, Whole
<1>2. CASE state' # "FAILED"
  <2>1. /\ UNCHANGED <<settlement, generation>> /\ ~CleaningUp'
        /\ state' \notin {"NEW", "FAILED"}
    BY <1>2, DrivePasses DEF CleaningUp, Settling
  <2>2. \/ /\ state' = "READY" /\ initCall'[c].pc = "emit"
           /\ activePlan' = Registered' /\ buildingPlan' = {}
           /\ \A j \in Registered' : stage'[j] = 4
        \/ /\ state' # "READY" /\ initCall'[c].pc # "onInit"
           /\ AtStage(c)'
    BY <1>2, DriveKinds, StepsFront, ActivatesFront DEF PlanInv, FailsDriven
  <2>3. Frontier'
    <3>1. ASSUME NEW d \in InitCalls \ {c}, Driving(d)', ~Stale(d)'
          PROVE  FALSE
      <4>1. initCall'[d] = initCall[d]
        BY <1>t, <3>1, OthersWait DEF Drives, Driving, InStages, InActivation
      <4>2. Driving(d) /\ ~Stale(d) BY <2>1, <3>1, <4>1 DEF Driving, Stale
      <4> QED BY <4>2 DEF Drives, DriverInv, OneDriver
    <3> QED BY <2>2, <3>1 DEF Frontier, Driving, InStages, InActivation
  <2> QED BY <2>1, <2>2, <2>3 DEF PlanInv, Fresh, Whole, PassOrder
<1> QED BY <1>1, <1>2

LEMMA PlanStep ==
  ASSUME TypeInv, TypeInv', OwnerInv, OwnerInv', AccountInv, PlanInv,
         [Next]_vars
  PROVE  PlanInv'
BY StepKinds, KindPlan, StartsPlan, DrivePlan, RegistrationAssembles,
   AssemblesPlan, CleanupPlans DEF StepKind

\* PlanInv holds throughout.
THEOREM PlanInvariant ==
  ASSUME ~SelfRegistering
  PROVE  Spec => []PlanInv
<1>1. TypeInv /\ TypeInv' /\ OwnerInv /\ OwnerInv' /\ AccountInv /\ PlanInv
        /\ [Next]_vars => PlanInv'
  BY PlanStep
<1> QED
  BY InitPlanInv, TypeInvariant, OwnerInvariant, AccountInvariant, <1>1, PTL
     DEF Spec

-----------------------------------------------------------------------------
\* The stale write block

Blocked == {i \in Instances : asyncInit[i] = "blocked"}

\* The block counts the coroutines that timed out and have not returned, and
\* while an architecture is assembled, starts or serves there is none.
BlockInv ==
  /\ IsFiniteSet(Blocked) /\ Cardinality(Blocked) = staleBlocks
  /\ state \notin {"FAILED"} \cup Closing => staleBlocks = 0

LEMMA InitBlockInv == Init => BlockInv
<1> SUFFICES ASSUME Init PROVE BlockInv OBVIOUS
<1>1. Blocked = {} BY DEF Init, Blocked
<1> QED BY <1>1, FS_EmptySet DEF Init, BlockInv

LEMMA AsyncMoves ==
  ASSUME TypeInv, [Next]_vars
  PROVE  \/ UNCHANGED asyncVars
         \/ \E i \in Instances : AsyncReturn(i)
         \/ \E c \in InitCalls : Drives(c)
<1>1. CASE Operation
  BY <1>1 DEF Operation, BeginProjectInstallers, MarkProjectInstallersApplied,
     RegisterBegin, ReplaceBegin, UnregisterInactive, InitCall, CancelToken,
     AsyncSelfCancel, PublicFail, ShutdownCall, CancelShutdownToken, DisposeCall
<1>2. ASSUME NEW c \in InitCalls, CallStep(c), ~Drives(c)
      PROVE  UNCHANGED asyncVars
  <2>1. CASE Stale(c) BY <1>2, <2>1, StaleStep
  <2>2. CASE ~Driving(c)
    BY <1>2, <2>2 DEF Driving, CallStep, OnInitReturn, HookReturn, AsyncStep,
       ActHookReturn, ActPoll, InStages, InActivation, EmitReturn, JoinResolve
  <2> QED BY <1>2, <2>1, <2>2 DEF Drives
<1>3. CASE \E t \in TransactionIds : RegistrationStep(t)
  BY <1>3 DEF RegistrationStep, RegisterEnd, ReplaceEnd, ReplaceCommit,
     replaceFrame
<1>4. CASE CleanupStep
  BY <1>4 DEF CleanupStep, SettleDispose, DisposeModule, SettleClear,
     SettleEnd, FinishDisposal
<1>5. CASE QuiesceStep \/ \E s \in ShutdownCalls : ShutdownResolve(s)
  BY <1>5 DEF QuiesceStep, QuiesceHookReturn, QuiescePoll, quiesceFrame, ShutdownResolve
<1>6. CASE UNCHANGED vars BY <1>6 DEF vars
<1> QED BY <1>1, <1>2, <1>3, <1>4, <1>5, <1>6 DEF Next

\* Assembling and starting are reached without a block only.
LEMMA OpensUnblocked ==
  ASSUME TypeInv, OwnerInv, AccountInv, BlockInv, [Next]_vars,
         state' \notin {"FAILED"} \cup Closing
  PROVE  staleBlocks = 0
<1>1. CASE CleanupStep
  BY <1>1, CleanupKinds DEF Walks, Clears, Notifies, stillVars, BlockInv,
     Closing
<1>2. ASSUME NEW c \in InitCalls, Drives(c)
      PROVE  staleBlocks = 0
  BY <1>2, DrivePasses DEF BlockInv, Closing
<1>3. CASE Assembles BY <1>3 DEF Assembles, BlockInv
<1>4. CASE Still \/ Recovers \/ \E c \in InitCalls : Starts(c)
  BY <1>4 DEF Still, Recovers, Starts, BlockInv, Closing
<1> QED
  BY <1>1, <1>2, <1>3, <1>4, StepKinds, RegistrationAssembles
     DEF StepKind, Fails, Quiesces, Disposes, Closing

LEMMA ReturnBlocks ==
  ASSUME TypeInv, BlockInv, NEW i \in Instances, AsyncReturn(i)
  PROVE  /\ IsFiniteSet(Blocked') /\ Cardinality(Blocked') = staleBlocks'
         /\ staleBlocks = 0 => staleBlocks' = 0
<1>t. staleBlocks \in Nat /\ IsFiniteSet(Blocked)
      /\ Cardinality(Blocked) = staleBlocks
  BY DEF TypeOK, AsyncTypeOK, BlockInv
<1>1. Blocked' = Blocked \ {i} BY DEF AsyncReturn, Blocked, TypeOK, AsyncTypeOK
<1>2. CASE i \in Blocked
  <2>1. Cardinality(Blocked) # 0 BY <1>t, <1>2, FS_EmptySet
  <2>2. staleBlocks' = staleBlocks - 1 BY <1>t, <1>2, <2>1 DEF AsyncReturn, Blocked
  <2> QED BY <1>t, <1>1, <1>2, <2>1, <2>2, FS_RemoveElement
<1>3. CASE i \notin Blocked
  <2>1. Blocked' = Blocked /\ staleBlocks' = staleBlocks BY <1>1, <1>3 DEF AsyncReturn, Blocked
  <2> QED BY <1>t, <2>1
<1> QED BY <1>2, <1>3

LEMMA DriveBlocks ==
  ASSUME TypeInv, OwnerInv, BlockInv, Frontier, NEW c \in InitCalls, Drives(c)
  PROVE  /\ IsFiniteSet(Blocked') /\ Cardinality(Blocked') = staleBlocks'
         /\ state' # "FAILED" => staleBlocks' = staleBlocks
<1>t. /\ IsFiniteSet(Blocked) /\ Cardinality(Blocked) = staleBlocks
      /\ staleBlocks = 0
      /\ asyncInit \in
           [Instances -> {"none", "running", "blocked", "returned"}]
  BY DrivePasses DEF TypeOK, AsyncTypeOK, BlockInv, Closing
<1>0. Blocked = {} BY <1>t, FS_EmptySet
<1>1. CASE UNCHANGED asyncVars BY <1>t, <1>1 DEF asyncVars, Blocked
<1>2. ASSUME NEW i, asyncInit' = [asyncInit EXCEPT ![i] = "running"]
      PROVE  Blocked' = {}
  BY <1>t, <1>0, <1>2 DEF Blocked
<1>3. CASE Steps(c)
  <2>1. UNCHANGED staleBlocks /\ Blocked' = {}
    BY <1>0, <1>2, <1>3 DEF Steps, Completes, Proceed, Blocked
  <2> QED BY <1>t, <1>0, <2>1
<1>4. CASE Awaits(c) \/ Activates(c) BY <1>1, <1>4 DEF Awaits, Activates
<1>5. CASE FailsDriven(c)
  <2>1. CASE initCall[c].pc = "async" /\ Blocks(initCall[c].at)
    <3> DEFINE i == initCall[c].at
    <3>1. i \in Registered BY <2>1 DEF Frontier, AtStage, FrontAt, Drives
    <3>2. i \in Instances BY <3>1 DEF Registered, TypeOK, ModuleTypeOK
    <3>3. /\ asyncInit' = [asyncInit EXCEPT ![i] = "blocked"]
          /\ staleBlocks' = staleBlocks + 1
      BY <2>1 DEF Blocks
    <3> HIDE DEF i
    <3>4. Blocked' = Blocked \cup {i} /\ i \notin Blocked BY <1>t, <1>0, <3>2, <3>3 DEF Blocked
    <3> QED BY <1>t, <1>5, <3>3, <3>4, FS_AddElement DEF FailsDriven
  <2> QED BY <1>1, <1>5, <2>1 DEF FailsDriven
<1> QED BY <1>3, <1>4, <1>5, DriveKinds

LEMMA BlockStep ==
  ASSUME TypeInv, OwnerInv, AccountInv, PlanInv, BlockInv, [Next]_vars
  PROVE  BlockInv'
<1>0. state' \notin {"FAILED"} \cup Closing => staleBlocks = 0 BY OpensUnblocked
<1>1. CASE UNCHANGED asyncVars BY <1>0, <1>1 DEF asyncVars, BlockInv, Blocked
<1>2. ASSUME NEW i \in Instances, AsyncReturn(i)
      PROVE  BlockInv'
  BY <1>0, <1>2, ReturnBlocks DEF BlockInv
<1>3. ASSUME NEW c \in InitCalls, Drives(c)
      PROVE  BlockInv'
  BY <1>0, <1>3, DriveBlocks DEF BlockInv, PlanInv, Closing
<1> QED BY <1>1, <1>2, <1>3, AsyncMoves

\* BlockInv holds throughout.
THEOREM BlockInvariant ==
  ASSUME ~SelfRegistering
  PROVE  Spec => []BlockInv
<1>1. TypeInv /\ OwnerInv /\ AccountInv /\ PlanInv /\ BlockInv /\ [Next]_vars
        => BlockInv'
  BY BlockStep
<1> QED
  BY InitBlockInv, TypeInvariant, OwnerInvariant, AccountInvariant,
     PlanInvariant, <1>1, PTL DEF Spec

-----------------------------------------------------------------------------
\* What follows

LEMMA StagesFollow ==
  ASSUME TypeInv, OwnerInv, PlanInv
  PROVE  StagesInOrder
<1>t. /\ stage \in [Instances -> 0..4] /\ Registered \in SUBSET Instances
      /\ disposed \in [Instances -> Nat]
  BY DEF TypeOK, ModuleTypeOK, OwnerTypeOK, Registered
<1>1. ASSUME NEW c \in InitCalls, ~Stale(c),
             initCall[c].pc \in {"hook", "async", "actHook", "actWait"},
             NEW j \in buildingPlan
      PROVE  LET i == initCall[c].at IN
             /\ stage[i] <= stage[j]
             /\ KeyOf[j] \in Deps[KeyOf[i]] => stage[i] < stage[j]
  <2> DEFINE i == initCall[c].at
  <2>1. buildingPlan = Registered /\ FrontAt(buildingPlan, stage, i)
    BY <1>1 DEF PlanInv, Frontier, AtStage, Driving, InStages, InActivation
  <2> HIDE DEF i
  <2>2. /\ i \in Instances /\ j \in Instances
        /\ stage[i] \in Nat /\ stage[j] \in Nat
        /\ stage[j] = IF Rank[j] < Rank[i] THEN stage[i] + 1 ELSE stage[i]
    BY <1>t, <2>1 DEF FrontAt
  <2>3. KeyOf[j] \in Deps[KeyOf[i]] => Rank[j] < Rank[i] BY <2>2, InstancesAssumption
  <2>4. stage[i] <= stage[j]
        /\ (KeyOf[j] \in Deps[KeyOf[i]] => stage[i] < stage[j])
    BY <2>2, <2>3
  <2> QED BY <2>4 DEF i
<1>2. ASSUME state = "READY"
      PROVE  /\ activePlan = Registered /\ buildingPlan = {}
             /\ \A i \in Registered : stage[i] = 4 /\ disposed[i] = 0
  <2>1. ~CleaningUp BY <1>2 DEF CleaningUp, SettlementState, Settling
  <2>2. \A i \in Registered : disposed[i] \in Nat /\ ~(disposed[i] > 0)
    BY <1>t, <2>1 DEF RegisteredClaimed
  <2> QED BY <1>2, <2>2 DEF PlanInv, Whole
<1> QED BY <1>1, <1>2 DEF StagesInOrder

LEMMA DependentsFollow ==
  ASSUME TypeInv, ShutdownInv, PlanInv
  PROVE  DependentsFirst
<1>t. \A i, j \in Instances : KeyOf[i] \in Deps[KeyOf[j]] =>
        Rank[i] < Rank[j] /\ ~(Rank[j] < Rank[i]) /\ i # j
  BY InstancesAssumption
<1>1. ASSUME shutdown.pc # "none", state = "QUIESCING", NEW j \in activePlan,
             KeyOf[shutdown.at] \in Deps[KeyOf[j]]
      PROVE  j \in shutdown.finished \cup shutdown.unfinished
  <2>1. shutdown.at \in Instances /\ j \in Instances
    BY <1>1 DEF TypeOK, ClosingTypeOK, ModuleTypeOK, ShutdownRecord, NoShutdown
  <2>2. ~(Rank[j] < Rank[shutdown.at]) /\ j # shutdown.at BY <1>t, <1>1, <2>1
  <2> QED BY <1>1, <2>2 DEF ShutdownInv, AskedInTurn
<1>2. CleanupPlan \subseteq Instances BY DEF CleanupPlan, TypeOK, ModuleTypeOK
<1>3. CleaningUp => \A i, j \in CleanupPlan :
        KeyOf[i] \in Deps[KeyOf[j]] /\ disposed[i] > 0 => disposed[j] > 0
  BY <1>t, <1>2 DEF PlanInv, PassOrder
<1> QED BY <1>1, <1>3 DEF DependentsFirst

\* Every stage runs in dependency order over a plan that is committed whole, and
\* modules quiesce and are disposed in the reverse of that order.
THEOREM DependenciesAreRespected ==
  ASSUME ~SelfRegistering
  PROVE  Spec => []DependenciesRespected
<1>1. TypeInv /\ OwnerInv /\ ShutdownInv /\ PlanInv => DependenciesRespected
  BY StagesFollow, DependentsFollow DEF DependenciesRespected
<1> QED BY TypeInvariant, OwnerInvariant, ShutdownInvariant, PlanInvariant, <1>1, PTL

\* Only the beginning of an initialization leads to INITIALIZING.
LEMMA InitializingStarts ==
  ASSUME TypeInv, OwnerInv, AccountInv, [Next]_vars,
         state' = "INITIALIZING", state # "INITIALIZING"
  PROVE  \E c \in InitCalls : Starts(c)
<1>1. ~CleanupStep BY CleanupKinds DEF Walks, Clears, Notifies
<1>2. \A c \in InitCalls : ~Drives(c) BY DrivePasses
<1>3. ~Assembles BY DEF Assembles
<1> QED
  BY <1>1, <1>2, <1>3, StepKinds, RegistrationAssembles
     DEF StepKind, Still, Recovers, Fails, Quiesces, Disposes

\* An initialization starts from a clean architecture, with no module staged,
\* planned or disposed and no late async_init that may still write.
THEOREM RestartsAreClean ==
  ASSUME ~SelfRegistering
  PROVE  Spec => RestartsClean
<1>1. ASSUME TypeInv, OwnerInv, AccountInv, PlanInv, BlockInv, [Next]_vars,
             state' = "INITIALIZING", state # "INITIALIZING"
      PROVE  /\ ~Settling
             /\ staleBlocks = 0 /\ \A i \in Instances : asyncInit[i] # "blocked"
             /\ activePlan = {} /\ buildingPlan = {} /\ activationScope = 0
             /\ \A i \in Instances : stage[i] = 0
             /\ \A i \in Registered : disposed[i] = 0
  <2> PICK c \in InitCalls : Starts(c) BY <1>1, InitializingStarts
  <2>1. Untouched BY <1>1, StartsPlan
  <2>2. staleBlocks = 0 BY <1>1 DEF Starts, BlockInv, Closing
  <2>3. Blocked = {} BY <1>1, <2>2, FS_EmptySet DEF BlockInv
  <2>4. ~Settling /\ Unwound BY DEF Starts, Unwound
  <2>5. \A i \in Registered : disposed[i] = 0 BY <1>1, <2>4, Assembling
  <2> QED BY <2>1, <2>2, <2>3, <2>4, <2>5 DEF Untouched, Blocked
<1>2. TypeInv /\ OwnerInv /\ AccountInv /\ PlanInv /\ BlockInv /\ [Next]_vars
        => [state' = "INITIALIZING" /\ state # "INITIALIZING" =>
             /\ ~Settling
             /\ staleBlocks = 0 /\ \A i \in Instances : asyncInit[i] # "blocked"
             /\ activePlan = {} /\ buildingPlan = {} /\ activationScope = 0
             /\ \A i \in Instances : stage[i] = 0
             /\ \A i \in Registered : disposed[i] = 0]_vars
  BY <1>1
<1> QED
  BY TypeInvariant, OwnerInvariant, AccountInvariant, PlanInvariant,
     BlockInvariant, <1>2, PTL DEF Spec, RestartsClean

-----------------------------------------------------------------------------
\* The architecture keeps its contract

Held == {i \in taken : disposed[i] = 0}
InService == IF state = "READY" THEN activePlan ELSE {}

ContractUnchanged == UNCHANGED <<Phase, Held, InService, disposed>>

ContractStep == Contract!ContractNext \/ ContractUnchanged

\* What is held is registered; when no cleanup pass runs it is all of it.
LEMMA HeldRegistered ==
  ASSUME TypeInv, OwnerInv, AccountInv
  PROVE  /\ Held \subseteq Registered
         /\ ~CleaningUp => Held = Registered
<1>t. disposed \in [Instances -> Nat] /\ taken \subseteq Instances
      /\ Registered \subseteq Instances
  BY DEF TypeOK, OwnerTypeOK, ModuleTypeOK, Registered
<1>1. Held \subseteq Registered BY <1>t DEF Held, AccountInv, TakenAccounted
<1>2. ASSUME ~CleaningUp
      PROVE  \A i \in Registered : i \in taken /\ disposed[i] = 0
  BY <1>t, <1>2 DEF AccountInv, TakenAccounted, RegisteredClaimed
<1> QED BY <1>1, <1>2 DEF Held

LEMMA KindContract ==
  ASSUME TypeInv, OwnerInv, AccountInv,
         \/ Still \/ Recovers \/ Fails \/ Quiesces \/ Disposes
         \/ \E c \in InitCalls : Starts(c)
  PROVE  ContractStep
<1> USE DEF stillVars
<1>u. UNCHANGED <<Held, disposed>>
  BY DEF Still, Recovers, Fails, Quiesces, Disposes, Starts, Held
<1>s. state \in LifecycleState BY DEF TypeOK, RuntimeTypeOK
<1>e. state = "FAILED" /\ ~Settling => Held = {} BY HeldRegistered DEF Emptied, Settling
<1>1. CASE Still BY <1>u, <1>1 DEF Still, ContractStep, ContractUnchanged, InService, Phase
<1>2. CASE Recovers
  <2>1. Contract!Recover BY <1>u, <1>e, <1>2 DEF Recovers, Contract!Recover, Held, Phase
  <2> QED BY <2>1 DEF ContractStep, Contract!ContractNext
<1>3. CASE \E c \in InitCalls : Starts(c)
  <2>1. Contract!Start BY <1>u, <1>e, <1>3 DEF Starts, Contract!Start, Held, Phase
  <2> QED BY <2>1 DEF ContractStep, Contract!ContractNext
<1>4. CASE Fails
  <2>1. CASE state = "FAILED"
    BY <1>u, <1>4, <2>1
       DEF Fails, ContractStep, ContractUnchanged, InService, Phase
  <2>2. CASE state # "FAILED"
    <3>1. Contract!Fail
      BY <1>s, <1>u, <1>4, <2>2
         DEF Fails, Contract!Fail, Held, Phase, LifecycleState, Closing
    <3> QED BY <3>1 DEF ContractStep, Contract!ContractNext
  <2> QED BY <2>1, <2>2
<1>5. CASE (Quiesces \/ Disposes) /\ state # "QUIESCING"
  <2>1. Contract!Close
    BY <1>s, <1>u, <1>5
       DEF Quiesces, Disposes, Contract!Close, Held, Phase, LifecycleState,
           Closing
  <2> QED BY <2>1 DEF ContractStep, Contract!ContractNext
<1>6. CASE (Quiesces \/ Disposes) /\ state = "QUIESCING"
  BY <1>u, <1>6 DEF Quiesces, Disposes, ContractStep, ContractUnchanged,
     InService, Phase, Closing
<1> QED BY <1>1, <1>2, <1>3, <1>4, <1>5, <1>6

LEMMA DriveContract ==
  ASSUME TypeInv, OwnerInv, AccountInv, PlanInv', NEW c \in InitCalls, Drives(c)
  PROVE  ContractStep
<1>u. UNCHANGED <<Held, disposed>> /\ Registered' = Registered
  BY DrivePasses DEF Held, Registered
<1>s. state \in {"INITIALIZING", "ACTIVATING"}
      /\ state' \in {"INITIALIZING", "ACTIVATING", "READY", "FAILED"}
  BY DrivePasses
<1>1. CASE state' = "FAILED"
  <2>1. Contract!Fail BY <1>u, <1>s, <1>1 DEF Contract!Fail, Held, Phase
  <2> QED BY <2>1 DEF ContractStep, Contract!ContractNext
<1>2. CASE state' = "READY"
  <2>1. ~CleaningUp BY <1>s, DrivePasses DEF CleaningUp, Settling
  <2>2. activePlan' = Held BY <1>u, <1>2, <2>1, HeldRegistered DEF PlanInv, Whole
  <2>3. Contract!Serve BY <1>u, <1>s, <1>2, <2>2 DEF Contract!Serve, Held, Phase
  <2> QED BY <2>3 DEF ContractStep, Contract!ContractNext
<1>3. CASE state' \in {"INITIALIZING", "ACTIVATING"}
  BY <1>u, <1>s, <1>3 DEF ContractStep, ContractUnchanged, InService, Phase
<1> QED BY <1>s, <1>1, <1>2, <1>3

LEMMA AssemblesContract ==
  ASSUME TypeInv, OwnerInv, AccountInv, Assembles
  PROVE  ContractStep
<1>t. /\ disposed \in [Instances -> Nat]
      /\ taken \subseteq Instances /\ Registered \subseteq taken
  BY DEF TypeOK, OwnerTypeOK, AccountInv, TakenAccounted
<1>u. UNCHANGED <<state, activePlan, Phase, InService>> BY DEF Assembles, Phase, InService
<1>1. ASSUME NEW i \in Instances, Takes(i)
      PROVE  ContractStep
  <2>1. i \notin Held /\ Held' = Held \cup {i} BY <1>1, HeldRegistered DEF Takes, Held
  <2>2. Contract!Accept(i) BY <1>u, <1>1, <2>1 DEF Takes, Contract!Accept, Held, Phase
  <2> QED BY <2>2 DEF ContractStep, Contract!ContractNext
<1>2. ASSUME NEW i \in Instances, Refuses(i)
      PROVE  ContractStep
  <2>1. i \notin Held BY <1>2, HeldRegistered DEF Refuses
  <2>2. Held' = Held BY <1>t, <1>2, <2>1 DEF Refuses, Held
  <2>3. Contract!Reject(i)
    BY <1>u, <1>2, <2>1, <2>2
       DEF Refuses, Contract!Reject, Contract!Released, Held, Phase, InService
  <2> QED BY <2>3 DEF ContractStep, Contract!ContractNext
<1>3. ASSUME NEW i \in Instances, Removes(i)
      PROVE  ContractStep
  <2>1. i \in Held /\ Held' = Held \ {i} BY <1>t, <1>3 DEF Removes, Held
  <2>2. Contract!Release(i)
    BY <1>u, <1>3, <2>1
       DEF Removes, Contract!Release, Contract!Released, Held, Phase, InService
  <2> QED BY <2>2 DEF ContractStep, Contract!ContractNext
<1>4. CASE UNCHANGED <<registry, disposed, taken>>
  BY <1>u, <1>4 DEF ContractStep, ContractUnchanged, Held
<1> QED BY <1>1, <1>2, <1>3, <1>4 DEF Assembles

LEMMA CleanupContract ==
  ASSUME TypeInv, OwnerInv, AccountInv, CleanupStep
  PROVE  ContractStep
<1>t. /\ disposed \in [Instances -> Nat]
      /\ taken \subseteq Instances /\ Registered \subseteq taken
  BY DEF TypeOK, OwnerTypeOK, AccountInv, TakenAccounted
<1>1. ASSUME NEW i \in Instances, Walks(i)
      PROVE  ContractStep
  <2>1. i \in Held /\ Held' = Held \ {i} BY <1>t, <1>1 DEF Walks, Held
  <2>2. Contract!Release(i)
    BY <1>1, <2>1
       DEF Walks, Contract!Release, Contract!Released, Held, Phase
  <2> QED BY <2>2 DEF ContractStep, Contract!ContractNext
<1>2. CASE Clears
  <2>1. Held = {} /\ Held' = {}
    <3>1. \A i \in Registered : disposed[i] # 0 BY <1>t, <1>2 DEF Clears
    <3>2. Held = {} BY <3>1, HeldRegistered DEF Held
    <3> QED BY <1>2, <3>2 DEF Clears, Held
  <2>2. CASE UNCHANGED state
    BY <1>2, <2>1, <2>2 DEF Clears, ContractStep, ContractUnchanged, InService,
       Phase
  <2>3. CASE state = "DISPOSING" /\ state' = "DISPOSED"
    <3>1. Contract!Finish BY <1>2, <2>1, <2>3 DEF Clears, Contract!Finish, Held, Phase
    <3> QED BY <3>1 DEF ContractStep, Contract!ContractNext
  <2> QED BY <1>2, <2>2, <2>3 DEF Clears
<1>3. CASE Notifies
  BY <1>3 DEF Notifies, stillVars, ContractStep, ContractUnchanged, Held,
     InService, Phase
<1> QED BY <1>1, <1>2, <1>3, CleanupKinds

LEMMA NextContract ==
  ASSUME TypeInv, OwnerInv, AccountInv, PlanInv', [Next]_vars
  PROVE  ContractStep
BY StepKinds, KindContract, DriveContract, RegistrationAssembles,
   AssemblesContract, CleanupContract DEF StepKind

LEMMA InitContract == Init => Contract!ContractInit
BY DEF Init, RuntimeInit, Contract!ContractInit, Phase

\* The architecture keeps its contract: every behaviour of init(), registration,
\* failure, shutdown and disposal is one of ArchitectureContract.
THEOREM ContractIsKept ==
  ASSUME ~SelfRegistering
  PROVE  Spec => KeepsContract
<1>1. TypeInv /\ OwnerInv /\ AccountInv /\ PlanInv' /\ [Next]_vars
        => [Contract!ContractNext]_(Contract!contractVars)
  BY NextContract DEF ContractStep, ContractUnchanged, Contract!contractVars,
     Held, InService
<1> QED
  BY InitContract, TypeInvariant, OwnerInvariant, AccountInvariant,
     PlanInvariant, <1>1, PTL
     DEF Spec, KeepsContract, Contract!ContractSpec
=============================================================================
