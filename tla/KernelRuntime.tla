--------------------------- MODULE KernelRuntime ---------------------------
(***************************************************************************)
(* GFKernelRuntime: the main lifecycle state machine of an architecture.   *)
(* It owns the lifecycle state, the lifecycle generation and the contexts  *)
(* of open registration transactions.  Every operation of the class that   *)
(* changes state is an action here, and an operation the class refuses     *)
(* (it returns false or -1) is an action that is not enabled.  The         *)
(* architecture modules extend this one and conjoin its actions.           *)
(***************************************************************************)
EXTENDS Naturals

CONSTANT TransactionIds      \* open transactions, by nesting depth or owner

VARIABLES
  state,                     \* _state
  generation,                \* _lifecycle_generation
  transactions               \* _transactions, as the callers still hold them

runtimeVars == <<state, generation, transactions>>

LifecycleState ==
  {"NEW", "INITIALIZING", "ACTIVATING", "READY", "FAILED", "QUIESCING",
   "DISPOSING", "DISPOSED"}

Transaction ==
  [open: BOOLEAN, generation: Nat, failed: BOOLEAN, cancelled: BOOLEAN]

NoTransaction ==
  [open |-> FALSE, generation |-> 0, failed |-> FALSE, cancelled |-> FALSE]

RuntimeTypeOK ==
  /\ state \in LifecycleState
  /\ generation \in Nat
  /\ transactions \in [TransactionIds -> Transaction]

RuntimeInit ==
  /\ state = "NEW"
  /\ generation = 0
  /\ transactions = [t \in TransactionIds |-> NoTransaction]

-----------------------------------------------------------------------------

BeginInitialization ==
  /\ state = "NEW"
  /\ generation' = generation + 1
  /\ state' = "INITIALIZING"
  /\ UNCHANGED transactions

BeginActivation(g) ==
  /\ g = generation
  /\ state = "INITIALIZING"
  /\ state' = "ACTIVATING"
  /\ UNCHANGED <<generation, transactions>>

FinishActivation(g) ==
  /\ g = generation
  /\ state = "ACTIVATING"
  /\ state' = "READY"
  /\ UNCHANGED <<generation, transactions>>

CanFail(g) ==
  /\ state \notin {"FAILED", "QUIESCING", "DISPOSING", "DISPOSED"}
  /\ g = generation

MarkTransactionsFailed ==
  transactions' = [t \in TransactionIds |->
    [transactions[t] EXCEPT !.failed = transactions[t].open \/ @]]

FailInitialization(g) ==
  /\ CanFail(g)
  /\ generation' = generation + 1
  /\ state' = "FAILED"
  /\ MarkTransactionsFailed

ClearFailure ==
  /\ state = "FAILED"
  /\ state' = "NEW"
  /\ UNCHANGED <<generation, transactions>>

\* clear_failure() and begin_initialization() in one synchronous call
RestartAfterFailure ==
  /\ state = "FAILED"
  /\ generation' = generation + 1
  /\ state' = "INITIALIZING"
  /\ UNCHANGED transactions

\* clear_failure() if it is needed, begin_initialization() and
\* fail_initialization() in one synchronous call
BeginAndFailInitialization ==
  /\ state \in {"NEW", "FAILED"}
  /\ generation' = generation + 2
  /\ state' = "FAILED"
  /\ MarkTransactionsFailed

\* begin_activation() and finish_activation() with no module in between
ActivateNothing(g) ==
  /\ g = generation
  /\ state = "INITIALIZING"
  /\ state' = "READY"
  /\ UNCHANGED <<generation, transactions>>

BeginQuiesce ==
  /\ state \notin {"QUIESCING", "DISPOSING", "DISPOSED"}
  /\ state' = "QUIESCING"
  /\ UNCHANGED <<generation, transactions>>

BeginDispose ==
  /\ state \notin {"DISPOSING", "DISPOSED"}
  /\ generation' = generation + 1
  /\ state' = "DISPOSING"
  /\ transactions' = [t \in TransactionIds |->
       [transactions[t] EXCEPT !.cancelled = transactions[t].open \/ @]]

FinishDispose ==
  /\ state = "DISPOSING"
  /\ state' = "DISPOSED"
  /\ UNCHANGED <<generation, transactions>>

BeginTransaction(t) ==
  /\ ~transactions[t].open
  /\ transactions' = [transactions EXCEPT
       ![t] = [NoTransaction EXCEPT !.open = TRUE, !.generation = generation]]
  /\ UNCHANGED <<state, generation>>

FinishTransaction(t) ==
  /\ transactions[t].open
  /\ transactions' = [transactions EXCEPT ![t] = NoTransaction]
  /\ UNCHANGED <<state, generation>>

\* finish_transaction() and begin_dispose() in one synchronous call
FinishTransactionAndDispose(t) ==
  /\ transactions[t].open
  /\ state \notin {"DISPOSING", "DISPOSED"}
  /\ generation' = generation + 1
  /\ state' = "DISPOSING"
  /\ transactions' = [u \in TransactionIds |->
       IF u = t THEN NoTransaction
       ELSE [transactions[u] EXCEPT !.cancelled = transactions[u].open \/ @]]

IsTransactionInvalidated(t) ==
  \/ transactions[t].failed
  \/ transactions[t].cancelled
  \/ transactions[t].generation # generation
=============================================================================
