------------------------ MODULE ArchitectureContract ------------------------
(***************************************************************************)
(* What an architecture promises the project that fills it with modules,   *)
(* whatever the order in which hooks, frames and callers come:             *)
(*   - a module is accepted only while the architecture is assembled;      *)
(*   - the modules enter service together, and it is all of them;          *)
(*   - a module in service is not released;                                *)
(*   - every module the architecture took is released once, before it can  *)
(*     start again and before it is closed.                                *)
(* ArchitectureLifecycle implements it.                                    *)
(***************************************************************************)
EXTENDS Naturals

CONSTANT Modules

VARIABLES
  phase,      \* of the architecture
  owned,      \* modules accepted and not yet released
  serving,    \* modules in service
  releases    \* [Modules -> Nat], how often each was released

contractVars == <<phase, owned, serving, releases>>

Phase == {"assembling", "starting", "serving", "failed", "closing", "closed"}

ContractInit ==
  /\ phase = "assembling"
  /\ owned = {}
  /\ serving = {}
  /\ releases = [m \in Modules |-> 0]

Released(m) == releases' = [releases EXCEPT ![m] = @ + 1]

Accept(m) ==
  /\ phase = "assembling"
  /\ m \notin owned
  /\ releases[m] = 0
  /\ owned' = owned \cup {m}
  /\ UNCHANGED <<phase, serving, releases>>

\* A candidate that is not accepted is released too, at any time.
Reject(m) ==
  /\ m \notin owned
  /\ releases[m] = 0
  /\ Released(m)
  /\ UNCHANGED <<phase, owned, serving>>

Release(m) ==
  /\ phase \in {"assembling", "failed", "closing"}
  /\ m \in owned
  /\ Released(m)
  /\ owned' = owned \ {m}
  /\ UNCHANGED <<phase, serving>>

Start ==
  /\ phase = "assembling" \/ (phase = "failed" /\ owned = {})
  /\ phase' = "starting"
  /\ UNCHANGED <<owned, serving, releases>>

Serve ==
  /\ phase = "starting"
  /\ phase' = "serving"
  /\ serving' = owned
  /\ UNCHANGED <<owned, releases>>

Fail ==
  /\ phase \in {"assembling", "starting", "serving"}
  /\ phase' = "failed"
  /\ serving' = {}
  /\ UNCHANGED <<owned, releases>>

Recover ==
  /\ phase = "failed"
  /\ owned = {}
  /\ phase' = "assembling"
  /\ UNCHANGED <<owned, serving, releases>>

Close ==
  /\ phase \notin {"closing", "closed"}
  /\ phase' = "closing"
  /\ serving' = {}
  /\ UNCHANGED <<owned, releases>>

Finish ==
  /\ phase = "closing"
  /\ owned = {}
  /\ phase' = "closed"
  /\ UNCHANGED <<owned, serving, releases>>

ContractNext ==
  \/ \E m \in Modules : Accept(m) \/ Reject(m) \/ Release(m)
  \/ Start
  \/ Serve
  \/ Fail
  \/ Recover
  \/ Close
  \/ Finish

ContractSpec == ContractInit /\ [][ContractNext]_contractVars
=============================================================================
