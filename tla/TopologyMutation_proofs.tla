----------------------- MODULE TopologyMutation_proofs -----------------------
(***************************************************************************)
(* What a hot topology transaction may rely on, and what it leaves behind: *)
(* proofs about TopologyMutation for any modules, dependencies, children   *)
(* and number of generations.                                              *)
(*                                                                         *)
(* A step of the model is one of a few kinds, by what it does to the       *)
(* modules; one lemma per action finds its kind, and one per kind shows    *)
(* that it keeps the invariant.                                            *)
(***************************************************************************)
EXTENDS TopologyMutation, TLAPS

-----------------------------------------------------------------------------
\* The invariant

Present == activePlan \cup Registered

Frames ==
  [pc: {"ask", "compile", "init", "async", "ready", "actHook", "actWait",
        "quiesceHook", "quiesceWait", "rollback", "giveUp", "detach"},
   op: {"register", "replace", "unregister"}, key: Keys,
   candidate: OneOrNone, previous: OneOrNone, serial: Nat,
   cleanup: {"none", "pending", "done", "transferred"},
   intent: BOOLEAN, expected: OneOrNone]

\* TypeOK, without what no other part looks at
Fields ==
  /\ state \in LifecycleState /\ generation \in Nat
  /\ registry \in [Keys -> OneOrNone] /\ activePlan \subseteq Instances
  /\ mutation \in BOOLEAN /\ continuation \in Frames \cup {Idle}
  /\ gate \in {"none", "pending", "succeeded", "failed", "cancelled"}
  /\ service \in OneOrNone
  /\ leases \in [Children -> {"none", "module", "factory"}]
  /\ settlement \in [on: BOOLEAN, todo: SUBSET Instances]
  /\ closing \subseteq Instances /\ claims \subseteq Instances
  /\ shutdown \in [pc: {"none", "wait", "quiesce"}, todo: SUBSET Instances]
  /\ disposed \in [Instances -> Nat] /\ asked \in [Instances -> Nat]
  /\ taken \subseteq Instances
  /\ state \in {"INITIALIZING", "ACTIVATING", "READY", "FAILED"} => generation > 0

KeysMatch == \A k \in Keys : registry[k] # NoOne => KeyOf[registry[k]] = k

Candidates == {"init", "async", "ready", "actHook", "actWait"}
Quiescing == {"quiesceHook", "quiesceWait"}

\* What the coroutine has in hand at each of its hooks and awaits.
InHand ==
  LET c == continuation IN
  /\ c.pc # "none" =>
       /\ c.op = "unregister" <=> c.candidate = NoOne
       /\ c.op = "unregister" => c.previous # NoOne
       /\ c.op = "register" => c.previous = NoOne
       /\ c.candidate # NoOne => KeyOf[c.candidate] = c.key
       /\ c.previous # NoOne => KeyOf[c.previous] = c.key
       /\ c.candidate # c.previous
       /\ c.serial <= generation
  /\ c.pc = "ask" =>
       /\ c.previous # NoOne /\ c.cleanup = "none" /\ c.serial = 0
       /\ c.candidate \notin taken
  /\ c.pc \notin {"none", "ask"} =>
       /\ c.cleanup = "none" <=> c.candidate = NoOne
       /\ c.candidate # NoOne => c.candidate \in taken
  /\ c.pc \in Candidates => c.op # "unregister"
  /\ c.pc \in Quiescing \cup {"giveUp", "detach"} => c.previous # NoOne
  /\ c.pc \in {"rollback", "giveUp"} => c.cleanup = "done"
  /\ c.pc = "detach" => c.cleanup \in {"none", "transferred"}
  /\ c.cleanup = "transferred" => c.pc = "detach"

\* Who owns the transaction: its continuation, or the disposal that took it over.
Owned ==
  /\ mutation =>
       /\ continuation.pc # "none" /\ generation > 0
       /\ state \notin {"NEW", "DISPOSING", "DISPOSED"}
       /\ \A c \in Children : leases[c] # "module"
  /\ ~mutation /\ continuation.pc # "none" => state \in {"DISPOSING", "DISPOSED"}
  /\ mutation /\ continuation.candidate # NoOne
     /\ continuation.pc \in {"compile"} \cup Candidates \cup Quiescing
       => continuation.cleanup = "pending"

\* A candidate that is still to be cleaned up is nobody else's.
Pending ==
  continuation.cleanup = "pending" =>
    LET i == continuation.candidate IN
    /\ mutation /\ i \in Instances
    /\ i \notin Present \cup settlement.todo \cup closing
    /\ disposed[i] = 0 /\ asked[i] = 0

\* A disposal pass has all modules before it, and a module that was disposed is claimed
\* as long as the pass runs.
Passes ==
  /\ state \in {"NEW", "INITIALIZING", "ACTIVATING", "READY"} => ~settlement.on
  /\ IF settlement.on THEN Present \subseteq settlement.todo ELSE settlement.todo = {}
  /\ IF state = "DISPOSING" THEN Present \subseteq closing ELSE closing = {}
  /\ ~SessionOpen => claims = {}
  /\ \A i \in claims : disposed[i] = 1
  /\ \A i \in Present \cup settlement.todo \cup closing :
       i \in taken /\ (i \in claims \/ disposed[i] = 0)

\* A settlement leaves nothing, so that what is initialized beside a transaction of an
\* older generation has no modules.
Emptied ==
  /\ state = "FAILED" /\ ~settlement.on => Present = {}
  /\ state \in {"INITIALIZING", "ACTIVATING"} /\ mutation => Present = {}

\* What a transaction of this generation found is still so.
Undisturbed ==
  LET c == continuation IN
  /\ mutation /\ settlement.on => Stale
  /\ mutation /\ ~Stale =>
       /\ state \in {"READY", "QUIESCING"}
       /\ c.pc # "detach" => registry[c.key] = c.previous
       /\ c.pc # "detach" /\ c.intent => service = c.expected
       /\ c.pc \in Candidates \cup Quiescing => PlanIsStable
  /\ mutation /\ c.pc = "ask" /\ state = "READY" /\ registry[c.key] = c.previous =>
       (c.intent => service = c.expected)

Whole ==
  /\ state = "READY" =>
       /\ activePlan = Registered
       /\ \A i \in Registered : \A d \in Deps[KeyOf[i]] : registry[d] # NoOne
  /\ service # NoOne => service \in Registered

\* Who was asked to quiesce and is still there: by a transaction that has not ended, or
\* not well, or by a shutdown.
Asked ==
  /\ shutdown.pc # "none" => state \in {"QUIESCING", "DISPOSING"}
  /\ shutdown.pc = "quiesce" /\ state = "QUIESCING" =>
       ~mutation /\ \A i \in shutdown.todo : asked[i] = 0
  /\ shutdown.todo \subseteq taken
  /\ \A i \in Present :
       \/ asked[i] = 0
       \/ i = continuation.previous /\ continuation.pc \in Quiescing \cup {"giveUp"}
       \/ state \in {"DISPOSING", "DISPOSED"}
       \/ state = "QUIESCING" /\ shutdown.pc = "quiesce"
       \/ state = "QUIESCING" /\ ~mutation /\ gate = "failed"

Counted ==
  /\ \A i \in Instances \ taken : disposed[i] = 0 /\ asked[i] = 0
  /\ CandidateAccounted

TopologyInv ==
  /\ Fields /\ KeysMatch /\ InHand /\ Owned /\ Pending /\ Passes /\ Emptied
  /\ Undisturbed /\ Whole /\ Asked /\ Counted

-----------------------------------------------------------------------------
\* Facts that most lemmas use

USE DEF TopologyInv, Candidates, Quiescing

\* A module is registered under its own key.
LEMMA RegisteredAt ==
  ASSUME NEW r \in [Keys -> OneOrNone], \A k \in Keys : r[k] # NoOne => KeyOf[r[k]] = k
  PROVE  \A i : i \in {r[k] : k \in Keys} \ {NoOne} <=> i \in Instances /\ r[KeyOf[i]] = i
<1>1. ASSUME NEW i \in {r[k] : k \in Keys} \ {NoOne}
      PROVE  i \in Instances /\ r[KeyOf[i]] = i
  BY <1>1 DEF OneOrNone
<1>2. ASSUME NEW i \in Instances, r[KeyOf[i]] = i
      PROVE  i \in {r[k] : k \in Keys} \ {NoOne}
  BY <1>2, TopologyAssumption
<1> QED BY <1>1, <1>2

\* Modules and what was disposed and asked, as types.
LEMMA Known ==
  ASSUME TopologyInv
  PROVE  /\ Registered \subseteq Instances /\ Present \subseteq Instances
         /\ NoOne \notin Present /\ Present \subseteq taken
         /\ \A i \in Instances : disposed[i] \in {0, 1} /\ asked[i] \in {0, 1}
         /\ ~SessionOpen => \A i \in Present : disposed[i] = 0
<1>1. Registered \subseteq Instances /\ Present \subseteq Instances /\ NoOne \notin Present
  BY TopologyAssumption DEF Fields, Registered, Present, OneOrNone
<1>2. \A i \in Instances : disposed[i] \in {0, 1} /\ asked[i] \in {0, 1}
  BY DEF Fields, Counted, CandidateAccounted
<1> QED BY <1>1, <1>2 DEF Passes

\* The initial states.
LEMMA TopologyInvInit == Init => TopologyInv
<1> SUFFICES ASSUME Init PROVE TopologyInv OBVIOUS
<1>1. Registered = {} /\ Present = {} BY DEF Init, Registered, Present
<1>2. Fields /\ KeysMatch
  BY DEF Init, RuntimeInit, Fields, KeysMatch, OneOrNone, NoPass, NoShutdown, LifecycleState
<1>3. InHand /\ Owned /\ Pending BY DEF Init, InHand, Owned, Pending, Idle
<1>4. Passes /\ Emptied /\ Undisturbed
  BY <1>1 DEF Init, RuntimeInit, Passes, Emptied, Undisturbed, NoPass, SessionOpen
<1>5. Whole /\ Asked /\ Counted
  BY <1>1 DEF Init, RuntimeInit, Whole, Asked, Counted, CandidateAccounted, NoShutdown
<1> QED BY <1>2, <1>3, <1>4, <1>5

-----------------------------------------------------------------------------
\* What the environment does

\* A step that touches nothing but who holds leases and the coroutines keeps it all.
LEMMA BesideStep ==
  ASSUME TopologyInv,
         leases' \in [Children -> {"none", "module", "factory"}],
         mutation => \A c \in Children : leases'[c] # "module",
         UNCHANGED <<state, generation, planVars, mutationVars, passVars, ownVars, asked, taken>>
  PROVE  TopologyInv'
<1>1. Registered' = Registered /\ Present' = Present BY DEF planVars, Registered, Present
<1>2. UNCHANGED <<state, generation, registry, activePlan, mutation, gate, continuation,
                  settlement, closing, shutdown, claims, disposed, service, asked, taken>>
  BY DEF planVars, mutationVars, passVars, ownVars
<1>3. Fields' /\ KeysMatch' BY <1>2 DEF Fields, KeysMatch
<1>4. InHand' /\ Owned' /\ Pending' BY <1>1, <1>2 DEF InHand, Owned, Pending
<1>5. Passes' /\ Emptied' /\ Undisturbed'
  BY <1>1, <1>2 DEF Passes, Emptied, Undisturbed, SessionOpen, Stale, PlanIsStable
<1>6. Whole' /\ Asked' /\ Counted' BY <1>1, <1>2 DEF Whole, Asked, Counted, CandidateAccounted
<1> QED BY <1>3, <1>4, <1>5, <1>6

\* A module is assembled: its key was free, and it was nobody's.
LEMMA AssembleStep ==
  ASSUME TopologyInv, NEW i \in Instances, Assemble(i)
  PROVE  TopologyInv'
<1> USE TopologyAssumption
<1>1. /\ UNCHANGED <<state, generation, activePlan, mutation, gate, continuation, leases,
                     settlement, closing, shutdown, claims, disposed, service, asked>>
      /\ state = "NEW" /\ ~mutation /\ i \notin taken /\ registry[KeyOf[i]] = NoOne
      /\ registry' = [registry EXCEPT ![KeyOf[i]] = i] /\ taken' = taken \cup {i}
  BY DEF Assemble, CanMutateRegistration, Fresh, runtimeVars, mutationVars, passVars, ownVars
<1>2. Fields' /\ KeysMatch' BY <1>1 DEF Fields, KeysMatch, OneOrNone
<1>3. Registered' = Registered \cup {i} /\ Present' = Present \cup {i}
  <2>1. \A j : j \in Registered <=> j \in Instances /\ registry[KeyOf[j]] = j
    BY RegisteredAt DEF Fields, Registered, KeysMatch
  <2>2. \A j : j \in Registered' <=> j \in Instances /\ registry'[KeyOf[j]] = j
    BY <1>2, RegisteredAt DEF Fields, Registered, KeysMatch
  <2>3. \A j \in Instances : registry'[KeyOf[j]] = j <=> registry[KeyOf[j]] = j \/ j = i
    BY <1>1 DEF Fields
  <2> QED BY <1>1, <2>1, <2>2, <2>3 DEF Present
<1>4. continuation.pc = "none" /\ continuation.cleanup # "pending" /\ ~settlement.on /\ claims = {}
  BY <1>1 DEF Owned, Pending, Passes, SessionOpen
<1>5. disposed[i] = 0 /\ asked[i] = 0 BY <1>1 DEF Counted
<1>6. InHand' /\ Owned' /\ Pending' BY <1>1, <1>4 DEF InHand, Owned, Pending
<1>7. Passes' /\ Emptied' /\ Undisturbed'
  BY <1>1, <1>3, <1>4, <1>5 DEF Passes, Emptied, Undisturbed, SessionOpen, Stale
<1>8. Whole' /\ Asked' /\ Counted'
  BY <1>1, <1>3, <1>4, <1>5 DEF Whole, Asked, Counted, CandidateAccounted
<1> QED BY <1>2, <1>6, <1>7, <1>8

\* An initialization begins: nothing of an older one is left if a transaction still runs.
LEMMA InitStartStep ==
  ASSUME TopologyInv, InitStart
  PROVE  TopologyInv'
<1>1. /\ UNCHANGED <<registry, activePlan, mutation, gate, continuation, leases,
                     settlement, closing, shutdown, claims, disposed, service, asked, taken>>
      /\ state \in {"NEW", "FAILED"} /\ state' = "INITIALIZING" /\ generation' = generation + 1
      /\ ~settlement.on
  BY DEF InitStart, BeginInitialization, RestartAfterFailure, planVars, mutationVars, passVars, ownVars
<1>2. Registered' = Registered /\ Present' = Present BY <1>1 DEF Registered, Present
<1>3. Fields' /\ KeysMatch' BY <1>1 DEF Fields, KeysMatch, LifecycleState
<1>4. InHand' /\ Owned' /\ Pending'
  BY <1>1, <1>2 DEF Fields, InHand, Owned, Pending, Frames, Idle
<1>5. Passes' /\ Emptied' BY <1>1, <1>2 DEF Passes, Emptied, Owned, SessionOpen
<1>6. mutation => continuation.serial <= generation /\ continuation.serial \in Nat
  BY DEF Owned, InHand, Fields, Frames, Idle
<1>7. Undisturbed' BY <1>1, <1>2, <1>6 DEF Fields, Undisturbed, Stale
<1>8. Whole' /\ Asked' /\ Counted' BY <1>1, <1>2 DEF Whole, Asked, Counted, CandidateAccounted
<1> QED BY <1>3, <1>4, <1>5, <1>7, <1>8

\* An initialization commits what is registered, with its dependencies.
LEMMA InitFinishStep ==
  ASSUME TopologyInv, InitFinish
  PROVE  TopologyInv'
<1>1. /\ UNCHANGED <<generation, registry, mutation, gate, continuation, leases,
                     settlement, closing, shutdown, claims, disposed, service, asked, taken>>
      /\ state = "INITIALIZING" /\ state' = "READY" /\ ~settlement.on
      /\ activePlan' = Registered
      /\ \A i \in Registered : \A d \in Deps[KeyOf[i]] : registry[d] # NoOne
  BY DEF InitFinish, ActivateNothing, Unwound, mutationVars, passVars, ownVars
<1>2. Registered' = Registered /\ Present' = Registered /\ Present' \subseteq Present
  BY <1>1 DEF Registered, Present
<1>3. Fields' /\ KeysMatch' BY <1>1, Known DEF Fields, KeysMatch, LifecycleState
<1>4. InHand' /\ Owned' /\ Pending' BY <1>1, <1>2 DEF InHand, Owned, Pending
<1>5. Passes' /\ Emptied' BY <1>1, <1>2 DEF Passes, Emptied, SessionOpen
<1>6. Undisturbed'
  <2>1. mutation /\ continuation.pc = "ask" => registry[continuation.key] # continuation.previous
    BY <1>1 DEF Fields, Frames, Idle, Emptied, InHand, Present, Registered
  <2> QED BY <1>1, <1>2, <2>1 DEF Undisturbed, Stale, PlanIsStable
<1>7. Whole' /\ Counted' BY <1>1, <1>2 DEF Whole, Counted, CandidateAccounted
<1>8. Asked' BY <1>1, <1>2 DEF Asked
<1> QED BY <1>3, <1>4, <1>5, <1>6, <1>7, <1>8

-----------------------------------------------------------------------------
\* Failure and disposal

\* The generation ends in a failure: what is there is to be settled, and a transaction
\* that runs is stale.
LEMMA FailStep ==
  ASSUME TopologyInv, FailArchitecture
  PROVE  TopologyInv'
<1>1. /\ UNCHANGED <<registry, activePlan, mutation, gate, continuation, leases,
                     closing, shutdown, claims, disposed, service, asked, taken>>
      /\ state \in {"NEW", "INITIALIZING", "ACTIVATING", "READY"} /\ state' = "FAILED"
      /\ generation' = generation + 1
      /\ settlement' = [on |-> TRUE, todo |-> activePlan \cup Registered]
  BY DEF FailArchitecture, FailInitialization, CanFail, Fields, LifecycleState, planVars,
     mutationVars, ownVars
<1>2. Registered' = Registered /\ Present' = Present /\ settlement'.todo = Present
  BY <1>1 DEF Registered, Present
<1>3. claims = {} /\ ~settlement.on /\ closing = {} BY <1>1 DEF Passes, SessionOpen
<1>4. Fields' /\ KeysMatch' BY <1>1, Known DEF Fields, KeysMatch, LifecycleState, Present
<1>5. InHand' /\ Owned' /\ Pending'
  BY <1>1, <1>2 DEF Fields, InHand, Owned, Pending, Frames, Idle
<1>6. Passes' /\ Emptied' BY <1>1, <1>2, <1>3 DEF Passes, Emptied, SessionOpen
<1>7. mutation => continuation.serial <= generation /\ continuation.serial \in Nat
  BY DEF Owned, InHand, Fields, Frames, Idle
<1>8. Undisturbed' BY <1>1, <1>2, <1>7 DEF Fields, Undisturbed, Stale
<1>9. Whole' /\ Asked' /\ Counted' BY <1>1, <1>2 DEF Whole, Asked, Counted, CandidateAccounted
<1> QED BY <1>4, <1>5, <1>6, <1>8, <1>9

\* A pass disposes a module: it was not disposed before and is claimed from now on.
LEMMA PassStep ==
  ASSUME TopologyInv, NEW i \in (settlement.todo \cup closing) \ claims,
         SessionOpen, DisposeOnce(i, service),
         UNCHANGED <<state, generation, planVars, mutationVars, leases, passVars, asked, taken>>
  PROVE  TopologyInv'
<1>1. UNCHANGED <<state, generation, registry, activePlan, mutation, gate, continuation, leases,
                  settlement, closing, shutdown, asked, taken>>
  BY DEF planVars, mutationVars, passVars
<1>2. /\ i \in Instances /\ i \in taken /\ disposed[i] = 0
      /\ disposed' = [disposed EXCEPT ![i] = 1] /\ claims' = claims \cup {i}
      /\ service' \in {service, NoOne}
  <2>1. i \in Instances /\ i \in taken /\ disposed[i] = 0 BY DEF Fields, Passes
  <2>2. disposed' = [disposed EXCEPT ![i] = disposed[i] + 1]
        /\ service' \in {service, NoOne} /\ claims' = claims \cup {i}
    BY DEF DisposeOnce, DisposedWith
  <2> QED BY <2>1, <2>2
<1>3. Registered' = Registered /\ Present' = Present BY <1>1 DEF Registered, Present
<1>4. Fields' /\ KeysMatch' BY <1>1, <1>2 DEF Fields, KeysMatch, OneOrNone
<1>5. InHand' /\ Owned' BY <1>1 DEF InHand, Owned
<1>6. Pending' BY <1>1, <1>2, <1>3 DEF Fields, Pending
<1>7. Passes' /\ Emptied' BY <1>1, <1>2, <1>3, Known DEF Fields, Passes, Emptied, SessionOpen
<1>8. (mutation => Stale) /\ state # "READY" BY DEF Owned, Passes, Undisturbed, SessionOpen
<1>9. Undisturbed' BY <1>1, <1>3, <1>8 DEF Undisturbed, Stale
<1>10. Whole' /\ Asked' BY <1>1, <1>2, <1>3 DEF Whole, Asked
<1>11. Counted' BY <1>1, <1>2, <1>3 DEF Fields, Counted, CandidateAccounted
<1> QED BY <1>4, <1>5, <1>6, <1>7, <1>9, <1>10, <1>11

\* When a pass has disposed what it found, nothing is left to be registered.
LEMMA ClearStep ==
  ASSUME TopologyInv, SettleEnd \/ CloseEnd
  PROVE  TopologyInv'
<1>1. Present \subseteq claims BY DEF SettleEnd, CloseEnd, FinishDispose, Passes
<1>2. /\ UNCHANGED <<generation, mutation, gate, continuation, disposed, asked, taken>>
      /\ registry' = [k \in Keys |-> NoOne] /\ activePlan' = {} /\ service' = NoOne
  BY DEF SettleEnd, CloseEnd, FinishDispose, Cleared, mutationVars, runtimeVars
<1>3. Registered' = {} /\ Present' = {} BY <1>2 DEF Registered, Present
<1>4. \/ /\ UNCHANGED <<state, closing, shutdown, leases>> /\ state # "DISPOSING"
         /\ settlement.on /\ settlement' = NoPass /\ claims' = {}
      \/ /\ state = "DISPOSING" /\ state' = "DISPOSED" /\ closing' = {} /\ UNCHANGED settlement
         /\ leases' = [c \in Children |-> "none"] /\ shutdown' = NoShutdown
         /\ claims' = IF settlement.on THEN claims ELSE {}
  BY DEF SettleEnd, CloseEnd, FinishDispose, Cleared, EndSession, runtimeVars
<1>5. Fields' /\ KeysMatch'
  <2>1. /\ state' \in {state, "DISPOSED"} /\ closing' \subseteq closing /\ claims' \subseteq claims
        /\ settlement' \in {settlement, NoPass} /\ shutdown' \in {shutdown, NoShutdown}
        /\ leases' \in {leases, [c \in Children |-> "none"]}
    BY <1>4
  <2>2. /\ NoPass \in [on: BOOLEAN, todo: SUBSET Instances]
        /\ NoShutdown \in [pc: {"none", "wait", "quiesce"}, todo: SUBSET Instances]
        /\ [c \in Children |-> "none"] \in [Children -> {"none", "module", "factory"}]
        /\ [k \in Keys |-> NoOne] \in [Keys -> OneOrNone] /\ NoOne \in OneOrNone
    BY DEF NoPass, NoShutdown, OneOrNone
  <2>3. Fields' BY <1>2, <2>1, <2>2 DEF Fields, LifecycleState
  <2>4. KeysMatch' BY <1>2 DEF KeysMatch
  <2> QED BY <2>3, <2>4
<1>6. InHand' /\ Pending'
  <2>1. settlement'.todo \subseteq settlement.todo /\ closing' \subseteq closing
    BY <1>4 DEF NoPass
  <2> QED BY <1>2, <1>3, <2>1 DEF InHand, Pending
<1>7. Owned' BY <1>2, <1>4 DEF Owned
<1>8. Passes' /\ Emptied'
  BY <1>2, <1>3, <1>4 DEF Fields, Passes, Emptied, SessionOpen, NoPass, LifecycleState
<1>9. (mutation => Stale /\ Stale') /\ state' # "READY"
  BY <1>2, <1>4 DEF Owned, Passes, Undisturbed, Stale
<1>10. Undisturbed' BY <1>2, <1>9 DEF Undisturbed
<1>11. Whole' BY <1>2, <1>9 DEF Whole
<1>12. Asked' BY <1>2, <1>3, <1>4 DEF Asked, NoShutdown
<1>13. Counted' BY <1>1, <1>2, <1>3 DEF Passes, Counted, CandidateAccounted, Present
<1> QED BY <1>5, <1>6, <1>7, <1>8, <1>10, <1>11, <1>12, <1>13

\* A disposal begins and takes the transaction from its continuation, if it has one;
\* who ends the transaction in the same call has cleaned up its candidate.
LEMMA DisposalStep ==
  ASSUME TopologyInv, NEW ended \in BOOLEAN, TakeOver(ended),
         ended => continuation.cleanup # "pending",
         state \notin {"DISPOSING", "DISPOSED"}, state' = "DISPOSING",
         generation' = generation + 1, closing' = activePlan \cup Registered,
         UNCHANGED <<planVars, leases, settlement, shutdown, asked, taken>>
  PROVE  TopologyInv'
<1> DEFINE i == continuation.candidate
           cleans == mutation /\ continuation.cleanup = "pending"
<1>1. UNCHANGED <<registry, activePlan>> /\ ~mutation' /\ mutation' \in BOOLEAN
      /\ gate' \in {gate, "cancelled"}
  BY DEF planVars, TakeOver
<1>2. Registered' = Registered /\ Present' = Present /\ closing' = Present
  BY <1>1 DEF Registered, Present
<1>3. continuation \in Frames \cup {Idle} /\ continuation' \in Frames \cup {Idle}
  <2>1. continuation \in Frames \cup {Idle} /\ Idle.cleanup = "none" BY DEF Fields, Idle
  <2>2. CASE cleans /\ ~ended BY <2>1, <2>2 DEF TakeOver, Frames
  <2>3. CASE ~cleans /\ ~ended
    <3>1. continuation' = [continuation EXCEPT !.cleanup = @] BY <2>3 DEF TakeOver
    <3> QED BY <2>1, <3>1 DEF Frames, Idle
  <2> QED BY <2>1, <2>2, <2>3 DEF TakeOver
<1>4. /\ continuation'.cleanup # "pending"
      /\ continuation'.pc = "none" \/ continuation' = [continuation EXCEPT
           !.cleanup = IF cleans THEN "done" ELSE @]
      /\ ended => continuation' = Idle
  BY DEF TakeOver, Idle, Fields, Frames, Pending
<1>5. cleans => /\ i \in Instances /\ i \in taken /\ i \notin claims /\ disposed[i] = 0
                /\ i \notin Present \cup settlement.todo
  BY DEF Fields, Pending, Passes, Counted, InHand, Idle, Frames
<1>6. \/ /\ cleans /\ disposed' = [disposed EXCEPT ![i] = 1] /\ claims' = claims \cup {i}
         /\ service' \in {service, NoOne}
      \/ ~cleans /\ UNCHANGED <<disposed, claims, service>>
  BY <1>5 DEF TakeOver, DisposedWith, ownVars, Fields
<1> HIDE DEF cleans, i
<1>7. Fields' /\ KeysMatch'
  <2>1. KeysMatch' BY <1>1 DEF KeysMatch
  <2>2. /\ disposed' \in [Instances -> Nat] /\ claims' \subseteq Instances /\ service' \in OneOrNone
    BY <1>5, <1>6 DEF Fields, OneOrNone
  <2>3. gate' \in {"none", "pending", "succeeded", "failed", "cancelled"}
        /\ closing' \subseteq Instances
    BY <1>1, <1>2, Known DEF Fields
  <2>4. Fields' BY <1>1, <1>3, <2>2, <2>3 DEF Fields, LifecycleState
  <2> QED BY <2>1, <2>4
<1>8. InHand'
  <2>1. CASE continuation'.pc = "none"
    <3>1. continuation' = Idle BY <1>3, <2>1 DEF Frames
    <3> QED BY <3>1 DEF InHand, Idle
  <2>2. CASE continuation' = [continuation EXCEPT !.cleanup = IF cleans THEN "done" ELSE @]
    <3>1. /\ \A f \in {"pc", "op", "candidate", "previous", "key", "serial"} :
               continuation'[f] = continuation[f]
          /\ continuation'.cleanup = IF cleans THEN "done" ELSE continuation.cleanup
          /\ taken' = taken /\ generation' = generation + 1
      BY <1>3, <2>2 DEF Frames, Idle
    <3>2. /\ continuation'.pc = continuation.pc /\ continuation'.op = continuation.op
          /\ continuation'.candidate = continuation.candidate
          /\ continuation'.previous = continuation.previous
          /\ continuation'.key = continuation.key /\ continuation'.serial = continuation.serial
      BY <3>1
    <3>3. cleans => continuation.cleanup = "pending" BY DEF cleans
    <3> QED BY <1>3, <3>1, <3>2, <3>3 DEF Fields, InHand, Frames, Idle
  <2> QED BY <1>4, <2>1, <2>2
<1>9. Owned' /\ Pending' BY <1>1, <1>4 DEF Owned, Pending
<1>10. Passes' /\ Emptied' BY <1>1, <1>2, <1>5, <1>6 DEF Fields, Passes, Emptied, SessionOpen
<1>11. Undisturbed' /\ Whole' BY <1>1, <1>2, <1>6 DEF Undisturbed, Whole
<1>12. Asked' BY <1>2 DEF Asked
<1>13. Counted'
  <2>1. \A j \in taken : j \in Registered \/ disposed'[j] = 1
    BY <1>2, <1>4, <1>5, <1>6 DEF Fields, Counted, CandidateAccounted, cleans, i, Pending
  <2>2. \A j \in Instances : disposed'[j] <= 1 /\ (j \notin taken => disposed'[j] = 0)
    BY <1>5, <1>6, Known DEF Fields, Counted, CandidateAccounted
  <2> QED BY <1>2, <2>1, <2>2 DEF Counted, CandidateAccounted
<1> QED BY <1>7, <1>8, <1>9, <1>10, <1>11, <1>12, <1>13

-----------------------------------------------------------------------------
\* Services

\* Only a registered module's service is published; a candidate's is staged beside
\* what it found.
LEMMA ServiceStep ==
  ASSUME TopologyInv, NEW p \in Instances, RegisterService(p) \/ UnregisterService(p)
  PROVE  TopologyInv'
<1>1. UNCHANGED <<state, generation, registry, activePlan, mutation, gate, leases,
                  settlement, closing, shutdown, claims, disposed, asked, taken>>
  BY DEF RegisterService, UnregisterService, runtimeVars, planVars, passVars
<1>2. Registered' = Registered /\ Present' = Present BY <1>1 DEF Registered, Present
<1>3. \/ /\ ~mutation /\ UNCHANGED continuation
         /\ service' = NoOne \/ (service' = p /\ p \in Registered)
      \/ /\ mutation /\ UNCHANGED service
         /\ \/ continuation' = [continuation EXCEPT !.intent = TRUE, !.expected = service]
            \/ continuation' = [continuation EXCEPT !.intent = FALSE, !.expected = NoOne]
  <2>1. CASE RegisterService(p)
    <3>1. \/ ~mutation /\ p \in Registered /\ service' = p /\ UNCHANGED continuation
          \/ /\ mutation /\ UNCHANGED service
             /\ continuation' = [continuation EXCEPT !.intent = TRUE, !.expected = service]
      BY <2>1 DEF RegisterService
    <3> QED BY <3>1
  <2>2. CASE UnregisterService(p)
    <3>1. \/ ~mutation /\ UNCHANGED continuation /\ service' = NoOne
          \/ /\ mutation /\ UNCHANGED service
             /\ continuation' = [continuation EXCEPT !.intent = FALSE, !.expected = NoOne]
      BY <2>2 DEF UnregisterService
    <3> QED BY <3>1
  <2> QED BY <2>1, <2>2
<1>4. continuation \in Frames \cup {Idle} /\ (mutation => continuation \in Frames)
  BY DEF Fields, Owned, Idle
<1>5. /\ continuation'.pc = continuation.pc /\ continuation'.op = continuation.op
      /\ continuation'.key = continuation.key /\ continuation'.serial = continuation.serial
      /\ continuation'.candidate = continuation.candidate
      /\ continuation'.previous = continuation.previous
      /\ continuation'.cleanup = continuation.cleanup
      /\ continuation' \in Frames \cup {Idle}
      /\ mutation => (continuation'.intent => service = continuation'.expected)
      /\ service' \in OneOrNone /\ (mutation => service' = service)
      /\ service' = service \/ service' = NoOne \/ service' \in Registered
  <2>1. CASE mutation
    <3>1. service' = service /\ service \in OneOrNone BY <1>3, <2>1 DEF Fields
    <3>2. CASE continuation' = [continuation EXCEPT !.intent = TRUE, !.expected = service]
      BY <1>4, <2>1, <3>1, <3>2 DEF Frames
    <3>3. CASE continuation' = [continuation EXCEPT !.intent = FALSE, !.expected = NoOne]
      BY <1>4, <2>1, <3>1, <3>3 DEF Frames, OneOrNone
    <3> QED BY <1>3, <2>1, <3>2, <3>3
  <2>2. CASE ~mutation BY <1>3, <1>4, <2>2 DEF OneOrNone
  <2> QED BY <2>1, <2>2
<1>6. Fields' /\ KeysMatch' BY <1>1, <1>5 DEF Fields, KeysMatch
<1>7. InHand' BY <1>1, <1>5 DEF InHand
<1>8. Owned' /\ Pending' BY <1>1, <1>2, <1>5 DEF Owned, Pending
<1>9. Passes' /\ Emptied' BY <1>1, <1>2 DEF Passes, Emptied, SessionOpen
<1>10. Undisturbed' BY <1>1, <1>2, <1>5 DEF Undisturbed, Stale, PlanIsStable
<1>11. Whole' BY <1>1, <1>2, <1>5 DEF Whole
<1>12. Asked' /\ Counted' BY <1>1, <1>2, <1>5 DEF Asked, Counted, CandidateAccounted
<1> QED BY <1>6, <1>7, <1>8, <1>9, <1>10, <1>11, <1>12

-----------------------------------------------------------------------------
\* shutdown_async()

\* A module is asked to quiesce by a shutdown, which waited for the transaction, or the
\* transaction has ended well: the shutdown asks nobody whom the transaction asked.
LEMMA QuiesceStep ==
  ASSUME TopologyInv,
         \/ ShutdownCall /\ BeginQuiesce /\ UNCHANGED <<mutationVars, ownVars, closing>>
            /\ state \in {"NEW", "READY", "FAILED"}
            /\ shutdown' = IF mutation THEN [pc |-> "wait", todo |-> {}]
                           ELSE [pc |-> "quiesce", todo |-> activePlan]
         \/ ShutdownWait /\ ~mutation /\ gate = "succeeded"
            /\ shutdown' = [pc |-> "quiesce", todo |-> activePlan]
            /\ UNCHANGED <<runtimeVars, mutationVars, ownVars, closing>>
  PROVE  TopologyInv'
<1>1. UNCHANGED <<generation, registry, activePlan, mutation, gate, continuation, leases,
                  settlement, closing, claims, disposed, service, asked, taken>>
  BY DEF ShutdownCall, ShutdownWait, shutdownRest, planVars, mutationVars, ownVars,
         BeginQuiesce, runtimeVars
<1>2. Registered' = Registered /\ Present' = Present BY <1>1 DEF Registered, Present
<1>3. /\ state \in {"NEW", "READY", "FAILED", "QUIESCING"} /\ state' = "QUIESCING"
      /\ state = "QUIESCING" => gate # "failed" /\ shutdown.pc # "quiesce"
      /\ \/ shutdown' = [pc |-> "wait", todo |-> {}] /\ mutation
         \/ shutdown' = [pc |-> "quiesce", todo |-> activePlan] /\ ~mutation
  BY DEF ShutdownWait, BeginQuiesce, runtimeVars
<1>4. Fields' /\ KeysMatch'
  <2>1. shutdown' \in [pc: {"none", "wait", "quiesce"}, todo: SUBSET Instances]
    BY <1>3 DEF Fields
  <2> QED BY <1>1, <1>3, <2>1 DEF Fields, KeysMatch, LifecycleState
<1>5. InHand' /\ Owned' /\ Pending' BY <1>1, <1>2, <1>3 DEF InHand, Owned, Pending
<1>6. Passes' /\ Emptied' BY <1>1, <1>2, <1>3 DEF Passes, Emptied, SessionOpen
<1>7. Undisturbed' BY <1>1, <1>2, <1>3 DEF Undisturbed, Stale, PlanIsStable
<1>8. Whole' BY <1>1, <1>2, <1>3 DEF Whole
<1>9. Asked'
  <2>1. ~mutation => \A i \in activePlan : asked[i] = 0 BY <1>3 DEF Asked, Owned, Idle, Present
  <2>2. activePlan \subseteq taken BY Known DEF Present
  <2>3. CASE mutation BY <1>1, <1>2, <1>3, <2>3 DEF Asked
  <2>4. CASE ~mutation BY <1>1, <1>2, <1>3, <2>1, <2>2, <2>4 DEF Asked
  <2> QED BY <2>3, <2>4
<1>10. Counted' BY <1>1, <1>2 DEF Counted, CandidateAccounted
<1> QED BY <1>4, <1>5, <1>6, <1>7, <1>8, <1>9, <1>10

LEMMA ShutdownAskStep ==
  ASSUME TopologyInv, NEW i \in Instances, ShutdownAsk(i)
  PROVE  TopologyInv'
<1>1. /\ UNCHANGED <<state, generation, registry, activePlan, mutation, gate, continuation, leases,
                     settlement, closing, claims, disposed, service, taken>>
      /\ state = "QUIESCING" /\ shutdown.pc = "quiesce" /\ i \in shutdown.todo
      /\ shutdown' = [shutdown EXCEPT !.todo = @ \ {i}]
      /\ asked' = [asked EXCEPT ![i] = @ + 1]
  BY DEF ShutdownAsk, shutdownRest, planVars, mutationVars, ownVars, runtimeVars
<1>2. Registered' = Registered /\ Present' = Present BY <1>1 DEF Registered, Present
<1>3. /\ ~mutation /\ i \in taken /\ shutdown'.pc = "quiesce" /\ shutdown'.todo = shutdown.todo \ {i}
      /\ asked' = [asked EXCEPT ![i] = 1]
  <2>1. ~mutation /\ i \in taken /\ asked[i] = 0 BY <1>1 DEF Asked
  <2>2. asked' = [asked EXCEPT ![i] = asked[i] + 1] BY <1>1
  <2>3. shutdown'.pc = "quiesce" /\ shutdown'.todo = shutdown.todo \ {i} BY <1>1 DEF Fields
  <2> QED BY <2>1, <2>2, <2>3
<1>4. Fields' /\ KeysMatch'
  <2>1. shutdown' \in [pc: {"none", "wait", "quiesce"}, todo: SUBSET Instances]
    BY <1>1 DEF Fields
  <2>2. asked' \in [Instances -> Nat] BY <1>3 DEF Fields
  <2> QED BY <1>1, <2>1, <2>2 DEF Fields, KeysMatch
<1>5. InHand' /\ Owned' /\ Pending' BY <1>1, <1>2, <1>3 DEF InHand, Owned, Pending
<1>6. Passes' /\ Emptied' /\ Undisturbed' /\ Whole'
  BY <1>1, <1>2, <1>3 DEF Passes, Emptied, Undisturbed, Whole, SessionOpen
<1>7. Asked' BY <1>1, <1>2, <1>3 DEF Fields, Asked
<1>8. Counted' BY <1>1, <1>2, <1>3 DEF Fields, Counted, CandidateAccounted
<1> QED BY <1>4, <1>5, <1>6, <1>7, <1>8

-----------------------------------------------------------------------------
\* The transaction: how it begins and how it goes on

\* A transaction begins in a READY architecture that has none, and may ask first.
LEMMA BeginStep ==
  ASSUME TopologyInv,
         NEW op \in {"register", "replace", "unregister"}, NEW k \in Keys, NEW i \in OneOrNone,
         Begin(op, k, i), op = "unregister" <=> i = NoOne,
         i # NoOne => i \notin taken /\ KeyOf[i] = k,
         op = "register" => registry[k] = NoOne, op = "unregister" => registry[k] # NoOne
  PROVE  TopologyInv'
<1> USE TopologyAssumption
<1> DEFINE previous == IF op = "register" THEN NoOne ELSE registry[k]
           c == [Idle EXCEPT !.op = op, !.key = k, !.candidate = i, !.previous = previous]
<1>1. /\ UNCHANGED <<state, generation, registry, activePlan, leases, settlement, closing, shutdown,
                     claims, disposed, service, asked>>
      /\ state = "READY" /\ ~mutation /\ mutation' = TRUE /\ gate' = "pending"
      /\ continuation.pc = "none" /\ \A child \in Children : leases[child] # "module"
  BY DEF Begin, Compile, BeginTransaction, topologyRest, planVars, ownVars, runtimeVars,
         CanMutateRegistration
<1>2. Registered' = Registered /\ Present' = Present BY <1>1 DEF Registered, Present
<1>3. /\ previous \in OneOrNone /\ previous = registry[k] /\ i # previous
      /\ previous # NoOne => KeyOf[previous] = k /\ previous \in taken
  <2>1. previous = registry[k] /\ registry[k] \in OneOrNone BY DEF Fields
  <2>2. registry[k] # NoOne => registry[k] \in Registered BY DEF Registered
  <2>3. registry[k] # NoOne => KeyOf[registry[k]] = k BY DEF KeysMatch
  <2> QED BY <2>1, <2>2, <2>3, Known DEF Present
<1>4. \/ /\ continuation' = [c EXCEPT !.pc = "compile", !.serial = generation,
                               !.cleanup = IF i = NoOne THEN "none" ELSE "pending"]
         /\ taken' = taken \cup ({i} \ {NoOne})
      \/ /\ continuation' = [c EXCEPT !.pc = "ask"] /\ taken' = taken /\ previous # NoOne
  BY DEF Begin, Compile, Idle
<1>5. /\ continuation' \in Frames
      /\ continuation'.op = op /\ continuation'.key = k /\ continuation'.candidate = i
      /\ continuation'.previous = previous /\ continuation'.intent = FALSE
      /\ \/ /\ continuation'.pc = "compile" /\ continuation'.serial = generation
            /\ continuation'.cleanup = IF i = NoOne THEN "none" ELSE "pending"
            /\ taken' = taken \cup ({i} \ {NoOne})
         \/ /\ continuation'.pc = "ask" /\ continuation'.serial = 0
            /\ continuation'.cleanup = "none" /\ taken' = taken /\ previous # NoOne
  <2>1. generation \in Nat /\ NoOne \in OneOrNone BY DEF Fields, OneOrNone
  <2>2. /\ c \in [pc: {"none"}, op: {"register", "replace", "unregister"}, key: Keys,
                  candidate: OneOrNone, previous: OneOrNone, serial: Nat,
                  cleanup: {"none"}, intent: BOOLEAN, expected: OneOrNone]
        /\ c.op = op /\ c.key = k /\ c.candidate = i /\ c.previous = previous
        /\ c.serial = 0 /\ c.intent = FALSE
    BY <1>3, <2>1 DEF Idle
  <2> HIDE DEF previous, c
  <2>3. CASE /\ continuation' = [c EXCEPT !.pc = "compile", !.serial = generation,
                                  !.cleanup = IF i = NoOne THEN "none" ELSE "pending"]
             /\ taken' = taken \cup ({i} \ {NoOne})
    BY <2>1, <2>2, <2>3 DEF Frames
  <2>4. CASE continuation' = [c EXCEPT !.pc = "ask"] /\ taken' = taken /\ previous # NoOne
    BY <2>2, <2>4 DEF Frames
  <2> QED BY <1>4, <2>3, <2>4
<1> HIDE DEF previous, c
<1>6. generation \in Nat /\ generation > 0 /\ ~settlement.on /\ shutdown.pc = "none" /\ claims = {}
  BY <1>1 DEF Fields, Passes, Asked, SessionOpen
<1>7. taken \subseteq taken' /\ taken' \subseteq Instances /\ NoOne \notin taken
      /\ (i \in taken' => continuation'.pc = "compile")
  BY <1>5 DEF Fields, OneOrNone
<1>8. Fields' /\ KeysMatch' BY <1>1, <1>5, <1>7 DEF Fields, KeysMatch
<1>9. InHand' BY <1>1, <1>3, <1>5, <1>6, <1>7 DEF InHand
<1>10. Owned' BY <1>1, <1>5, <1>6 DEF Owned
<1>11. Pending'
  <2>1. Present \cup settlement.todo \cup closing \subseteq taken BY DEF Passes
  <2> QED BY <1>1, <1>2, <1>5, <2>1 DEF Counted, Pending, OneOrNone
<1>12. Passes' /\ Emptied' BY <1>1, <1>2, <1>7 DEF Passes, Emptied, SessionOpen
<1>13. Undisturbed' BY <1>1, <1>3, <1>5, <1>6 DEF Undisturbed, Stale
<1>14. Whole' BY <1>1, <1>2 DEF Whole
<1>15. Asked'
  <2>1. \A j \in Present : asked[j] = 0 BY <1>1 DEF Asked
  <2> QED BY <1>1, <1>2, <1>6, <1>7, <2>1 DEF Asked
<1>16. Counted'
  <2>1. \A j \in taken : j \in Registered \/ disposed[j] = 1
    BY <1>1 DEF Counted, CandidateAccounted, Pending
  <2> QED BY <1>1, <1>2, <1>5, <1>7, <2>1 DEF Counted, CandidateAccounted
<1> QED BY <1>8, <1>9, <1>10, <1>11, <1>12, <1>13, <1>14, <1>15, <1>16

\* The previous module may go: the transaction is compiled as if it had not been asked.
LEMMA CompileStep ==
  ASSUME TopologyInv, continuation.pc = "ask", Unwound, mutation, state = "READY",
         registry[continuation.key] = continuation.previous, Compile(continuation),
         UNCHANGED <<mutation, gate, topologyRest, planVars, ownVars, closing, asked>>
  PROVE  TopologyInv'
<1> DEFINE c == continuation
<1>1. UNCHANGED <<state, generation, registry, activePlan, mutation, gate, leases, settlement,
                  closing, shutdown, claims, disposed, service, asked>>
  BY DEF Compile, BeginTransaction, topologyRest, planVars, ownVars
<1>2. Registered' = Registered /\ Present' = Present BY <1>1 DEF Registered, Present
<1>3. /\ c \in Frames /\ c.cleanup = "none" /\ c.candidate \notin taken /\ c.previous # NoOne
      /\ generation \in Nat /\ taken \subseteq Instances
  BY DEF Fields, InHand, Idle
<1>4. /\ continuation' = [c EXCEPT !.pc = "compile", !.serial = generation,
                            !.cleanup = IF c.candidate = NoOne THEN "none" ELSE "pending"]
      /\ taken' = taken \cup ({c.candidate} \ {NoOne})
  BY <1>3 DEF Compile
<1>5. /\ continuation' \in Frames /\ continuation'.pc = "compile" /\ continuation'.serial = generation
      /\ continuation'.op = c.op /\ continuation'.key = c.key
      /\ continuation'.candidate = c.candidate /\ continuation'.previous = c.previous
      /\ continuation'.intent = c.intent /\ continuation'.expected = c.expected
      /\ continuation'.cleanup = IF c.candidate = NoOne THEN "none" ELSE "pending"
  BY <1>3, <1>4 DEF Frames
<1>6. taken \subseteq taken' /\ taken' \subseteq Instances /\ c.candidate \in OneOrNone
  BY <1>3, <1>4 DEF Frames, OneOrNone
<1> HIDE DEF c
<1>7. Fields' /\ KeysMatch' BY <1>1, <1>5, <1>6 DEF Fields, KeysMatch
<1>8. InHand' BY <1>1, <1>3, <1>4, <1>5, <1>6 DEF InHand, OneOrNone, c
<1>9. Owned' BY <1>1, <1>5 DEF Owned, c
<1>10. Pending'
  <2>1. Present \cup settlement.todo \cup closing \subseteq taken BY DEF Passes
  <2> QED BY <1>1, <1>2, <1>3, <1>5, <1>6, <2>1 DEF Counted, Pending, OneOrNone
<1>11. Passes' /\ Emptied' BY <1>1, <1>2, <1>6 DEF Passes, Emptied, SessionOpen
<1>12. Undisturbed'
  <2>1. ~settlement.on BY DEF Unwound
  <2>2. c.intent => service = c.expected BY DEF Undisturbed, c
  <2> QED BY <1>1, <1>5, <2>1, <2>2 DEF Undisturbed, Stale, c
<1>13. Whole' BY <1>1, <1>2 DEF Whole
<1>14. Asked'
  <2>1. \A j \in Present : asked[j] = 0 BY <1>3 DEF Asked, c
  <2> QED BY <1>1, <1>2, <1>6, <2>1 DEF Asked
<1>15. Counted'
  <2>1. \A j \in taken : j \in Registered \/ disposed[j] = 1
    BY <1>3 DEF Counted, CandidateAccounted, c
  <2> QED BY <1>1, <1>2, <1>4, <1>5, <1>6, <2>1 DEF Counted, CandidateAccounted
<1> QED BY <1>7, <1>8, <1>9, <1>10, <1>11, <1>12, <1>13, <1>14, <1>15

\* Between two hooks only the place in the coroutine changes; it gets beyond the
\* compilation, or to the quiescence, with a stable plan.
LEMMA MoveStep ==
  ASSUME TopologyInv, NEW pc \in Candidates \cup {"quiesceWait"},
         continuation' = [continuation EXCEPT !.pc = pc],
         \/ continuation.pc = "compile" /\ pc = "init" /\ continuation.op # "unregister" /\ PlanIsStable
         \/ continuation.pc \in Candidates /\ pc \in Candidates
         \/ continuation.pc = "quiesceHook" /\ pc = "quiesceWait",
         UNCHANGED <<state, generation, planVars, mutation, gate, topologyRest, ownVars, closing,
                     asked, taken>>
  PROVE  TopologyInv'
<1> DEFINE c == continuation
<1>1. UNCHANGED <<state, generation, registry, activePlan, mutation, gate, leases, settlement,
                  closing, shutdown, claims, disposed, service, asked, taken>>
  BY DEF topologyRest, planVars, ownVars
<1>2. Registered' = Registered /\ Present' = Present BY <1>1 DEF Registered, Present
<1>3. c \in Frames /\ pc # "none" /\ c.pc # "none" BY DEF Fields, Idle
<1>4. /\ continuation' \in Frames /\ continuation'.pc = pc /\ continuation'.serial = c.serial
      /\ continuation'.op = c.op /\ continuation'.key = c.key
      /\ continuation'.candidate = c.candidate /\ continuation'.previous = c.previous
      /\ continuation'.intent = c.intent /\ continuation'.expected = c.expected
      /\ continuation'.cleanup = c.cleanup
  BY <1>3 DEF Frames
<1>5. \/ c.pc = "compile" /\ pc = "init" /\ c.op # "unregister" /\ PlanIsStable
      \/ c.pc \in Candidates /\ pc \in Candidates
      \/ c.pc = "quiesceHook" /\ pc = "quiesceWait"
  OBVIOUS
<1>7. Fields' /\ KeysMatch' BY <1>1, <1>4 DEF Fields, KeysMatch
<1>8. InHand' BY <1>1, <1>4, <1>5 DEF InHand
<1>9. Owned' /\ Pending' BY <1>1, <1>2, <1>3, <1>4, <1>5 DEF Owned, Pending
<1>10. Passes' /\ Emptied' BY <1>1, <1>2 DEF Passes, Emptied, SessionOpen
<1>11. Undisturbed'
  <2>1. PlanIsStable' <=> PlanIsStable BY <1>1, <1>2, <1>4 DEF PlanIsStable
  <2> QED BY <1>1, <1>4, <1>5, <2>1 DEF Undisturbed, Stale
<1>12. Whole' BY <1>1, <1>2 DEF Whole
<1>13. Asked' BY <1>1, <1>2, <1>4, <1>5 DEF Asked
<1>14. Counted' BY <1>1, <1>2, <1>4 DEF Counted, CandidateAccounted
<1> QED BY <1>7, <1>8, <1>9, <1>10, <1>11, <1>12, <1>13, <1>14

\* The previous module is asked to quiesce, once: it is registered, and was not asked.
LEMMA AskPreviousStep ==
  ASSUME TopologyInv, Valid, PlanIsStable, AskPrevious, continuation.previous # NoOne,
         \/ continuation.pc = "compile" /\ continuation.op = "unregister"
         \/ continuation.pc \in Candidates,
         UNCHANGED <<state, generation, planVars, mutation, gate, topologyRest, ownVars, closing,
                     taken>>
  PROVE  TopologyInv'
<1> DEFINE c == continuation
           i == continuation.previous
<1>1. /\ UNCHANGED <<state, generation, registry, activePlan, mutation, gate, leases, settlement,
                     closing, shutdown, claims, disposed, service, taken>>
      /\ mutation /\ ~Stale
  BY DEF topologyRest, planVars, ownVars, Valid
<1>2. Registered' = Registered /\ Present' = Present BY <1>1 DEF Registered, Present
<1>3. c \in Frames /\ c.pc # "detach" /\ c.pc \notin Quiescing \cup {"giveUp", "none", "ask"}
  BY DEF Fields, Idle
<1>4. /\ continuation' \in Frames /\ continuation'.pc = "quiesceHook"
      /\ continuation'.op = c.op /\ continuation'.key = c.key /\ continuation'.serial = c.serial
      /\ continuation'.candidate = c.candidate /\ continuation'.previous = c.previous
      /\ continuation'.intent = c.intent /\ continuation'.expected = c.expected
      /\ continuation'.cleanup = c.cleanup
  BY <1>3 DEF AskPrevious, Frames
<1>5. i \in Registered /\ i \in Present /\ i \in Instances
  <2>1. registry[c.key] = i /\ c.key \in Keys BY <1>1, <1>3 DEF Undisturbed, Frames
  <2> QED BY <2>1, Known DEF Registered, Present
<1>6. /\ state \in {"READY", "QUIESCING"}
      /\ state = "QUIESCING" => shutdown.pc # "quiesce"
      /\ \A j \in Present : asked[j] = 0
  BY <1>1, <1>3 DEF Undisturbed, Asked
<1>7. asked' = [asked EXCEPT ![i] = 1]
  <2>1. asked' = [asked EXCEPT ![i] = asked[i] + 1] /\ asked[i] = 0
    BY <1>5, <1>6 DEF AskPrevious
  <2> QED BY <2>1
<1>8. i # c.candidate /\ c.candidate \in OneOrNone BY <1>3 DEF InHand, Frames
<1>9. (c.pc = "compile" /\ c.op = "unregister") \/ c.pc \in Candidates OBVIOUS
<1>10. i # NoOne OBVIOUS
<1> HIDE DEF c, i
<1>11. Fields' /\ KeysMatch'
  <2>1. asked' \in [Instances -> Nat] BY <1>5, <1>7 DEF Fields
  <2> QED BY <1>1, <1>4, <2>1 DEF Fields, KeysMatch
<1>12. InHand'
  <2>1. c.cleanup # "transferred" /\ c.previous = i BY <1>3 DEF InHand, c, i
  <2> QED BY <1>1, <1>3, <1>4, <1>10, <2>1 DEF InHand, c
<1>13. Owned' BY <1>1, <1>3, <1>4, <1>9 DEF Owned, InHand, c
<1>14. Pending' BY <1>1, <1>2, <1>4, <1>7, <1>8 DEF Fields, Pending, c
<1>15. Passes' /\ Emptied' /\ Whole' BY <1>1, <1>2 DEF Passes, Emptied, Whole, SessionOpen
<1>16. Undisturbed'
  <2>1. PlanIsStable' BY <1>1, <1>2, <1>4 DEF PlanIsStable, c
  <2> QED BY <1>1, <1>3, <1>4, <2>1 DEF Undisturbed, Stale, c
<1>17. Asked'
  <2>1. continuation'.previous = i BY <1>4 DEF c, i
  <2>2. \A j \in Present : asked'[j] = 0 \/ j = i BY <1>6, <1>7, Known DEF Fields
  <2> QED BY <1>1, <1>2, <1>4, <1>6, <2>1, <2>2 DEF Asked
<1>18. Counted'
  <2>1. i \in taken BY <1>5, Known
  <2>2. \A j \in Instances : asked'[j] <= 1 /\ (j \notin taken => asked'[j] = 0)
    BY <1>7, <2>1, Known DEF Fields, Counted
  <2> QED BY <1>1, <1>2, <1>4, <2>2 DEF Counted, CandidateAccounted, c
<1> QED BY <1>11, <1>12, <1>13, <1>14, <1>15, <1>16, <1>17, <1>18

-----------------------------------------------------------------------------
\* The transaction: how it ends

\* The candidate is cleaned up: it was nobody else's.
LEMMA DropStep ==
  ASSUME TopologyInv, Unwound, NEW pc \in {"rollback", "giveUp"},
         continuation.pc \notin {"none", "ask", "detach"}, continuation.cleanup = "pending",
         pc = "giveUp" <=> continuation.pc \in Quiescing,
         DisposeOnce(continuation.candidate, service),
         continuation' = [continuation EXCEPT !.pc = pc, !.cleanup = "done"],
         UNCHANGED <<state, generation, mutation, gate, planVars, topologyRest, closing, asked, taken>>
  PROVE  TopologyInv'
<1> DEFINE c == continuation
           i == continuation.candidate
<1>1. UNCHANGED <<state, generation, registry, activePlan, mutation, gate, leases, settlement,
                  closing, shutdown, asked, taken>>
  BY DEF topologyRest, planVars
<1>2. Registered' = Registered /\ Present' = Present BY <1>1 DEF Registered, Present
<1>3. c \in Frames BY DEF Fields, Idle
<1>4. /\ continuation' \in Frames /\ continuation'.pc = pc /\ continuation'.serial = c.serial
      /\ continuation'.op = c.op /\ continuation'.key = c.key
      /\ continuation'.candidate = c.candidate /\ continuation'.previous = c.previous
      /\ continuation'.intent = c.intent /\ continuation'.expected = c.expected
      /\ continuation'.cleanup = "done"
  BY <1>3 DEF Frames
<1>5. /\ mutation /\ i \in Instances /\ disposed[i] = 0 /\ asked[i] = 0
      /\ i \notin Present \cup settlement.todo \cup closing
  BY DEF Pending
<1>6. ~SessionOpen /\ claims = {} /\ ~settlement.on /\ state # "DISPOSING"
  BY DEF Passes, SessionOpen, Unwound
<1>7. /\ disposed' = [disposed EXCEPT ![i] = 1] /\ claims' = claims
      /\ service' = IF service = i THEN NoOne ELSE service
  <2>1. disposed' = [disposed EXCEPT ![i] = disposed[i] + 1]
        /\ service' = IF service = i THEN NoOne ELSE service
    BY <1>6 DEF DisposeOnce, DisposedWith
  <2>2. claims' = claims BY <1>6 DEF DisposeOnce
  <2> QED BY <1>5, <2>1, <2>2
<1>8. service' = service BY <1>5, <1>7, TopologyAssumption DEF Whole, Present
<1>9. /\ c.pc \notin {"none", "ask", "detach"} /\ c.cleanup = "pending"
      /\ pc = "giveUp" <=> c.pc \in Quiescing
  OBVIOUS
<1>10. c.candidate = i OBVIOUS
<1> HIDE DEF c, i
<1>11. Fields' /\ KeysMatch'
  <2>1. disposed' \in [Instances -> Nat] BY <1>5, <1>7 DEF Fields
  <2> QED BY <1>1, <1>4, <1>7, <1>8, <2>1 DEF Fields, KeysMatch
<1>12. InHand' BY <1>1, <1>3, <1>4, <1>9 DEF InHand, c
<1>13. Owned' BY <1>1, <1>4, <1>5 DEF Owned
<1>14. Pending' BY <1>4 DEF Pending
<1>15. Passes' /\ Emptied' /\ Whole'
  <2>1. Passes' BY <1>1, <1>2, <1>5, <1>6, <1>7, Known DEF Fields, Passes, SessionOpen
  <2> QED BY <1>1, <1>2, <1>8, <2>1 DEF Emptied, Whole
<1>16. Undisturbed' BY <1>1, <1>4, <1>8, <1>9 DEF Undisturbed, Stale, c
<1>17. Asked'
  <2>1. continuation'.pc \in Quiescing \cup {"giveUp"} <=> c.pc \in Quiescing BY <1>4, <1>9
  <2>2. c.pc \in Quiescing \cup {"giveUp"} => c.pc \in Quiescing BY <1>9 DEF InHand, c
  <2> QED BY <1>1, <1>2, <1>4, <2>1, <2>2 DEF Asked, c
<1>18. Counted'
  <2>1. i \in taken BY <1>5, <1>9 DEF Counted, InHand, c, i, Fields, OneOrNone
  <2>2. \A j \in Instances : disposed'[j] <= 1 /\ (j # i => disposed'[j] = disposed[j])
    BY <1>5, <1>7, Known DEF Fields
  <2>3. disposed'[i] = 1 BY <1>5, <1>7 DEF Fields
  <2>4. \A j \in taken : j \in Registered \/ disposed'[j] = 1
    BY <1>9, <1>10, <2>2, <2>3 DEF Fields, Counted, CandidateAccounted, c
  <2> QED BY <1>1, <1>2, <2>1, <2>2, <2>4 DEF Counted, CandidateAccounted
<1> QED BY <1>11, <1>12, <1>13, <1>14, <1>15, <1>16, <1>17, <1>18

\* The coroutine ends and leaves no candidate behind: whom it asked to quiesce, if the
\* commit did not follow, is in a shutdown that it failed, or is gone.
LEMMA EndStep ==
  ASSUME TopologyInv, Unwound, continuation' = Idle, mutation' = FALSE,
         gate' = gate \/ (mutation /\ gate' \in {"succeeded", "failed"}),
         continuation.cleanup # "pending",
         continuation.pc \in Quiescing \cup {"giveUp"}
           => state # "READY" /\ (mutation => gate' = "failed"),
         continuation.pc # "none",
         UNCHANGED <<state, generation, planVars, topologyRest, ownVars, closing, asked, taken>>
  PROVE  TopologyInv'
<1>1. UNCHANGED <<state, generation, registry, activePlan, leases, settlement, closing, shutdown,
                  claims, disposed, service, asked, taken>>
  BY DEF topologyRest, planVars, ownVars
<1>2. Registered' = Registered /\ Present' = Present BY <1>1 DEF Registered, Present
<1>3. continuation'.pc = "none" /\ continuation'.cleanup = "none" /\ ~mutation' /\ continuation' = Idle
  BY DEF Idle
<1>4. Fields' /\ KeysMatch' BY <1>1, <1>3 DEF Fields, KeysMatch
<1>5. InHand' /\ Owned' /\ Pending' BY <1>3 DEF InHand, Owned, Pending
<1>6. Passes' /\ Emptied' /\ Undisturbed' /\ Whole'
  BY <1>1, <1>2, <1>3 DEF Passes, Emptied, Undisturbed, Whole, SessionOpen
<1>7. Asked'
  <2>1. \A j \in Present : asked[j] # 0 =>
          \/ state \in {"DISPOSING", "DISPOSED"}
          \/ state = "QUIESCING" /\ shutdown.pc = "quiesce"
          \/ state = "QUIESCING" /\ gate' = "failed"
    <3> SUFFICES ASSUME NEW j \in Present, asked[j] # 0
                 PROVE  \/ state \in {"DISPOSING", "DISPOSED"}
                        \/ state = "QUIESCING" /\ shutdown.pc = "quiesce"
                        \/ state = "QUIESCING" /\ gate' = "failed"
      OBVIOUS
    <3>1. CASE state \in {"DISPOSING", "DISPOSED"} BY <3>1
    <3>2. CASE state \notin {"DISPOSING", "DISPOSED"} /\ mutation
      <4>1. state \notin {"NEW", "READY"} \/ continuation.pc \notin Quiescing \cup {"giveUp"}
        BY <3>2 DEF Owned
      <4>2. state \notin {"INITIALIZING", "ACTIVATING", "FAILED"} BY <3>2 DEF Emptied, Unwound
      <4>3. state \in LifecycleState BY DEF Fields
      <4> QED BY <3>2, <4>1, <4>2, <4>3 DEF Asked, LifecycleState
    <3>3. CASE state \notin {"DISPOSING", "DISPOSED"} /\ ~mutation BY <3>3 DEF Owned
    <3> QED BY <3>1, <3>2, <3>3
  <2> QED BY <1>1, <1>2, <1>3, <2>1 DEF Asked
<1>8. Counted' BY <1>1, <1>2 DEF Counted, CandidateAccounted
<1> QED BY <1>4, <1>5, <1>6, <1>7, <1>8

\* The commit publishes a whole plan: the candidate takes the place of the previous
\* module, everybody's dependencies are there, and the previous module is disposed.
LEMMA CommitStep ==
  ASSUME TopologyInv, Valid, Commit,
         \/ continuation.pc \in Candidates /\ continuation.previous = NoOne
         \/ continuation.pc \in Quiescing,
         UNCHANGED <<topologyRest, closing, asked, taken>>
  PROVE  TopologyInv'
<1> DEFINE c == continuation
           new == continuation.candidate
           old == continuation.previous
           published == IF c.intent THEN new ELSE service
<1> USE TopologyAssumption
<1>1. /\ UNCHANGED <<state, generation, leases, settlement, closing, shutdown, asked, taken>>
      /\ mutation /\ ~Stale
  BY DEF topologyRest, Valid, Commit, FinishTransaction, runtimeVars
<1>2. /\ c \in Frames /\ c.pc \notin {"none", "ask", "detach"}
      /\ c.pc \in Candidates \/ c.pc \in Quiescing
  BY DEF Fields, Idle
<1>3. /\ state \in {"READY", "QUIESCING"} /\ registry[c.key] = old /\ c.key \in Keys
      /\ PlanIsStable /\ ~settlement.on
  BY <1>1, <1>2 DEF Undisturbed, Frames
<1>4. ~SessionOpen /\ claims = {} /\ settlement.todo = {} /\ closing = {}
  BY <1>3 DEF Passes, SessionOpen
<1>5. /\ new # old /\ old \in OneOrNone /\ new \in OneOrNone
      /\ c.op = "unregister" <=> new = NoOne
      /\ c.op = "unregister" => old # NoOne
      /\ c.op = "register" => old = NoOne
      /\ c.cleanup = "none" <=> new = NoOne
      /\ new # NoOne => KeyOf[new] = c.key /\ new \in taken
      /\ old # NoOne => KeyOf[old] = c.key
      /\ c.serial <= generation
  BY <1>2 DEF InHand, Frames
<1>6. new # NoOne => new \in Instances /\ new \notin Present /\ disposed[new] = 0 /\ asked[new] = 0
  BY <1>1, <1>2 DEF Owned, Pending
<1>7. old # NoOne => old \in Registered /\ old \in Present /\ disposed[old] = 0 /\ old \in Instances
  BY <1>3, <1>4, <1>5, Known DEF Registered, Present, OneOrNone
<1>8. /\ registry' = [registry EXCEPT ![c.key] = new]
      /\ activePlan' = (activePlan \ {old}) \cup ({new} \ {NoOne})
  BY DEF Commit
<1>9. registry' \in [Keys -> OneOrNone] /\ activePlan' \subseteq Instances
  BY <1>5, <1>6, <1>8 DEF Fields, OneOrNone
<1>10. KeysMatch' BY <1>3, <1>5, <1>8 DEF Fields, KeysMatch
<1>11. Registered' = (Registered \ {old}) \cup ({new} \ {NoOne})
  <2>1. \A j : j \in Registered <=> j \in Instances /\ registry[KeyOf[j]] = j
    BY RegisteredAt DEF Fields, Registered, KeysMatch
  <2>2. \A j : j \in Registered' <=> j \in Instances /\ registry'[KeyOf[j]] = j
    BY <1>9, <1>10, RegisteredAt DEF Registered, KeysMatch
  <2>3. ASSUME NEW j \in Instances
        PROVE  registry'[KeyOf[j]] = j <=> (registry[KeyOf[j]] = j /\ j # old) \/ j = new
    <3>1. CASE KeyOf[j] = c.key BY <1>3, <1>5, <1>8, <3>1 DEF Fields
    <3>2. CASE KeyOf[j] # c.key
      <4>1. registry'[KeyOf[j]] = registry[KeyOf[j]] BY <1>8, <3>2 DEF Fields
      <4>2. j # new /\ j # old BY <1>5, <3>2
      <4> QED BY <4>1, <4>2
    <3> QED BY <3>1, <3>2
  <2>4. new # NoOne => new \in Instances BY <1>6
  <2>5. NoOne \notin Instances OBVIOUS
  <2> QED BY <2>1, <2>2, <2>3, <2>4, <2>5
<1>12. Present' = (Present \ {old}) \cup ({new} \ {NoOne}) BY <1>8, <1>11 DEF Present
<1>13. state = "READY" => /\ activePlan' = Registered'
                          /\ \A j \in Registered' : \A d \in Deps[KeyOf[j]] : registry'[d] # NoOne
  <2> SUFFICES ASSUME state = "READY"
               PROVE  /\ activePlan' = Registered'
                      /\ \A j \in Registered' : \A d \in Deps[KeyOf[j]] : registry'[d] # NoOne
    OBVIOUS
  <2>1. activePlan = Registered /\ \A j \in Registered : \A d \in Deps[KeyOf[j]] : registry[d] # NoOne
    BY DEF Whole
  <2>2. activePlan' = Registered' BY <1>8, <1>11, <2>1
  <2>3. ASSUME NEW j \in Registered', NEW d \in Deps[KeyOf[j]]
        PROVE  registry'[d] # NoOne
    <3>1. j \in Instances /\ KeyOf[j] \in Keys /\ d \in Keys BY <1>6, <1>11, Known
    <3>2. d # c.key => registry'[d] = registry[d] BY <1>8, <3>1 DEF Fields
    <3>3. registry'[c.key] = new BY <1>3, <1>8 DEF Fields
    <3>4. CASE j = new /\ new # NoOne BY <1>3, <1>5, <3>2, <3>4 DEF PlanIsStable
    <3>5. CASE j \in Registered /\ j # old
      <4>1. registry[d] # NoOne BY <2>1, <3>5
      <4>2. d = c.key => new # NoOne BY <1>3, <1>5, <3>5 DEF PlanIsStable
      <4> QED BY <3>2, <3>3, <4>1, <4>2
    <3> QED BY <1>11, <3>4, <3>5
  <2> QED BY <2>2, <2>3
<1>14. published \in OneOrNone /\ (published # NoOne => published \in Registered \cup {new})
  BY <1>5 DEF Fields, Whole
<1>15. /\ claims' = claims
       /\ \/ /\ old = NoOne /\ service' = published /\ disposed' = disposed
             /\ mutation' = FALSE /\ gate' = "succeeded" /\ continuation' = Idle
          \/ /\ old # NoOne /\ disposed' = [disposed EXCEPT ![old] = 1]
             /\ service' = IF published = old THEN NoOne ELSE published
             /\ UNCHANGED <<mutation, gate>>
             /\ continuation' = [c EXCEPT !.pc = "detach", !.intent = FALSE, !.expected = NoOne,
                                   !.cleanup = IF new = NoOne THEN @ ELSE "transferred"]
  <2>1. CASE old = NoOne BY <1>1, <2>1 DEF Commit, Finished
  <2>2. CASE old # NoOne
    <3>1. /\ DisposeOnce(old, published) /\ UNCHANGED <<mutation, gate>>
          /\ continuation' = [c EXCEPT !.pc = "detach", !.intent = FALSE, !.expected = NoOne,
                                !.cleanup = IF new = NoOne THEN @ ELSE "transferred"]
      BY <2>2 DEF Commit
    <3>2. disposed' = [disposed EXCEPT ![old] = disposed[old] + 1] /\ claims' = claims
          /\ service' = IF published = old THEN NoOne ELSE published
      <4> HIDE DEF published, old
      <4>1. DisposedWith({}, old, published) /\ claims' = claims BY <1>4, <3>1 DEF DisposeOnce
      <4> QED BY <4>1 DEF DisposedWith
    <3>3. disposed' = [disposed EXCEPT ![old] = 1]
      <4>1. disposed[old] + 1 = 1 BY <1>7, <2>2
      <4> HIDE DEF published, old
      <4> QED BY <3>2, <4>1
    <3> QED BY <2>2, <3>1, <3>2, <3>3
  <2> QED BY <2>1, <2>2
<1>16. /\ service' \in OneOrNone /\ (service' # NoOne => service' \in Registered')
  <2> HIDE DEF published, old, new
  <2>1. NoOne \in OneOrNone BY DEF OneOrNone
  <2>2. old = NoOne => old \notin Registered BY Known DEF Present
  <2> QED BY <1>11, <1>14, <1>15, <2>1, <2>2
<1>17. \/ /\ continuation' = Idle /\ continuation'.pc = "none" /\ continuation'.cleanup = "none"
          /\ ~mutation' /\ mutation' \in BOOLEAN /\ gate' = "succeeded"
       \/ /\ continuation' \in Frames /\ continuation'.pc = "detach"
          /\ continuation'.op = c.op /\ continuation'.key = c.key
          /\ continuation'.candidate = new /\ continuation'.previous = old
          /\ continuation'.serial = c.serial /\ old # NoOne
          /\ continuation'.cleanup = IF new = NoOne THEN "none" ELSE "transferred"
          /\ mutation' = mutation /\ gate' = gate
  <2>1. CASE continuation' = Idle /\ mutation' = FALSE /\ gate' = "succeeded" BY <2>1 DEF Idle
  <2>2. CASE /\ old # NoOne /\ UNCHANGED <<mutation, gate>>
             /\ continuation' = [c EXCEPT !.pc = "detach", !.intent = FALSE, !.expected = NoOne,
                                   !.cleanup = IF new = NoOne THEN @ ELSE "transferred"]
    <3>1. NoOne \in OneOrNone BY DEF OneOrNone
    <3> QED BY <1>2, <1>5, <2>2, <3>1 DEF Frames
  <2> QED BY <1>15, <2>1, <2>2
<1>18. disposed' \in [Instances -> Nat] /\ \A j \in Instances : disposed'[j] = IF j = old THEN 1 ELSE disposed[j]
  BY <1>7, <1>15 DEF Fields
<1> HIDE DEF c, new, old, published
<1>19. Fields' BY <1>1, <1>4, <1>9, <1>15, <1>16, <1>17, <1>18 DEF Fields
<1>20. InHand'
  <2>1. CASE continuation' = Idle BY <2>1 DEF InHand, Idle
  <2>2. CASE continuation'.pc = "detach" BY <1>1, <1>5, <1>17, <2>2 DEF InHand
  <2> QED BY <1>17, <2>1, <2>2
<1>21. Owned' BY <1>1, <1>3, <1>17 DEF Owned
<1>22. Pending' BY <1>17 DEF Pending
<1>23. Passes' /\ Emptied'
  <2>1. ~SessionOpen' BY <1>1, <1>3 DEF SessionOpen
  <2>2. \A j \in Present' : j \in taken' /\ disposed'[j] = 0
    <3>1. Present \subseteq taken /\ Present \subseteq Instances /\ \A j \in Present : disposed[j] = 0
      BY <1>4, Known
    <3> QED BY <1>1, <1>5, <1>6, <1>12, <1>18, <3>1
  <2> QED BY <1>1, <1>3, <1>4, <1>15, <2>1, <2>2 DEF Passes, Emptied
<1>24. Undisturbed' BY <1>1, <1>3, <1>17 DEF Undisturbed, Stale
<1>25. Whole' BY <1>1, <1>13, <1>16 DEF Whole
<1>26. Asked'
  <2>1. state = "QUIESCING" => shutdown.pc # "quiesce" BY <1>1 DEF Asked
  <2>2. \A j \in Present : asked[j] = 0 \/ j = old BY <1>1, <1>3, <2>1 DEF Asked, old
  <2>3. \A j \in Present' : asked'[j] = 0 BY <1>1, <1>6, <1>12, <2>2
  <2> QED BY <1>1, <2>1, <2>3 DEF Asked
<1>27. Counted'
  <2>1. \A j \in taken : j \in Registered \/ disposed[j] = 1 \/ j = new
    BY DEF Counted, CandidateAccounted, new
  <2>2. taken \subseteq Instances /\ NoOne \notin Instances BY DEF Fields
  <2>3. \A j \in taken : j \in Registered' \/ disposed'[j] = 1 BY <1>11, <1>18, <2>1, <2>2
  <2>4. \A j \in Instances : /\ disposed'[j] <= 1 /\ asked'[j] <= 1
                             /\ j \notin taken => disposed'[j] = 0 /\ asked'[j] = 0
    <3>1. old # NoOne => old \in taken BY <1>7, Known
    <3> QED BY <1>1, <1>18, <2>2, <3>1, Known DEF Counted
  <2> QED BY <1>1, <2>3, <2>4 DEF Counted, CandidateAccounted
<1> QED BY <1>10, <1>19, <1>20, <1>21, <1>22, <1>23, <1>24, <1>25, <1>26, <1>27

-----------------------------------------------------------------------------
\* Every action is a step of one of these kinds

LEMMA RollbackStep ==
  ASSUME TopologyInv, Unwound, Rollback, continuation.pc \in {"compile"} \cup Candidates,
         UNCHANGED <<planVars, topologyRest, closing, asked, taken>>
  PROVE  TopologyInv'
<1>1. CASE continuation.cleanup = "pending"
  <2>1. /\ DisposeOnce(continuation.candidate, service)
        /\ continuation' = [continuation EXCEPT !.pc = "rollback", !.cleanup = "done"]
        /\ UNCHANGED <<state, generation, mutation, gate>>
    BY <1>1 DEF Rollback, runtimeVars
  <2>2. continuation.pc \notin {"none", "ask", "detach"} /\ continuation.pc \notin Quiescing
    OBVIOUS
  <2>3. "rollback" = "giveUp" <=> continuation.pc \in Quiescing BY <2>2
  <2> QED BY <1>1, <2>1, <2>2, <2>3, DropStep
<1>2. CASE continuation.cleanup # "pending"
  <2>1. /\ UNCHANGED <<state, generation, ownVars>> /\ continuation' = Idle /\ mutation' = FALSE
        /\ gate' = gate \/ (mutation /\ gate' \in {"succeeded", "failed"})
    BY <1>2 DEF Rollback, Finished, FinishTransaction
  <2>2. continuation.pc \notin Quiescing \cup {"giveUp"} /\ continuation.pc # "none" OBVIOUS
  <2> QED BY <1>2, <2>1, <2>2, EndStep
<1> QED BY <1>1, <1>2

LEMMA AbandonStep ==
  ASSUME TopologyInv, Unwound, Abandon, continuation.pc \in Quiescing \cup {"giveUp"},
         continuation.cleanup # "pending",
         UNCHANGED <<planVars, topologyRest, asked, taken>>
  PROVE  TopologyInv'
<1>1. CASE /\ state = "READY" /\ FinishTransactionAndDispose(Tx)
           /\ closing' = activePlan \cup Registered /\ TakeOver(TRUE)
  <2>1. /\ state \notin {"DISPOSING", "DISPOSED"} /\ state' = "DISPOSING"
        /\ generation' = generation + 1
        /\ UNCHANGED <<planVars, leases, settlement, shutdown, asked, taken>>
    BY <1>1 DEF FinishTransactionAndDispose, topologyRest
  <2> QED BY <1>1, <2>1, DisposalStep
<1>2. CASE /\ state # "READY" /\ FinishTransaction(Tx) /\ FailTopology
           /\ UNCHANGED <<ownVars, closing>>
  <2>1. /\ UNCHANGED <<state, generation>> /\ continuation' = Idle /\ mutation' = FALSE
        /\ gate' = gate \/ (mutation /\ gate' \in {"succeeded", "failed"})
        /\ mutation => gate' = "failed"
    BY <1>2 DEF FailTopology, FinishTransaction
  <2>2. continuation.pc # "none" OBVIOUS
  <2> QED BY <1>2, <2>1, <2>2, EndStep
<1> QED BY <1>1, <1>2 DEF Abandon

LEMMA StartDisposalStep ==
  ASSUME TopologyInv, StartDisposal,
         UNCHANGED <<planVars, leases, settlement, shutdown, asked, taken>>
  PROVE  TopologyInv'
<1>1. /\ TakeOver(FALSE) /\ state \notin {"DISPOSING", "DISPOSED"} /\ state' = "DISPOSING"
      /\ generation' = generation + 1 /\ closing' = activePlan \cup Registered
  BY DEF StartDisposal, BeginDispose
<1> QED BY <1>1, DisposalStep

LEMMA ShutdownCallStep == TopologyInv /\ ShutdownCall => TopologyInv'
<1> SUFFICES ASSUME TopologyInv, ShutdownCall PROVE TopologyInv' OBVIOUS
<1>1. CASE StartDisposal /\ UNCHANGED shutdown
  <2>1. UNCHANGED <<planVars, leases, settlement, shutdown, asked, taken>>
    BY <1>1 DEF ShutdownCall, shutdownRest
  <2> QED BY <1>1, <2>1, StartDisposalStep
<1>2. CASE /\ state \in {"NEW", "READY", "FAILED"} /\ BeginQuiesce
           /\ shutdown' = IF mutation THEN [pc |-> "wait", todo |-> {}]
                          ELSE [pc |-> "quiesce", todo |-> activePlan]
           /\ UNCHANGED <<mutationVars, ownVars, closing>>
  BY <1>2, QuiesceStep
<1> QED BY <1>1, <1>2 DEF ShutdownCall

LEMMA ShutdownWaitStep == TopologyInv /\ ShutdownWait => TopologyInv'
<1> SUFFICES ASSUME TopologyInv, ShutdownWait PROVE TopologyInv' OBVIOUS
<1>1. CASE StartDisposal /\ UNCHANGED shutdown
  <2>1. UNCHANGED <<planVars, leases, settlement, shutdown, asked, taken>>
    BY <1>1 DEF ShutdownWait, shutdownRest
  <2> QED BY <1>1, <2>1, StartDisposalStep
<1>2. CASE /\ ~mutation /\ gate = "succeeded"
           /\ shutdown' = [pc |-> "quiesce", todo |-> activePlan]
           /\ UNCHANGED <<runtimeVars, mutationVars, ownVars, closing>>
  BY <1>2, QuiesceStep
<1> QED BY <1>1, <1>2 DEF ShutdownWait

LEMMA EnvironmentStep == TopologyInv /\ (Environment \/ CleanupStep \/ ShutdownStep) => TopologyInv'
<1> SUFFICES ASSUME TopologyInv, Environment \/ CleanupStep \/ ShutdownStep
             PROVE  TopologyInv'
  OBVIOUS
<1>1. CASE InitStart \/ InitFinish \/ FailArchitecture
  BY <1>1, InitStartStep, InitFinishStep, FailStep
<1>2. CASE DisposeCall BY <1>2, StartDisposalStep DEF DisposeCall
<1>3. CASE ShutdownCall \/ ShutdownWait BY <1>3, ShutdownCallStep, ShutdownWaitStep
<1>4. CASE ShutdownQuiesced BY <1>4, StartDisposalStep DEF ShutdownQuiesced, shutdownRest
<1>5. CASE SettleEnd \/ CloseEnd BY <1>5, ClearStep
<1>6. ASSUME NEW i \in Instances, Assemble(i) PROVE TopologyInv' BY <1>6, AssembleStep
<1>7. ASSUME NEW i \in Instances, AsyncReturn(i) PROVE TopologyInv'
  <2>1. /\ leases' = leases
        /\ UNCHANGED <<state, generation, planVars, mutationVars, passVars, ownVars, asked, taken>>
    BY <1>7 DEF AsyncReturn, runtimeVars
  <2>2. /\ leases' \in [Children -> {"none", "module", "factory"}]
        /\ mutation => \A c \in Children : leases'[c] # "module"
    BY <2>1 DEF Fields, Owned
  <2> QED BY <2>1, <2>2, BesideStep
<1>8. ASSUME NEW i \in Instances, RegisterService(i) \/ UnregisterService(i) PROVE TopologyInv'
  BY <1>8, ServiceStep
<1>9. ASSUME NEW c \in Children, AcquireLease(c) \/ ReleaseLease(c) PROVE TopologyInv'
  <2>1. UNCHANGED <<state, generation, planVars, mutationVars, passVars, ownVars, asked, taken>>
    BY <1>9 DEF AcquireLease, ReleaseLease, runtimeVars
  <2>2. /\ \E kind \in {"none", "module", "factory"} : leases' = [leases EXCEPT ![c] = kind]
        /\ mutation => leases' = [leases EXCEPT ![c] = "none"]
    BY <1>9 DEF AcquireLease, ReleaseLease
  <2>3. /\ leases' \in [Children -> {"none", "module", "factory"}]
        /\ mutation => \A d \in Children : leases'[d] # "module"
    BY <2>2 DEF Fields, Owned
  <2> QED BY <2>1, <2>3, BesideStep
<1>10. ASSUME NEW i \in Instances, SettleModule(i) \/ CloseModule(i) PROVE TopologyInv'
  <2>1. /\ i \in (settlement.todo \cup closing) \ claims /\ SessionOpen /\ DisposeOnce(i, service)
        /\ UNCHANGED <<state, generation, planVars, mutationVars, leases, passVars, asked, taken>>
    BY <1>10 DEF SettleModule, CloseModule, SessionOpen, runtimeVars
  <2> QED BY <2>1, PassStep
<1>11. ASSUME NEW i \in Instances, ShutdownAsk(i) PROVE TopologyInv' BY <1>11, ShutdownAskStep
<1> QED
  BY <1>1, <1>2, <1>3, <1>4, <1>5, <1>6, <1>7, <1>8, <1>9, <1>10, <1>11
  DEF Environment, CleanupStep, ShutdownStep

LEMMA MutateStep == TopologyInv /\ Mutate => TopologyInv'
<1> SUFFICES ASSUME TopologyInv, Mutate PROVE TopologyInv' OBVIOUS
<1> USE TopologyAssumption
<1>1. ASSUME NEW i \in Instances, Register(i) PROVE TopologyInv'
  <2>1. /\ Begin("register", KeyOf[i], i) /\ i \notin taken /\ registry[KeyOf[i]] = NoOne
        /\ KeyOf[i] \in Keys /\ i # NoOne /\ i \in OneOrNone
    BY <1>1 DEF Register, Fresh, OneOrNone
  <2> QED BY <2>1, BeginStep
<1>2. ASSUME NEW i \in Instances, Replace(i) PROVE TopologyInv'
  <2>1. /\ Begin("replace", KeyOf[i], i) /\ i \notin taken
        /\ KeyOf[i] \in Keys /\ i # NoOne /\ i \in OneOrNone
    BY <1>2 DEF Replace, Fresh, OneOrNone
  <2> QED BY <2>1, BeginStep
<1>3. ASSUME NEW k \in Keys, Unregister(k) PROVE TopologyInv'
  <2>1. Begin("unregister", k, NoOne) /\ registry[k] # NoOne /\ NoOne \in OneOrNone
    BY <1>3 DEF Unregister, OneOrNone
  <2> QED BY <2>1, BeginStep
<1> QED BY <1>1, <1>2, <1>3 DEF Mutate

LEMMA AskReturnStep == TopologyInv /\ AskReturn => TopologyInv'
<1> SUFFICES ASSUME TopologyInv, AskReturn PROVE TopologyInv' OBVIOUS
<1>1. CASE Finished /\ UNCHANGED <<runtimeVars, taken>>
  <2>1. /\ UNCHANGED <<state, generation, planVars, topologyRest, ownVars, closing, asked, taken>>
        /\ Unwound /\ continuation.pc = "ask" /\ continuation' = Idle /\ mutation' = FALSE
        /\ gate' = gate \/ (mutation /\ gate' \in {"succeeded", "failed"})
    BY <1>1 DEF AskReturn, Finished, runtimeVars
  <2>2. continuation.cleanup # "pending" BY <2>1 DEF InHand
  <2>3. continuation.pc \notin Quiescing \cup {"giveUp", "none"} BY <2>1
  <2> QED BY <2>1, <2>2, <2>3, EndStep
<1>2. CASE /\ mutation /\ state = "READY"
           /\ registry[continuation.key] = continuation.previous
           /\ Compile(continuation) /\ UNCHANGED <<mutation, gate>>
  BY <1>2, CompileStep DEF AskReturn
<1> QED BY <1>1, <1>2 DEF AskReturn

\* A step from one hook to the next.
LEMMA OnwardStep ==
  ASSUME TopologyInv, NEW pc \in Candidates \cup {"quiesceWait"},
         continuation' = [continuation EXCEPT !.pc = pc],
         \/ continuation.pc \in Candidates /\ pc \in Candidates
         \/ continuation.pc = "quiesceHook" /\ pc = "quiesceWait",
         UNCHANGED <<runtimeVars, planVars, mutation, gate, topologyRest, ownVars, closing,
                     asked, taken>>
  PROVE  TopologyInv'
<1>1. UNCHANGED <<state, generation, planVars, mutation, gate, topologyRest, ownVars, closing,
                  asked, taken>>
  BY DEF runtimeVars
<1> QED BY <1>1, MoveStep

LEMMA CompileReturnStep == TopologyInv /\ CompileReturn => TopologyInv'
<1> SUFFICES ASSUME TopologyInv, CompileReturn PROVE TopologyInv' OBVIOUS
<1>1. /\ continuation.pc = "compile" /\ Unwound
      /\ UNCHANGED <<topologyRest, planVars, closing, taken>>
  BY DEF CompileReturn
<1>2. CASE Rollback /\ UNCHANGED asked
  <2>1. continuation.pc \in {"compile"} \cup Candidates /\ UNCHANGED <<planVars, topologyRest, closing, asked, taken>>
    BY <1>1, <1>2
  <2> QED BY <1>1, <1>2, <2>1, RollbackStep
<1>3. CASE /\ Valid /\ state = "READY" /\ PlanIsStable /\ continuation.op = "unregister"
           /\ AskPrevious /\ UNCHANGED <<runtimeVars, mutation, gate, ownVars>>
  <2>1. continuation.previous # NoOne BY <1>1, <1>3 DEF InHand
  <2>2. UNCHANGED <<state, generation, planVars, mutation, gate, topologyRest, ownVars, closing, taken>>
    BY <1>1, <1>3 DEF runtimeVars
  <2> QED BY <1>1, <1>3, <2>1, <2>2, AskPreviousStep
<1>4. CASE /\ PlanIsStable /\ continuation.op # "unregister" /\ UNCHANGED asked
           /\ continuation' = [continuation EXCEPT !.pc = "init"]
           /\ UNCHANGED <<runtimeVars, mutation, gate, ownVars>>
  <2>1. /\ "init" \in Candidates \cup {"quiesceWait"}
        /\ UNCHANGED <<state, generation, planVars, mutation, gate, topologyRest, ownVars, closing,
                       asked, taken>>
    BY <1>1, <1>4 DEF runtimeVars
  <2> QED BY <1>1, <1>4, <2>1, MoveStep
<1> QED BY <1>2, <1>3, <1>4 DEF CompileReturn

LEMMA InitReturnStep == TopologyInv /\ InitReturn => TopologyInv'
<1> SUFFICES ASSUME TopologyInv, InitReturn PROVE TopologyInv' OBVIOUS
<1>1. /\ continuation.pc = "init" /\ Unwound /\ continuation.pc \in Candidates
      /\ "async" \in Candidates
      /\ UNCHANGED <<topologyRest, planVars, closing, asked, taken>>
  BY DEF InitReturn
<1>2. CASE Rollback BY <1>1, <1>2, RollbackStep
<1>3. CASE /\ continuation' = [continuation EXCEPT !.pc = "async"]
           /\ UNCHANGED <<runtimeVars, mutation, gate, ownVars>>
  BY <1>1, <1>3, OnwardStep
<1> QED BY <1>2, <1>3 DEF InitReturn

LEMMA AsyncStepStep == TopologyInv /\ AsyncStep => TopologyInv'
<1> SUFFICES ASSUME TopologyInv, AsyncStep PROVE TopologyInv' OBVIOUS
<1>1. /\ continuation.pc = "async" /\ Unwound /\ continuation.pc \in Candidates
      /\ "ready" \in Candidates
      /\ UNCHANGED <<topologyRest, planVars, closing, asked, taken>>
  BY DEF AsyncStep
<1>2. CASE Rollback BY <1>1, <1>2, RollbackStep
<1>3. CASE /\ continuation' = [continuation EXCEPT !.pc = "ready"]
           /\ UNCHANGED <<runtimeVars, mutation, gate, ownVars>>
  BY <1>1, <1>3, OnwardStep
<1> QED BY <1>2, <1>3 DEF AsyncStep

LEMMA ReadyReturnStep == TopologyInv /\ ReadyReturn => TopologyInv'
<1> SUFFICES ASSUME TopologyInv, ReadyReturn PROVE TopologyInv' OBVIOUS
<1>1. /\ continuation.pc = "ready" /\ Unwound /\ continuation.pc \in Candidates
      /\ "actHook" \in Candidates
      /\ UNCHANGED <<topologyRest, planVars, closing, asked, taken>>
  BY DEF ReadyReturn
<1>2. CASE Rollback BY <1>1, <1>2, RollbackStep
<1>3. CASE /\ continuation' = [continuation EXCEPT !.pc = "actHook"]
           /\ UNCHANGED <<runtimeVars, mutation, gate, ownVars>>
  BY <1>1, <1>3, OnwardStep
<1> QED BY <1>2, <1>3 DEF ReadyReturn

\* The plan of a candidate that is at work is stable, as long as its transaction is valid.
LEMMA ActivatedStep ==
  ASSUME TopologyInv, Activated, Unwound, continuation.pc \in Candidates,
         UNCHANGED <<topologyRest, closing, taken>>
  PROVE  TopologyInv'
<1>1. CASE Rollback /\ UNCHANGED <<planVars, asked>> BY <1>1, RollbackStep
<1>2. CASE Committable /\ continuation.previous = NoOne /\ Commit /\ UNCHANGED asked
  BY <1>2, CommitStep DEF Committable
<1>3. CASE /\ Committable /\ continuation.previous # NoOne /\ AskPrevious
           /\ UNCHANGED <<runtimeVars, planVars, mutation, gate, ownVars>>
  <2>1. Valid /\ PlanIsStable BY <1>3 DEF Committable, Valid, Undisturbed
  <2>2. UNCHANGED <<state, generation, planVars, mutation, gate, topologyRest, ownVars, closing, taken>>
    BY <1>3 DEF runtimeVars
  <2> QED BY <1>3, <2>1, <2>2, AskPreviousStep
<1> QED BY <1>1, <1>2, <1>3 DEF Activated

LEMMA ActHookReturnStep == TopologyInv /\ ActHookReturn => TopologyInv'
<1> SUFFICES ASSUME TopologyInv, ActHookReturn PROVE TopologyInv' OBVIOUS
<1>1. /\ Unwound /\ continuation.pc \in Candidates /\ "actWait" \in Candidates
      /\ UNCHANGED <<topologyRest, closing, taken>>
  BY DEF ActHookReturn
<1>2. CASE Activated BY <1>1, <1>2, ActivatedStep
<1>3. CASE /\ continuation' = [continuation EXCEPT !.pc = "actWait"]
           /\ UNCHANGED <<runtimeVars, planVars, mutation, gate, ownVars, asked>>
  BY <1>1, <1>3, OnwardStep
<1> QED BY <1>2, <1>3 DEF ActHookReturn

LEMMA QuiescedStep ==
  ASSUME TopologyInv, Quiesced, Unwound, continuation.pc \in Quiescing,
         UNCHANGED <<topologyRest, asked, taken>>
  PROVE  TopologyInv'
<1>1. CASE Valid /\ Commit /\ UNCHANGED closing BY <1>1, CommitStep
<1>2. CASE /\ continuation.cleanup = "pending" /\ UNCHANGED planVars
           /\ DisposeOnce(continuation.candidate, service)
           /\ continuation' = [continuation EXCEPT !.pc = "giveUp", !.cleanup = "done"]
           /\ UNCHANGED <<runtimeVars, mutation, gate, closing>>
  <2>1. /\ UNCHANGED <<state, generation, mutation, gate, planVars, topologyRest, closing, asked, taken>>
        /\ continuation.pc \notin {"none", "ask", "detach"}
        /\ "giveUp" = "giveUp" <=> continuation.pc \in Quiescing
    BY <1>2 DEF runtimeVars
  <2> QED BY <1>2, <2>1, DropStep
<1>3. CASE continuation.cleanup # "pending" /\ Abandon /\ UNCHANGED planVars
  <2>1. continuation.pc \in Quiescing \cup {"giveUp"} OBVIOUS
  <2> QED BY <1>3, <2>1, AbandonStep
<1> QED BY <1>1, <1>2, <1>3 DEF Quiesced

LEMMA QuiesceHookReturnStep == TopologyInv /\ QuiesceHookReturn => TopologyInv'
<1> SUFFICES ASSUME TopologyInv, QuiesceHookReturn PROVE TopologyInv' OBVIOUS
<1>1. /\ Unwound /\ continuation.pc = "quiesceHook" /\ continuation.pc \in Quiescing
      /\ UNCHANGED <<topologyRest, asked, taken>>
  BY DEF QuiesceHookReturn
<1>2. CASE Quiesced BY <1>1, <1>2, QuiescedStep
<1>3. CASE /\ continuation' = [continuation EXCEPT !.pc = "quiesceWait"]
           /\ UNCHANGED <<runtimeVars, planVars, mutation, gate, ownVars, closing>>
  BY <1>1, <1>3, OnwardStep
<1> QED BY <1>2, <1>3 DEF QuiesceHookReturn

LEMMA CleanupReturnStep == TopologyInv /\ CleanupReturn => TopologyInv'
<1> SUFFICES ASSUME TopologyInv, CleanupReturn PROVE TopologyInv' OBVIOUS
<1>1. Unwound /\ UNCHANGED <<topologyRest, planVars, asked, taken>> BY DEF CleanupReturn
<1>2. CASE continuation.pc = "giveUp" /\ Abandon
  <2>1. continuation.cleanup # "pending" /\ continuation.pc \in Quiescing \cup {"giveUp"}
    BY <1>2 DEF InHand
  <2> QED BY <1>1, <1>2, <2>1, AbandonStep
<1>3. CASE /\ continuation.pc \in {"rollback", "detach"} /\ FinishTransaction(Tx)
           /\ Finished \/ FailTopology
           /\ UNCHANGED <<ownVars, closing>>
  <2>1. /\ UNCHANGED <<state, generation>> /\ continuation' = Idle /\ mutation' = FALSE
        /\ gate' = gate \/ (mutation /\ gate' \in {"succeeded", "failed"})
    BY <1>3 DEF Finished, FailTopology, FinishTransaction
  <2>2. continuation.pc \notin Quiescing \cup {"giveUp", "none"} BY <1>3
  <2>3. continuation.cleanup # "pending" BY <1>3 DEF InHand
  <2> QED BY <1>1, <1>3, <2>1, <2>2, <2>3, EndStep
<1> QED BY <1>2, <1>3 DEF CleanupReturn

LEMMA ContinuationInvStep == TopologyInv /\ ContinuationStep => TopologyInv'
<1> SUFFICES ASSUME TopologyInv, ContinuationStep PROVE TopologyInv' OBVIOUS
<1>1. CASE ActPoll
  <2>1. /\ Activated /\ Unwound /\ continuation.pc \in Candidates
        /\ UNCHANGED <<topologyRest, closing, taken>>
    BY <1>1 DEF ActPoll, AtFrame
  <2> QED BY <2>1, ActivatedStep
<1>2. CASE QuiescePoll
  <2>1. /\ Quiesced /\ Unwound /\ continuation.pc \in Quiescing
        /\ UNCHANGED <<topologyRest, asked, taken>>
    BY <1>2 DEF QuiescePoll, AtFrame
  <2> QED BY <2>1, QuiescedStep
<1> QED
  BY <1>1, <1>2, AskReturnStep, CompileReturnStep, InitReturnStep, AsyncStepStep, ReadyReturnStep,
     ActHookReturnStep, QuiesceHookReturnStep, CleanupReturnStep DEF ContinuationStep

LEMMA TopologyInvStep == TopologyInv /\ [Next]_vars => TopologyInv'
<1> SUFFICES ASSUME TopologyInv, [Next]_vars PROVE TopologyInv' OBVIOUS
<1>1. CASE UNCHANGED vars
  <2>1. /\ UNCHANGED <<state, generation, planVars, mutationVars, passVars, ownVars, asked, taken>>
        /\ leases' = leases
    BY <1>1 DEF vars, runtimeVars
  <2>2. /\ leases' \in [Children -> {"none", "module", "factory"}]
        /\ mutation => \A c \in Children : leases'[c] # "module"
    BY <2>1 DEF Fields, Owned
  <2> QED BY <2>1, <2>2, BesideStep
<1> QED BY <1>1, MutateStep, ContinuationInvStep, EnvironmentStep DEF Next

-----------------------------------------------------------------------------
\* Types of what the invariant does not look at

OtherTypes ==
  /\ transactions \in [TransactionIds -> Transaction]
  /\ asyncInit \in [Instances -> {"none", "running", "blocked", "returned"}]
  /\ staleBlocks \in Nat

LEMMA TransactionTypes ==
  ASSUME OtherTypes, generation \in Nat,
         \/ MarkTransactionsFailed \/ BeginDispose \/ BeginTransaction(Tx)
         \/ FinishTransaction(Tx) \/ FinishTransactionAndDispose(Tx) \/ UNCHANGED transactions
  PROVE  transactions' \in [TransactionIds -> Transaction]
<1>1. CASE MarkTransactionsFailed BY <1>1 DEF MarkTransactionsFailed, OtherTypes, Transaction
<1>2. CASE BeginDispose BY <1>2 DEF BeginDispose, OtherTypes, Transaction
<1>3. CASE BeginTransaction(Tx)
  <2>1. [NoTransaction EXCEPT !.open = TRUE, !.generation = generation] \in Transaction
    BY DEF NoTransaction, Transaction
  <2> QED BY <1>3, <2>1 DEF BeginTransaction, OtherTypes
<1>4. CASE FinishTransaction(Tx)
  BY <1>4 DEF FinishTransaction, OtherTypes, Transaction, NoTransaction
<1>5. CASE FinishTransactionAndDispose(Tx)
  BY <1>5 DEF FinishTransactionAndDispose, OtherTypes, Transaction, NoTransaction
<1> QED BY <1>1, <1>2, <1>3, <1>4, <1>5 DEF OtherTypes

\* What a step may do to the kernel transaction.
LEMMA TransactionSteps ==
  ASSUME [Next]_vars
  PROVE  \/ MarkTransactionsFailed \/ BeginDispose \/ BeginTransaction(Tx)
         \/ FinishTransaction(Tx) \/ FinishTransactionAndDispose(Tx) \/ UNCHANGED transactions
<1> USE DEF runtimeVars
<1>1. ASSUME Rollback PROVE FinishTransaction(Tx) \/ UNCHANGED transactions BY <1>1 DEF Rollback
<1>2. ASSUME Abandon PROVE FinishTransaction(Tx) \/ FinishTransactionAndDispose(Tx)
  BY <1>2 DEF Abandon
<1>3. ASSUME Commit PROVE FinishTransaction(Tx) \/ UNCHANGED transactions BY <1>3 DEF Commit
<1>4. ASSUME Activated PROVE FinishTransaction(Tx) \/ UNCHANGED transactions
  BY <1>1, <1>3, <1>4 DEF Activated
<1>5. ASSUME Quiesced
      PROVE  FinishTransaction(Tx) \/ FinishTransactionAndDispose(Tx) \/ UNCHANGED transactions
  BY <1>2, <1>3, <1>5 DEF Quiesced
<1>6. CASE Mutate
  <2>1. ASSUME NEW op, NEW k, NEW i, Begin(op, k, i)
        PROVE  BeginTransaction(Tx) \/ UNCHANGED transactions
    BY <2>1 DEF Begin, Compile
  <2> QED BY <1>6, <2>1 DEF Mutate, Register, Replace, Unregister
<1>7. CASE ContinuationStep
  <2>1. CASE AskReturn \/ CompileReturn \/ InitReturn
    BY <1>1, <2>1 DEF AskReturn, Compile, CompileReturn, InitReturn
  <2>2. CASE AsyncStep \/ ReadyReturn BY <1>1, <2>2 DEF AsyncStep, ReadyReturn
  <2>3. CASE ActHookReturn \/ ActPoll BY <1>4, <2>3 DEF ActHookReturn, ActPoll
  <2>4. CASE QuiesceHookReturn \/ QuiescePoll BY <1>5, <2>4 DEF QuiesceHookReturn, QuiescePoll
  <2>5. CASE CleanupReturn BY <1>2, <2>5 DEF CleanupReturn
  <2> QED BY <1>7, <2>1, <2>2, <2>3, <2>4, <2>5 DEF ContinuationStep
<1>8. CASE CleanupStep
  BY <1>8 DEF CleanupStep, SettleModule, CloseModule, SettleEnd, CloseEnd, FinishDispose
<1>9. CASE ShutdownStep
  BY <1>9 DEF ShutdownStep, ShutdownWait, ShutdownQuiesced, ShutdownAsk, StartDisposal
<1>10. CASE Environment
  <2>1. CASE InitStart \/ InitFinish \/ FailArchitecture
    BY <2>1 DEF InitStart, InitFinish, FailArchitecture, BeginInitialization, RestartAfterFailure,
            ActivateNothing, FailInitialization
  <2>2. CASE DisposeCall \/ ShutdownCall
    BY <2>2 DEF DisposeCall, ShutdownCall, StartDisposal, BeginQuiesce
  <2>3. ASSUME NEW i \in Instances, Assemble(i) \/ AsyncReturn(i)
        PROVE  UNCHANGED transactions
    BY <2>3 DEF Assemble, AsyncReturn
  <2>4. ASSUME NEW i \in Instances, RegisterService(i) \/ UnregisterService(i)
        PROVE  UNCHANGED transactions
    BY <2>4 DEF RegisterService, UnregisterService
  <2>5. ASSUME NEW c \in Children, AcquireLease(c) \/ ReleaseLease(c)
        PROVE  UNCHANGED transactions
    BY <2>5 DEF AcquireLease, ReleaseLease
  <2> QED BY <1>10, <2>1, <2>2, <2>3, <2>4, <2>5 DEF Environment
<1>11. CASE UNCHANGED vars BY <1>11 DEF vars
<1> QED BY <1>6, <1>7, <1>8, <1>9, <1>10, <1>11 DEF Next

\* What a step may do to the coroutines of the candidates.
LEMMA AsyncSteps ==
  ASSUME TopologyInv, OtherTypes, [Next]_vars
  PROVE  /\ asyncInit' \in [Instances -> {"none", "running", "blocked", "returned"}]
         /\ staleBlocks' \in Nat
<1>1. CASE InitReturn BY <1>1 DEF InitReturn, asyncVars, OtherTypes
<1>2. CASE AsyncStep BY <1>2 DEF AsyncStep, asyncVars, OtherTypes
<1>3. ASSUME NEW i \in Instances, AsyncReturn(i)
      PROVE  /\ asyncInit' \in [Instances -> {"none", "running", "blocked", "returned"}]
             /\ staleBlocks' \in Nat
  BY <1>3 DEF AsyncReturn, OtherTypes
<1>4. ASSUME ~InitReturn, ~AsyncStep, \A i \in Instances : ~AsyncReturn(i)
      PROVE  UNCHANGED asyncVars
  <2>1. CASE Mutate
    <3>1. ASSUME NEW op, NEW k, NEW i, Begin(op, k, i)
          PROVE  UNCHANGED asyncVars
      BY <3>1 DEF Begin
    <3> QED BY <2>1, <3>1 DEF Mutate, Register, Replace, Unregister
  <2>2. CASE ContinuationStep
    BY <1>4, <2>2 DEF ContinuationStep, AskReturn, CompileReturn, ReadyReturn, ActHookReturn,
       ActPoll, QuiesceHookReturn, QuiescePoll, CleanupReturn
  <2>3. CASE CleanupStep BY <2>3 DEF CleanupStep, SettleModule, CloseModule, SettleEnd, CloseEnd
  <2>4. CASE ShutdownStep
    BY <2>4 DEF ShutdownStep, ShutdownWait, ShutdownQuiesced, ShutdownAsk, shutdownRest
  <2>5. CASE Environment
    BY <1>4, <2>5 DEF Environment, InitStart, InitFinish, FailArchitecture, DisposeCall, ShutdownCall,
       shutdownRest, Assemble, RegisterService, UnregisterService, AcquireLease, ReleaseLease
  <2>6. CASE UNCHANGED vars BY <2>6 DEF vars
  <2> QED BY <2>1, <2>2, <2>3, <2>4, <2>5, <2>6 DEF Next
<1> QED BY <1>1, <1>2, <1>3, <1>4 DEF OtherTypes, asyncVars

-----------------------------------------------------------------------------
\* The plan is pinned

\* A continuation changes the plan, or publishes a service, only by a valid commit.
LEMMA OnlyCommits ==
  ASSUME ContinuationStep
  PROVE  \/ UNCHANGED planVars /\ service' \in {service, NoOne}
         \/ Valid /\ Commit
<1>1. ASSUME NEW i, DisposeOnce(i, service) PROVE service' \in {service, NoOne}
  BY <1>1 DEF DisposeOnce, DisposedWith
<1>2. ASSUME Rollback PROVE service' \in {service, NoOne} BY <1>1, <1>2 DEF Rollback, ownVars
<1>3. ASSUME Abandon PROVE service' \in {service, NoOne}
  BY <1>3 DEF Abandon, TakeOver, DisposedWith, ownVars
<1>4. ASSUME Activated
      PROVE  (UNCHANGED planVars /\ service' \in {service, NoOne}) \/ (Valid /\ Commit)
  BY <1>2, <1>4 DEF Activated, Committable, ownVars
<1>5. ASSUME Quiesced
      PROVE  (UNCHANGED planVars /\ service' \in {service, NoOne}) \/ (Valid /\ Commit)
  BY <1>1, <1>3, <1>5 DEF Quiesced
<1>6. CASE AskReturn \/ CompileReturn \/ InitReturn
  BY <1>2, <1>6 DEF AskReturn, CompileReturn, InitReturn, ownVars
<1>7. CASE AsyncStep \/ ReadyReturn BY <1>2, <1>7 DEF AsyncStep, ReadyReturn, ownVars
<1>8. CASE ActHookReturn \/ ActPoll BY <1>4, <1>8 DEF ActHookReturn, ActPoll, ownVars
<1>9. CASE QuiesceHookReturn \/ QuiescePoll
  BY <1>5, <1>9 DEF QuiesceHookReturn, QuiescePoll, ownVars
<1>10. CASE CleanupReturn BY <1>3, <1>10 DEF CleanupReturn, ownVars
<1> QED BY <1>6, <1>7, <1>8, <1>9, <1>10 DEF ContinuationStep

\* Everybody else leaves the coroutine where it is, and the plan of an architecture that
\* stays READY as it is.
LEMMA OthersLeave ==
  ASSUME TopologyInv, Environment \/ CleanupStep \/ ShutdownStep
  PROVE  /\ continuation'.pc = continuation.pc
         /\ state = "READY" /\ state' = "READY" => UNCHANGED planVars
<1>1. ASSUME TakeOver(FALSE) PROVE continuation'.pc = continuation.pc
  <2>1. continuation \in Frames \cup {Idle} BY DEF Fields
  <2> QED BY <1>1, <2>1 DEF TakeOver, Frames, Idle
<1>2. CASE InitStart \/ InitFinish \/ FailArchitecture
  BY <1>2 DEF InitStart, InitFinish, FailArchitecture, ActivateNothing, FailInitialization, mutationVars,
          planVars
<1>3. CASE DisposeCall \/ ShutdownCall \/ ShutdownStep
  BY <1>1, <1>3 DEF DisposeCall, ShutdownCall, ShutdownStep, ShutdownWait, ShutdownQuiesced, ShutdownAsk,
     StartDisposal, shutdownRest, mutationVars
<1>4. CASE CleanupStep
  <2>1. ~settlement.on \/ state # "READY" BY DEF Passes
  <2> QED
    BY <1>4, <2>1 DEF CleanupStep, SettleModule, CloseModule, SettleEnd, CloseEnd, FinishDispose, mutationVars
<1>5. ASSUME NEW i \in Instances, Assemble(i) \/ AsyncReturn(i)
      PROVE  /\ continuation'.pc = continuation.pc
             /\ state = "READY" => UNCHANGED planVars
  BY <1>5 DEF Assemble, AsyncReturn, mutationVars
<1>6. ASSUME NEW i \in Instances, RegisterService(i) \/ UnregisterService(i)
      PROVE  continuation'.pc = continuation.pc /\ UNCHANGED planVars
  <2>1. continuation \in Frames \cup {Idle} BY DEF Fields
  <2>2. /\ UNCHANGED planVars
        /\ \/ UNCHANGED continuation
           \/ continuation' = [continuation EXCEPT !.intent = TRUE, !.expected = service]
           \/ continuation' = [continuation EXCEPT !.intent = FALSE, !.expected = NoOne]
    BY <1>6 DEF RegisterService, UnregisterService
  <2> QED BY <2>1, <2>2 DEF Frames, Idle
<1>7. ASSUME NEW c \in Children, AcquireLease(c) \/ ReleaseLease(c)
      PROVE  continuation'.pc = continuation.pc /\ UNCHANGED planVars
  BY <1>7 DEF AcquireLease, ReleaseLease, mutationVars
<1> QED BY <1>2, <1>3, <1>4, <1>5, <1>6, <1>7 DEF Environment

Pinned ==
  /\ /\ continuation.pc \notin {"none", "ask"} /\ Stale
     /\ continuation'.pc # continuation.pc
     => UNCHANGED planVars /\ service' \in {service, NoOne}
  /\ /\ state = "READY" /\ state' = "READY" /\ generation' = generation
     /\ \E c \in Children : leases[c] = "module" /\ leases'[c] = "module"
     => UNCHANGED planVars

LEMMA PinnedStep == TopologyInv /\ [Next]_vars => Pinned
<1> SUFFICES ASSUME TopologyInv, [Next]_vars PROVE Pinned OBVIOUS
<1>1. CASE ContinuationStep
  <2>1. Valid => ~Stale /\ \A c \in Children : leases[c] # "module" BY DEF Valid, Owned
  <2> QED BY <1>1, <2>1, OnlyCommits DEF Pinned
<1>2. CASE Environment \/ CleanupStep \/ ShutdownStep BY <1>2, OthersLeave DEF Pinned
<1>3. CASE Mutate
  <2>1. ASSUME NEW op, NEW k, NEW i, Begin(op, k, i)
        PROVE  continuation.pc = "none" /\ UNCHANGED planVars
    BY <2>1 DEF Begin
  <2> QED BY <1>3, <2>1 DEF Mutate, Register, Replace, Unregister, Pinned
<1>4. CASE UNCHANGED vars BY <1>4 DEF vars, Pinned, mutationVars
<1> QED BY <1>1, <1>2, <1>3, <1>4 DEF Next

-----------------------------------------------------------------------------
\* Theorems

\* The parts of the invariant hold together, however a transaction is interleaved with
\* failures, restarts, shutdowns, disposals, services and leases.
THEOREM TopologyInvariant == Spec => [](TopologyInv /\ OtherTypes)
<1>1. Init => TopologyInv /\ OtherTypes
  BY TopologyInvInit, TopologyAssumption
  DEF Init, RuntimeInit, OtherTypes, Transaction, NoTransaction
<1>2. TopologyInv /\ OtherTypes /\ [Next]_vars => (TopologyInv /\ OtherTypes)'
  <2> SUFFICES ASSUME TopologyInv, OtherTypes, [Next]_vars
               PROVE  TopologyInv' /\ OtherTypes'
    OBVIOUS
  <2>1. TopologyInv' BY TopologyInvStep
  <2>2. generation \in Nat BY DEF Fields
  <2>3. transactions' \in [TransactionIds -> Transaction]
    BY <2>2, TransactionSteps, TransactionTypes
  <2> QED BY <2>1, <2>3, AsyncSteps DEF OtherTypes
<1> QED BY <1>1, <1>2, PTL DEF Spec

\* Every variable has its type.
THEOREM TopologyTypes == Spec => []TypeOK
<1>1. TopologyInv /\ OtherTypes => TypeOK
  BY DEF Fields, OtherTypes, TypeOK, RuntimeTypeOK, Frames
<1> QED BY <1>1, TopologyInvariant, PTL

\* No module whose ownership was accepted is leaked, and none is disposed twice or asked
\* to quiesce twice: GFArchitecture's _rollback_topology_candidate, _dispose_module_once
\* and _quiesce_topology_module, whatever is called between their awaits.
THEOREM CandidateIsAccounted == Spec => []CandidateAccounted
<1>1. TopologyInv => CandidateAccounted BY DEF Counted
<1> QED BY <1>1, TopologyInvariant, PTL

\* What a READY architecture shows is a whole commit, with the dependencies of all its
\* modules and without any that was disposed.
THEOREM CommitsAreWhole == Spec => []TopologyCommittedWhole
<1>1. TopologyInv => TopologyCommittedWhole
  <2> SUFFICES ASSUME TopologyInv, state = "READY" PROVE TopologyCommittedWhole
    BY DEF TopologyCommittedWhole
  <2>1. ~SessionOpen BY DEF Passes, SessionOpen
  <2> QED BY <2>1, Known DEF Whole, TopologyCommittedWhole, Present
<1> QED BY <1>1, TopologyInvariant, PTL

\* While its generation lasts, nobody disturbs a transaction, and none is left behind:
\* the later checks of _quiesce_topology_module's caller, which the model leaves out, hold.
THEOREM TransactionIsUndisturbed == Spec => []TransactionUndisturbed
<1>1. TopologyInv => TransactionUndisturbed
  BY DEF Whole, Owned, Undisturbed, TransactionUndisturbed
<1> QED BY <1>1, TopologyInvariant, PTL

\* A continuation whose generation has ended changes neither the plan nor a service, and a
\* child's lease keeps everybody from changing the plan of a READY architecture.
THEOREM PlanStaysPinned == Spec => PlanIsPinned
<1>1. TopologyInv /\ [Next]_vars => [Pinned]_vars BY PinnedStep
<1>2. Spec => [][Pinned]_vars BY <1>1, TopologyInvariant, PTL DEF Spec
<1> QED BY <1>2, PTL DEF Pinned, PlanIsPinned

=============================================================================
