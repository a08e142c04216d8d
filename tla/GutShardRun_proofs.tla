--------------------------- MODULE GutShardRun_proofs ---------------------------
(***************************************************************************)
(* What gut_shard_run deletes and what it calls ok, for any number of      *)
(* shards: proofs about GutShardRun.  The order is the types and what each *)
(* part of the state knows of the others, then lemmas about issues, the    *)
(* order of a wave's reports and who is in a wave, then one lemma for each *)
(* step.  Steps that leave the workers and the wave alone come first; what *)
(* they do to run, report and world is stated once (<1>a) and each part of *)
(* the invariant follows from it.  Those that only move the run to another *)
(* stage share MovesKeep, and the steps of a wave, which follow, share     *)
(* WaveGoesOn.                                                             *)
(***************************************************************************)
EXTENDS GutShardRun, SequenceTheorems, FiniteSetTheorems, TLAPS

\* What a worker may answer, as far as the run looks at it.
Answers == UNION {WorkerReports(i, cancelled) : i \in Workers, cancelled \in BOOLEAN}
Labels ==
  {"none", "worker_schedule_failed", "worker_wave_deadline_exhausted", "worker_exception",
   "worker_wave_failed", "worker_report_rejected", "fingerprint_boundary_unproven",
   "worker_deadline_exhausted", "worker_infrastructure_failed", "worker_cleanup_debt",
   "workspace_ownership_unproven", "process_boundary_unproven",
   "candidate_batch_deadline_exhausted", "candidate_batch_failed",
   "candidate_scheduling_deadline_exhausted", "candidate_workspace_acquisition_failed",
   "candidate_source_deadline_exhausted", "candidate_source_verification_failed",
   "workspace_cleanup_failed", "control_workspace_acquisition_failed",
   "control_deadline_exhausted", "control_report_rejected", "control_report_missing",
   "control_worker_failed", "control_cleanup_failed", "worker_evidence",
   "qualification_not_equivalent"}
AnyIssues == Seq([kind : Labels, who : Int, cause : Labels])
ShardErrors == {"none"} \cup SetupKinds \cup FinalKinds

\* The stages of one wave from its directory to its source check, and the ones before
\* the candidates are aggregated.
Waves == {"materialize", "submit", "poll", "drain", "unbatch", "removing", "source"}
Openings == {"setup", "root", "probe", "probing", "schedule"}
Pending == run.phase = "candidates" /\ run.stage \in Openings \cup Waves \cup {"settle"}
Counts == Pending \/ report.eligible

RunRecords ==
  [stage : Stages, phase : {"candidates", "control"}, next : Nat \ {0}, permitted : BOOLEAN,
   stopping : BOOLEAN, error : ShardErrors, interrupted : BOOLEAN]
FleetRecords ==
  [at : {"idle", "running", "finished"}, runs : Nat, tree : {"none", "present", "removed"},
   alive : BOOLEAN, crashed : BOOLEAN, out : Answers \cup {NoReport}]
WaveRecords ==
  [launched : Nat, pending : SUBSET Workers, done : SUBSET Workers,
   reports : SUBSET Answers, issues : AnyIssues, told : BOOLEAN]
ReportRecords(issues) ==
  [jobs : {1, 2}, qualify : BOOLEAN, bound : BOOLEAN, rooted : BOOLEAN, probed : BOOLEAN,
   shards : Seq(Answers), executed : Nat, aggregate : {"none", "eligible", "ineligible"},
   control : Seq(Answers), equivalence : {"none", "equal", "different"},
   eligible : BOOLEAN, qualified : BOOLEAN, status : Statuses \cup {"pending"},
   ok : BOOLEAN, issues : {issues}]
WorldRecords ==
  [expired : BOOLEAN, drifted : BOOLEAN, probe : {"idle", "live", "quiet"},
   batch : Directories, root : Directories]

\* As ShardRunTypeOK, in parts. The issues of a report that cannot be ok any more are
\* not looked at.
RunShape == run \in RunRecords
FleetShape == fleet \in [Workers -> FleetRecords]
WaveShape == wave \in WaveRecords
ReportShape == report \in ReportRecords(report.issues) /\ (Counts => report.issues \in AnyIssues)
WorldShape == world \in WorldRecords

\* Which worker each phase is at.
PhaseKnown ==
  /\ run.stage \in Openings \cup {"settle"} => run.phase = "candidates"
  /\ run.stage \in {"control", "judge"} => run.phase = "control"
  /\ run.stage \in Waves /\ run.phase = "candidates" => run.next <= ShardCount
  /\ run.error # "none" => run.stage \in {"unroot", "done"} /\ ~run.interrupted
  /\ run.interrupted => run.stage \in {"drain", "unroot", "raised"}
  /\ run.interrupted /\ run.stage = "drain" => ~run.permitted

\* Nothing of a worker runs, and one that was given a tree is through with it.
Resting(i) ==
  /\ fleet[i].at # "running" /\ ~fleet[i].alive
  /\ fleet[i].tree # "none" => fleet[i].at = "finished"
Fresh(i) ==
  fleet[i].at = "idle" /\ fleet[i].runs = 0 /\ ~fleet[i].alive /\ ~fleet[i].crashed

\* Whoever the run is not at this moment waiting for is at rest.
FleetRests ==
  /\ run.stage \in Openings \cup {"materialize", "removing", "source", "control", "proving"}
       => \A i \in Workers : Resting(i)
  /\ run.stage \in {"unbatch", "settle", "judge", "proof", "unroot"} /\ run.permitted
       => \A i \in Workers : Resting(i)
  /\ run.stage = "settle" /\ ~run.stopping => \A i \in Workers : Resting(i)
  /\ run.stage \in {"submit", "poll", "drain", "unbatch"} =>
       /\ \A i \in Workers \ Crew : Resting(i)
       /\ \A i \in Crew : fleet[i].tree = "present"
  /\ run.stage = "source" /\ InControl => \A i \in Crew : fleet[i].tree = "present"
  /\ \A i \in Workers : fleet[i].tree = "removed" => Resting(i)

\* The workers that were not yet submitted.
FreshKnown ==
  /\ Pending \/ run.stage = "control" \/ (run.stage = "materialize" /\ InControl)
       => Fresh(ControlShard)
  /\ Pending /\ run.stage \in Openings \cup {"materialize"} =>
       \A i \in Workers : i >= run.next => Fresh(i)
  /\ Pending /\ run.stage \in Waves \ {"materialize"} =>
       \A i \in Workers : i >= run.next + report.jobs => Fresh(i)

Launched == {Members[k] : k \in 1 .. wave.launched}
Unlaunched == {Members[k] : k \in wave.launched + 1 .. Len(Members)}
Through == Launched \ (wave.pending \cup wave.done)
WaveKnown ==
  /\ run.stage \in Openings \cup {"materialize", "unbatch", "removing", "source", "settle",
                                 "control"}
       => wave = NoWave
  /\ run.stage \in {"submit", "poll", "drain"} =>
       /\ wave.launched <= Len(Members)
       /\ \A i \in Unlaunched : Fresh(i)
       /\ wave.pending \cup wave.done \subseteq Launched /\ wave.pending \cap wave.done = {}
       /\ wave.told => wave.issues # <<>>
       /\ \A i \in wave.done \cup Through : fleet[i].at = "finished"
       /\ \A i \in Launched : fleet[i].runs = 1
  /\ run.stage = "submit" =>
       /\ wave.launched < Len(Members) /\ wave.done = {} /\ wave.issues = <<>>
       /\ Through = {}
  /\ /\ run.stage \in {"poll", "drain"} /\ ~run.interrupted
     /\ run.permitted \/ ~run.stopping \/ wave.issues = <<>>
     =>  /\ wave.launched = Len(Members)
         /\ run.stage = "drain" => wave.pending \cup wave.done = {}

\* What the wave knows of a worker whose answer it has, or can take.
AnswersKnown ==
  run.stage \in {"submit", "poll", "drain"} =>
    /\ \A i \in wave.pending \cup wave.done :
         fleet[i].at = "finished" /\ ~fleet[i].crashed =>
           /\ fleet[i].out \in Answers /\ fleet[i].out.who = i
           /\ fleet[i].alive = ~fleet[i].out.quiescent
    /\ \A rep \in wave.reports :
         /\ rep.who \in Through /\ rep = fleet[rep.who].out /\ ~fleet[rep.who].crashed
         /\ fleet[rep.who].alive = ~rep.quiescent
    /\ \A i \in Through :
         /\ run.permitted \/ ~run.stopping => ~fleet[i].alive
         /\ wave.issues = <<>> => fleet[i].out \in wave.reports /\ fleet[i].out.who = i

\* A worker that ran once, to its end, in a tree of its own, and left nothing behind.
Earned(i) ==
  /\ fleet[i].runs = 1 /\ fleet[i].at = "finished" /\ ~fleet[i].alive /\ ~fleet[i].crashed
  /\ fleet[i].tree # "none"

\* As long as there is no issue the reports are those of the shards, in their order.
ShardsEarned ==
  /\ Pending => ~report.eligible
  /\ Pending \/ run.stage \in {"control", "materialize", "submit", "poll", "drain"} =>
       report.control = <<>> /\ ~report.qualified
  /\ Counts /\ report.issues = <<>> =>
       /\ Len(report.shards) = report.executed /\ report.executed <= ShardCount
       /\ \A k \in 1 .. report.executed :
            report.shards[k].who = k /\ (report.shards[k].ok => Earned(k))
  /\ /\ Pending /\ report.issues = <<>>
     /\ run.stage \in Openings \cup {"materialize", "submit", "poll", "drain"}
     => \/ report.executed = run.next - 1
        \/ report.executed = ShardCount /\ run.next > ShardCount
  /\ Pending /\ report.issues = <<>> /\ run.stage \in {"unbatch", "removing", "source"} =>
       \/ report.executed = run.next - 1 + report.jobs
       \/ report.executed = ShardCount /\ run.next + report.jobs > ShardCount
  /\ report.eligible =>
       Len(report.shards) = ShardCount /\ \A k \in 1 .. ShardCount : report.shards[k].ok
  /\ report.control # <<>> /\ report.control[1].ok => Earned(ControlShard)
  /\ report.qualified => Earned(ControlShard)

\* The probe, the source and the end.
EndKnown ==
  /\ world.probe = "live" => ~run.permitted /\ run.stage \in {"probing", "unroot", "done", "raised"}
  /\ world.root = "removed" => world.probe # "live" /\ run.stage \in {"done", "raised"}
  /\ \/ run.stage \in Waves \cup {"schedule", "settle", "control", "judge", "proof", "proving"}
     \/ report.eligible
     => world.probe = "quiet"
  /\ run.stage = "unroot" /\ run.permitted /\ run.error = "none" /\ ~run.interrupted =>
       ~world.drifted
  /\ report.ok => run.stage = "done" /\ OkIsEarned

ShardRunInv ==
  /\ RunShape /\ FleetShape /\ WaveShape /\ ReportShape /\ WorldShape
  /\ PhaseKnown /\ FleetRests /\ FreshKnown /\ WaveKnown /\ AnswersKnown
  /\ ShardsEarned /\ EndKnown

\* What does not change as long as the workers do not, and while their wave goes on.
SameWorkers == \A i :
  /\ fleet'[i] = fleet[i]
  /\ (Resting(i)' <=> Resting(i)) /\ (Fresh(i)' <=> Fresh(i)) /\ (Earned(i)' <=> Earned(i))
SameCrew ==
  /\ run'.phase = run.phase /\ run'.next = run.next =>
       /\ (InControl' <=> InControl) /\ Members' = Members /\ Crew' = Crew
       /\ Launched' = Launched /\ Unlaunched' = Unlaunched /\ Through' = Through

\* Reports R of the workers m[1] .. m[n], each the one in f; and s, the line of them.
Rows(R, n, m, f) ==
  /\ R \in SUBSET Answers /\ n \in 1 .. 2
  /\ \A k \in 1 .. n : m[k] \in Int
  /\ n = 2 => m[1] < m[2]
  /\ \A rep \in R : rep = f[rep.who] /\ \E k \in 1 .. n : rep.who = m[k]
Sorted(s, R, n, m) ==
  /\ s \in Seq(Answers)
  /\ s # <<>> => s[1] \in R
  /\ (\A k \in 1 .. n : \E rep \in R : rep.who = m[k]) =>
       /\ Len(s) = n
       /\ \A k \in 1 .. n : s[k] \in R /\ s[k].who = m[k]

\* InOrder of the reports of a wave, which are at most two.
LEMMA SortedOne ==
  ASSUME NEW x
  PROVE  InOrder({x}) = <<x>>
<1> DEFINE fits(s) == \A k, l \in DOMAIN s : k < l => s[k].who < s[l].who
<1>1. Cardinality({x}) = 1 BY FS_Singleton
<1>2. \A s \in [1 .. 1 -> {x}] : s = <<x>> OBVIOUS
<1>3. <<x>> \in [1 .. 1 -> {x}] /\ fits(<<x>>) OBVIOUS
<1>4. InOrder({x}) = CHOOSE s \in [1 .. 1 -> {x}] : fits(s) BY <1>1 DEF InOrder
<1> HIDE DEF fits
<1> QED BY <1>2, <1>3, <1>4

LEMMA SortedTwo ==
  ASSUME NEW x, NEW y, x.who \in Int, y.who \in Int, x.who < y.who
  PROVE  InOrder({x, y}) = <<x, y>>
<1> DEFINE fits(s) == \A k, l \in DOMAIN s : k < l => s[k].who < s[l].who
<1>1. Cardinality({x, y}) = 2
  <2>1. x # y /\ {x, y} = {x} \cup {y} /\ y \notin {x} OBVIOUS
  <2> DEFINE one == {x}
  <2>2. IsFiniteSet(one) /\ Cardinality(one) = 1 BY FS_Singleton
  <2>3. y \notin one /\ {x, y} = one \cup {y} BY <2>1
  <2> HIDE DEF one
  <2>4. Cardinality(one \cup {y}) = Cardinality(one) + 1 BY <2>2, <2>3, FS_AddElement
  <2> QED BY <2>2, <2>3, <2>4
<1>2. ASSUME NEW s \in [1 .. 2 -> {x, y}], fits(s) PROVE s = <<x, y>>
  <2>1. s[1] \in {x, y} /\ s[2] \in {x, y} /\ s[1].who < s[2].who BY <1>2
  <2>2. s[1] = x /\ s[2] = y BY <2>1
  <2>3. \A k \in 1 .. 2 : s[k] = <<x, y>>[k] BY <2>2
  <2>4. s = [k \in 1 .. 2 |-> s[k]] /\ <<x, y>> = [k \in 1 .. 2 |-> <<x, y>>[k]] OBVIOUS
  <2> HIDE DEF fits
  <2> QED BY <2>3, <2>4, Z3
<1>3. <<x, y>> \in [1 .. 2 -> {x, y}] /\ fits(<<x, y>>) OBVIOUS
<1>4. InOrder({x, y}) = CHOOSE s \in [1 .. 2 -> {x, y}] : fits(s) BY <1>1 DEF InOrder
<1> HIDE DEF fits
<1> QED BY <1>2, <1>3, <1>4

LEMMA SortedNone == InOrder({}) = <<>>
<1>1. Cardinality({}) = 0 BY FS_EmptySet
<1>2. \A s \in [1 .. 0 -> {}] : s = <<>> OBVIOUS
<1>3. <<>> \in [1 .. 0 -> {}] /\ \A k, l \in DOMAIN <<>> : k < l => <<>>[k].who < <<>>[l].who
  OBVIOUS
<1> QED BY <1>1, <1>2, <1>3 DEF InOrder
LEMMA WorkersAre ==
  /\ Workers = 0 .. ShardCount /\ ControlShard = 0 /\ ShardCount \in Nat /\ ShardCount >= 1
  /\ 0 \in Workers /\ \A i \in 1 .. ShardCount : i \in Workers
BY ShardCountAssumption DEF Workers, ControlShard

\* The members of the wave that the run is at.
LEMMA CrewIs ==
  ASSUME RunShape, ReportShape, InControl \/ run.next <= ShardCount
  PROVE  /\ Len(Members) \in 1 .. 2 /\ Crew \subseteq Workers
         /\ Crew = {Members[k] : k \in 1 .. Len(Members)}
         /\ \A k \in 1 .. Len(Members) : Members[k] \in Workers
         /\ \A k, l \in 1 .. Len(Members) : Members[k] = Members[l] => k = l
         /\ InControl => Len(Members) = 1 /\ Members[1] = 0 /\ Crew = {0}
         /\ ~InControl =>
              /\ \A k \in 1 .. Len(Members) : Members[k] = run.next + k - 1
              /\ Crew \subseteq 1 .. ShardCount
              /\ Crew = run.next .. run.next + Len(Members) - 1
              /\ \/ Len(Members) = report.jobs
                 \/ Len(Members) < report.jobs /\ run.next + Len(Members) = ShardCount + 1
<1>1. run.next \in Nat \ {0} /\ report.jobs \in {1, 2}
  BY DEF RunShape, ReportShape, RunRecords, ReportRecords
<1>2. CASE InControl BY <1>2, WorkersAre DEF Members, Crew, Range, InControl
<1>3. CASE ~InControl
  <2> DEFINE n == Min({report.jobs, ShardCount + 1 - run.next})
  <2>1. /\ n \in {report.jobs, ShardCount + 1 - run.next}
        /\ n <= report.jobs /\ n <= ShardCount + 1 - run.next
    <3>1. \E m \in {report.jobs, ShardCount + 1 - run.next} :
            \A y \in {report.jobs, ShardCount + 1 - run.next} : m <= y
      BY <1>1, WorkersAre
    <3> QED BY <3>1 DEF Min
  <2>2. n \in 1 .. 2 BY <1>1, <1>3, <2>1, WorkersAre
  <2>3. Members = [k \in 1 .. n |-> run.next + k - 1] BY <1>3 DEF Members
  <2> HIDE DEF n
  <2>4. Len(Members) = n /\ \A k \in 1 .. n : Members[k] = run.next + k - 1 BY <2>2, <2>3
  <2>5. Crew = {Members[k] : k \in 1 .. n} BY <2>3 DEF Crew, Range
  <2>6. Crew = run.next .. run.next + n - 1
    <3>1. \A k \in 1 .. n : Members[k] \in run.next .. run.next + n - 1 BY <1>1, <2>2, <2>4
    <3>2. ASSUME NEW i \in run.next .. run.next + n - 1
          PROVE  \E k \in 1 .. n : Members[k] = i
      <4> DEFINE k == i - run.next + 1
      <4>1. k \in 1 .. n /\ run.next + k - 1 = i BY <1>1, <2>2
      <4> HIDE DEF k
      <4> QED BY <2>4, <4>1
    <3> QED BY <2>5, <3>1, <3>2
  <2>7. \/ n = report.jobs
        \/ n < report.jobs /\ run.next + n = ShardCount + 1
    BY <1>1, <2>1, WorkersAre
  <2>8. Crew \subseteq 1 .. ShardCount BY <1>1, <2>1, <2>2, <2>6, WorkersAre
  <2>9. \A k, l \in 1 .. n : Members[k] = Members[l] => k = l BY <1>1, <2>2, <2>4
  <2> QED BY <1>3, <2>2, <2>4, <2>5, <2>6, <2>7, <2>8, <2>9, WorkersAre
<1> QED BY <1>2, <1>3

\* What an answer says fits together.
LEMMA AnswerIs ==
  ASSUME NEW rep \in Answers
  PROVE  /\ rep.who \in Workers /\ rep.ok \in BOOLEAN /\ rep.quiescent \in BOOLEAN
         /\ rep.cleaned \in BOOLEAN /\ rep.permitted \in BOOLEAN
         /\ rep.continuationSafe \in BOOLEAN /\ rep.deadlineFailed \in BOOLEAN
         /\ rep.ok => rep.continuationSafe
         /\ rep.continuationSafe => rep.quiescent /\ rep.cleaned /\ rep.permitted
<1>1. PICK i \in Workers, failure \in Failures, retained \in BOOLEAN, late \in BOOLEAN,
           cancelled \in BOOLEAN :
        rep = WorkerReport(i, failure, retained, late, cancelled)
  BY DEF Answers, WorkerReports
<1> QED BY <1>1 DEF WorkerReport, Failures

LEMMA AnswersOf ==
  ASSUME NEW i \in Workers, NEW cancelled \in BOOLEAN, NEW rep \in WorkerReports(i, cancelled)
  PROVE  rep \in Answers /\ rep.who = i
<1>1. rep \in Answers BY DEF Answers
<1>2. PICK failure \in Failures, retained \in BOOLEAN, late \in BOOLEAN :
        rep = WorkerReport(i, failure, retained, late, cancelled)
  BY DEF WorkerReports
<1> QED BY <1>1, <1>2 DEF WorkerReport

LEMMA OneIssue ==
  ASSUME NEW kind \in Labels, NEW who \in Int
  PROVE  <<Evidence(kind, who)>> \in AnyIssues /\ Len(<<Evidence(kind, who)>>) = 1
<1> DEFINE issue == Evidence(kind, who)
<1>1. issue \in [kind : Labels, who : Int, cause : Labels] BY DEF Evidence, Labels
<1> HIDE DEF issue
<1>2. <<issue>> \in AnyIssues /\ Len(<<issue>>) = 1 BY <1>1 DEF AnyIssues
<1> QED BY <1>2 DEF issue

\* Issues are only added.
LEMMA IssuesGrow ==
  ASSUME NEW s \in AnyIssues, NEW t \in AnyIssues
  PROVE  /\ s \o t \in AnyIssues
         /\ s \o t = <<>> <=> s = <<>> /\ t = <<>>
         /\ Len(s \o t) = Len(s) + Len(t)
<1>1. s \o t \in AnyIssues /\ Len(s \o t) = Len(s) + Len(t) /\ Len(s) \in Nat /\ Len(t) \in Nat
  BY DEF AnyIssues
<1>2. /\ Len(s) = 0 <=> s = <<>>
      /\ Len(t) = 0 <=> t = <<>>
      /\ Len(s \o t) = 0 <=> s \o t = <<>>
  BY <1>1, EmptySeq DEF AnyIssues
<1> QED BY <1>1, <1>2

\* An issue of a kind is one; no issue is none.
LEMMA KindIs ==
  /\ <<>> \in AnyIssues /\ Len(<<>>) = 0
  /\ \A kind \in Labels :
       /\ Kind(kind) \in AnyIssues /\ Len(Kind(kind)) = 1 /\ Kind(kind) # <<>>
       /\ \A i \in Workers :
            Scoped(kind, i) \in AnyIssues /\ Len(Scoped(kind, i)) = 1 /\ Scoped(kind, i) # <<>>
<1>1. <<>> \in AnyIssues /\ Len(<<>>) = 0 BY DEF AnyIssues
<1>2. \A kind \in Labels :
        Kind(kind) \in AnyIssues /\ Len(Kind(kind)) = 1
  BY OneIssue DEF Kind, Nobody
<1>3. \A kind \in Labels : \A i \in Workers :
        Scoped(kind, i) \in AnyIssues /\ Len(Scoped(kind, i)) = 1
  BY OneIssue, WorkersAre DEF Scoped
<1>4. \A s \in AnyIssues : Len(s) = 1 => s # <<>> BY <1>1
<1> QED BY <1>1, <1>2, <1>3, <1>4

\* What is owed for a report is nothing when the next wave may come.
LEMMA OwedIs ==
  ASSUME NEW rep \in Answers
  PROVE  /\ Owed(rep) \in AnyIssues
         /\ Owed(rep) = <<>> => rep.continuationSafe
<1> DEFINE first == IF rep.deadlineFailed THEN Scoped("worker_deadline_exhausted", rep.who)
                    ELSE IF ~rep.continuationSafe
                    THEN Scoped("worker_infrastructure_failed", rep.who) ELSE <<>>
           second == IF rep.quiescent /\ rep.cleaned /\ rep.permitted THEN <<>>
                     ELSE Scoped(IF ~rep.cleaned THEN "worker_cleanup_debt"
                                 ELSE IF ~rep.permitted THEN "workspace_ownership_unproven"
                                 ELSE "process_boundary_unproven", rep.who)
<1>1. first \in AnyIssues /\ (~rep.continuationSafe => first # <<>>)
  BY KindIs, AnswerIs DEF Labels
<1>2. second \in AnyIssues BY KindIs, AnswerIs DEF Labels
<1>3. Owed(rep) = first \o second BY DEF Owed
<1> HIDE DEF first, second
<1> QED BY <1>1, <1>2, <1>3, IssuesGrow

LEMMA WorkersStay ==
  ASSUME FleetShape, WaveShape, UNCHANGED <<fleet, wave>>
  PROVE  SameWorkers /\ FleetShape' /\ WaveShape'
<1>1. \A i : /\ fleet'[i] = fleet[i]
             /\ (Resting(i)' <=> Resting(i)) /\ (Fresh(i)' <=> Fresh(i))
             /\ (Earned(i)' <=> Earned(i))
  BY DEF Resting, Fresh, Earned
<1>2. FleetShape' /\ WaveShape' BY DEF FleetShape, WaveShape
<1> QED BY <1>1, <1>2 DEF SameWorkers

LEMMA CrewStays ==
  ASSUME UNCHANGED wave, report'.jobs = report.jobs
  PROVE  SameCrew
<1> SUFFICES ASSUME run'.phase = run.phase, run'.next = run.next
             PROVE  /\ (InControl' <=> InControl) /\ Members' = Members /\ Crew' = Crew
                    /\ Launched' = Launched /\ Unlaunched' = Unlaunched
                    /\ Through' = Through
  BY DEF SameCrew
<1>1. (InControl' <=> InControl) /\ Members' = Members BY DEF InControl, Members
<1>2. Launched' = Launched /\ Unlaunched' = Unlaunched /\ Crew' = Crew
  BY <1>1 DEF Launched, Unlaunched, Crew
<1> QED BY <1>1, <1>2 DEF Through

USE DEF ShardRunInv, Openings, Waves, Pending, Counts, InControl, SameWorkers, SameCrew, RunRecords, WorldRecords

LEMMA DeadlinePassesKeeps ==
  ASSUME ShardRunInv, DeadlinePasses
  PROVE  ShardRunInv'
<1>a. /\ run.phase \in {"candidates", "control"} /\ run.next \in Nat /\ report.jobs \in {1, 2}
      /\ run.stage \notin {"done", "raised"}
      /\ world' \in WorldRecords
      /\ world'.expired = TRUE
      /\ UNCHANGED <<world.drifted, world.probe, world.batch, world.root>>
      /\ UNCHANGED <<run, fleet, wave, report>>
  BY DEF RunShape, ReportShape, WorldShape, ReportRecords, DeadlinePasses, Over
<1> USE <1>a
<1>b. SameWorkers /\ SameCrew /\ FleetShape' /\ WaveShape' BY WorkersStay, CrewStays
<1> USE <1>b
<1>1. RunShape' /\ ReportShape' /\ WorldShape' /\ PhaseKnown'
  BY DEF RunShape, ReportShape, ReportRecords, WorldShape, PhaseKnown
<1>2. FleetRests' /\ FreshKnown' /\ WaveKnown' /\ AnswersKnown'
  BY DEF FleetRests, FreshKnown, WaveKnown, AnswersKnown
<1>3. ShardsEarned' /\ EndKnown' BY DEF ShardsEarned, EndKnown
<1> QED BY <1>1, <1>2, <1>3

LEMMA SourceIsEditedKeeps ==
  ASSUME ShardRunInv, SourceIsEdited
  PROVE  ShardRunInv'
<1>a. /\ run.phase \in {"candidates", "control"} /\ run.next \in Nat /\ report.jobs \in {1, 2}
      /\ run.stage \notin {"unroot", "done", "raised"}
      /\ world' \in WorldRecords
      /\ world'.drifted = TRUE
      /\ UNCHANGED <<world.expired, world.probe, world.batch, world.root>>
      /\ UNCHANGED <<run, fleet, wave, report>>
  BY DEF RunShape, ReportShape, WorldShape, ReportRecords, SourceIsEdited, Over
<1> USE <1>a
<1>b. SameWorkers /\ SameCrew /\ FleetShape' /\ WaveShape' BY WorkersStay, CrewStays
<1> USE <1>b
<1>1. RunShape' /\ ReportShape' /\ WorldShape' /\ PhaseKnown'
  BY DEF RunShape, ReportShape, ReportRecords, WorldShape, PhaseKnown
<1>2. FleetRests' /\ FreshKnown' /\ WaveKnown' /\ AnswersKnown'
  BY DEF FleetRests, FreshKnown, WaveKnown, AnswersKnown
<1>3. ShardsEarned' /\ EndKnown' BY DEF ShardsEarned, EndKnown
<1> QED BY <1>1, <1>2, <1>3

LEMMA InterruptedKeeps ==
  ASSUME ShardRunInv, Interrupted
  PROVE  ShardRunInv'
<1>a. /\ run.phase \in {"candidates", "control"} /\ run.next \in Nat /\ report.jobs \in {1, 2}
      /\ run.stage \notin {"setup", "root", "unroot", "done", "raised"}
      /\ run' \in RunRecords
      /\ run'.interrupted = TRUE
      /\ UNCHANGED <<run.phase, run.next, run.stopping, run.error>>
      /\ \/ run.stage \in {"submit", "poll"} /\ run'.stage = "drain" /\ ~run'.permitted
         \/ /\ run.stage \notin {"submit", "poll"} /\ run'.stage = "unroot"
            /\ run'.permitted =>
                 /\ run.permitted /\ run.stage \notin {"materialize", "drain"}
                 /\ ~(run.stage = "source" /\ run.phase = "control")
      /\ UNCHANGED <<fleet, wave, report, world>>
  BY ZenonT(40) DEF RunShape, ReportShape, WorldShape, ReportRecords, Interrupted, Stages,
     InWave, InBatchBody
<1> USE <1>a
<1>b. SameWorkers /\ SameCrew /\ FleetShape' /\ WaveShape' BY WorkersStay, CrewStays
<1> USE <1>b
<1>1. RunShape' /\ ReportShape' /\ WorldShape' /\ PhaseKnown'
  BY DEF RunShape, ReportShape, ReportRecords, WorldShape, PhaseKnown
<1>2. FleetRests' /\ FreshKnown' /\ WaveKnown' /\ AnswersKnown'
  BY DEF FleetRests, RunShape, Stages, FreshKnown, WaveKnown, AnswersKnown
<1>3. ShardsEarned' /\ EndKnown' BY DEF ShardsEarned, EndKnown
<1> QED BY <1>1, <1>2, <1>3

LEMMA SetupFailsKeeps ==
  ASSUME ShardRunInv, SetupFails
  PROVE  ShardRunInv'
<1>a. /\ run.phase \in {"candidates", "control"} /\ run.next \in Nat /\ report.jobs \in {1, 2}
      /\ run.stage = "setup"
      /\ run' \in RunRecords
      /\ run'.stage = "done"
      /\ UNCHANGED <<run.phase, run.next, run.permitted, run.stopping, run.error,
                     run.interrupted>>
      /\ report' \in ReportRecords(report'.issues)
      /\ report'.ok = FALSE
      /\ report'.eligible = FALSE
      /\ report'.qualified = FALSE
      /\ UNCHANGED <<report.jobs, report.qualify, report.bound, report.rooted,
                     report.probed, report.shards, report.executed, report.aggregate,
                     report.control, report.equivalence>>
      /\ UNCHANGED <<fleet, wave, world>>
  BY ZenonT(40) DEF RunShape, ReportShape, WorldShape, ReportRecords, SetupFails, Goto,
     Failed, Publish, Stages, Statuses
<1> USE <1>a
<1>b. SameWorkers /\ SameCrew /\ FleetShape' /\ WaveShape' BY WorkersStay, CrewStays
<1> USE <1>b
<1>1. RunShape' /\ ReportShape' /\ WorldShape' /\ PhaseKnown'
  BY DEF RunShape, ReportShape, ReportRecords, WorldShape, PhaseKnown
<1>2. FleetRests' /\ FreshKnown' /\ WaveKnown' /\ AnswersKnown'
  BY DEF FleetRests, FreshKnown, WaveKnown, AnswersKnown
<1>3. ShardsEarned' /\ EndKnown' BY DEF ShardsEarned, EndKnown
<1> QED BY <1>1, <1>2, <1>3

LEMMA SetupBindsKeeps ==
  ASSUME ShardRunInv, SetupBinds
  PROVE  ShardRunInv'
<1>a. /\ run.phase \in {"candidates", "control"} /\ run.next \in Nat /\ report.jobs \in {1, 2}
      /\ run.stage = "setup"
      /\ run' \in RunRecords
      /\ run'.stage = "root"
      /\ UNCHANGED <<run.phase, run.next, run.permitted, run.stopping, run.error,
                     run.interrupted>>
      /\ report' \in ReportRecords(report'.issues)
      /\ report'.bound = TRUE
      /\ UNCHANGED <<report.jobs, report.qualify, report.rooted, report.probed,
                     report.shards, report.executed, report.aggregate, report.control,
                     report.equivalence, report.eligible, report.qualified,
                     report.status, report.ok, report.issues>>
      /\ UNCHANGED <<fleet, wave, world>>
  BY DEF RunShape, ReportShape, WorldShape, ReportRecords, SetupBinds, Goto, Stages
<1> USE <1>a
<1>b. SameWorkers /\ SameCrew /\ FleetShape' /\ WaveShape' BY WorkersStay, CrewStays
<1> USE <1>b
<1>1. RunShape' /\ ReportShape' /\ WorldShape' /\ PhaseKnown'
  BY DEF RunShape, ReportShape, ReportRecords, WorldShape, PhaseKnown
<1>2. FleetRests' /\ FreshKnown' /\ WaveKnown' /\ AnswersKnown'
  BY DEF FleetRests, FreshKnown, WaveKnown, AnswersKnown
<1>3. ShardsEarned' /\ EndKnown' BY DEF ShardsEarned, EndKnown
<1> QED BY <1>1, <1>2, <1>3

LEMMA RootFailsKeeps ==
  ASSUME ShardRunInv, RootFails
  PROVE  ShardRunInv'
<1>a. /\ run.phase \in {"candidates", "control"} /\ run.next \in Nat /\ report.jobs \in {1, 2}
      /\ run.stage = "root"
      /\ run' \in RunRecords
      /\ run'.stage = "done"
      /\ UNCHANGED <<run.phase, run.next, run.permitted, run.stopping, run.error,
                     run.interrupted>>
      /\ report' \in ReportRecords(report'.issues)
      /\ report'.ok = FALSE
      /\ report'.eligible = FALSE
      /\ report'.qualified = FALSE
      /\ UNCHANGED <<report.jobs, report.qualify, report.bound, report.rooted,
                     report.probed, report.shards, report.executed, report.aggregate,
                     report.control, report.equivalence>>
      /\ UNCHANGED <<fleet, wave, world>>
  BY ZenonT(40) DEF RunShape, ReportShape, WorldShape, ReportRecords, RootFails, Goto,
     Failed, Publish, Stages, Statuses
<1> USE <1>a
<1>b. SameWorkers /\ SameCrew /\ FleetShape' /\ WaveShape' BY WorkersStay, CrewStays
<1> USE <1>b
<1>1. RunShape' /\ ReportShape' /\ WorldShape' /\ PhaseKnown'
  BY DEF RunShape, ReportShape, ReportRecords, WorldShape, PhaseKnown
<1>2. FleetRests' /\ FreshKnown' /\ WaveKnown' /\ AnswersKnown'
  BY DEF FleetRests, FreshKnown, WaveKnown, AnswersKnown
<1>3. ShardsEarned' /\ EndKnown' BY DEF ShardsEarned, EndKnown
<1> QED BY <1>1, <1>2, <1>3

LEMMA RootCreatedKeeps ==
  ASSUME ShardRunInv, RootCreated
  PROVE  ShardRunInv'
<1>a. /\ run.phase \in {"candidates", "control"} /\ run.next \in Nat /\ report.jobs \in {1, 2}
      /\ run.stage = "root"
      /\ run' \in RunRecords
      /\ run'.stage = "probe"
      /\ UNCHANGED <<run.phase, run.next, run.permitted, run.stopping, run.error,
                     run.interrupted>>
      /\ report' \in ReportRecords(report'.issues)
      /\ report'.rooted = TRUE
      /\ UNCHANGED <<report.jobs, report.qualify, report.bound, report.probed,
                     report.shards, report.executed, report.aggregate, report.control,
                     report.equivalence, report.eligible, report.qualified,
                     report.status, report.ok, report.issues>>
      /\ world' \in WorldRecords
      /\ world'.root = "owned"
      /\ UNCHANGED <<world.expired, world.drifted, world.probe, world.batch>>
      /\ UNCHANGED <<fleet, wave>>
  BY DEF RunShape, ReportShape, WorldShape, ReportRecords, RootCreated, Goto, Stages,
     Directories
<1> USE <1>a
<1>b. SameWorkers /\ SameCrew /\ FleetShape' /\ WaveShape' BY WorkersStay, CrewStays
<1> USE <1>b
<1>1. RunShape' /\ ReportShape' /\ WorldShape' /\ PhaseKnown'
  BY DEF RunShape, ReportShape, ReportRecords, WorldShape, PhaseKnown
<1>2. FleetRests' /\ FreshKnown' /\ WaveKnown' /\ AnswersKnown'
  BY DEF FleetRests, FreshKnown, WaveKnown, AnswersKnown
<1>3. ShardsEarned' /\ EndKnown' BY DEF ShardsEarned, EndKnown
<1> QED BY <1>1, <1>2, <1>3

LEMMA ProbeStartsKeeps ==
  ASSUME ShardRunInv, ProbeStarts
  PROVE  ShardRunInv'
<1>a. /\ run.phase \in {"candidates", "control"} /\ run.next \in Nat /\ report.jobs \in {1, 2}
      /\ run.stage = "probe"
      /\ run' \in RunRecords
      /\ run'.stage = "probing"
      /\ run'.permitted = FALSE
      /\ UNCHANGED <<run.phase, run.next, run.stopping, run.error, run.interrupted>>
      /\ world' \in WorldRecords
      /\ world'.probe = "live"
      /\ UNCHANGED <<world.expired, world.drifted, world.batch, world.root>>
      /\ UNCHANGED <<fleet, wave, report>>
  BY DEF RunShape, ReportShape, WorldShape, ReportRecords, ProbeStarts, Revoke, Stages
<1> USE <1>a
<1>b. SameWorkers /\ SameCrew /\ FleetShape' /\ WaveShape' BY WorkersStay, CrewStays
<1> USE <1>b
<1>1. RunShape' /\ ReportShape' /\ WorldShape' /\ PhaseKnown'
  BY DEF RunShape, ReportShape, ReportRecords, WorldShape, PhaseKnown
<1>2. FleetRests' /\ FreshKnown' /\ WaveKnown' /\ AnswersKnown'
  BY DEF FleetRests, FreshKnown, WaveKnown, AnswersKnown
<1>3. ShardsEarned' /\ EndKnown' BY DEF ShardsEarned, EndKnown, PhaseKnown
<1> QED BY <1>1, <1>2, <1>3

LEMMA ProbeIsQuietKeeps ==
  ASSUME ShardRunInv, ProbeIsQuiet, run'.stage = "schedule"
  PROVE  ShardRunInv'
<1>k. /\ run.stage = "probing" /\ world' = [world EXCEPT !.probe = "quiet"]
      /\ run' = Permit("schedule") /\ report' = [report EXCEPT !.probed = TRUE]
      /\ UNCHANGED <<fleet, wave>>
  BY DEF ProbeIsQuiet, Permit, RunShape
<1>a. /\ run.phase \in {"candidates", "control"} /\ run.next \in Nat /\ report.jobs \in {1, 2}
      /\ run.stage = "probing"
      /\ run' \in RunRecords
      /\ run'.stage = "schedule"
      /\ run'.permitted = TRUE
      /\ UNCHANGED <<run.phase, run.next, run.stopping, run.error, run.interrupted>>
      /\ report' \in ReportRecords(report'.issues)
      /\ report'.probed = TRUE
      /\ UNCHANGED <<report.jobs, report.qualify, report.bound, report.rooted,
                     report.shards, report.executed, report.aggregate, report.control,
                     report.equivalence, report.eligible, report.qualified,
                     report.status, report.ok, report.issues>>
      /\ world' \in WorldRecords
      /\ world'.probe = "quiet"
      /\ UNCHANGED <<world.expired, world.drifted, world.batch, world.root>>
      /\ UNCHANGED <<fleet, wave>>
  BY <1>k DEF RunShape, ReportShape, WorldShape, ReportRecords, Permit, Stages, ShardErrors,
     SetupKinds
<1> USE <1>a
<1>b. SameWorkers /\ SameCrew /\ FleetShape' /\ WaveShape' BY WorkersStay, CrewStays
<1> USE <1>b
<1>1. RunShape' /\ ReportShape' /\ WorldShape' /\ PhaseKnown'
  BY DEF RunShape, ReportShape, ReportRecords, WorldShape, PhaseKnown
<1>2. FleetRests' /\ FreshKnown' /\ WaveKnown' /\ AnswersKnown'
  BY DEF FleetRests, FreshKnown, WaveKnown, AnswersKnown
<1>3. ShardsEarned' /\ EndKnown' BY DEF ShardsEarned, EndKnown
<1> QED BY <1>1, <1>2, <1>3

LEMMA ProbeProvesNothingKeeps ==
  ASSUME ShardRunInv, ProbeIsQuiet, run'.stage # "schedule"
  PROVE  ShardRunInv'
<1>a. /\ run.phase \in {"candidates", "control"} /\ run.next \in Nat /\ report.jobs \in {1, 2}
      /\ run.stage = "probing"
      /\ run' \in RunRecords
      /\ run'.stage = "unroot"
      /\ run'.permitted = TRUE
      /\ run'.error = "run_setup_failed"
      /\ UNCHANGED <<run.phase, run.next, run.stopping, run.interrupted>>
      /\ world' \in WorldRecords
      /\ world'.probe = "quiet"
      /\ UNCHANGED <<world.expired, world.drifted, world.batch, world.root>>
      /\ UNCHANGED <<fleet, wave, report>>
  BY DEF RunShape, ReportShape, WorldShape, ReportRecords, ProbeIsQuiet, Permit, Stages,
     ShardErrors, SetupKinds
<1> USE <1>a
<1>b. SameWorkers /\ SameCrew /\ FleetShape' /\ WaveShape' BY WorkersStay, CrewStays
<1> USE <1>b
<1>1. RunShape' /\ ReportShape' /\ WorldShape' /\ PhaseKnown'
  BY DEF RunShape, ReportShape, ReportRecords, WorldShape, PhaseKnown
<1>2. FleetRests' /\ FreshKnown' /\ WaveKnown' /\ AnswersKnown'
  BY DEF FleetRests, FreshKnown, WaveKnown, AnswersKnown
<1>3. ShardsEarned' /\ EndKnown' BY DEF ShardsEarned, EndKnown
<1> QED BY <1>1, <1>2, <1>3

\* What the steps do that move the run to another stage and touch nothing else.
Moves ==
  /\ run' \in RunRecords
  /\ UNCHANGED <<run.phase, run.next, run.stopping, run.interrupted, fleet, wave, report, world>>
  /\ \/ /\ UNCHANGED <<run.permitted, run.error>>
        /\ \/ run.stage = "schedule" /\ run.next > ShardCount /\ run'.stage = "settle"
           \/ /\ run.stage = "poll" /\ wave.done = {} /\ wave.pending = {}
              /\ run'.stage = "drain"
           \/ run.stage = "drain" /\ run.interrupted /\ run'.stage = "unroot"
           \/ run.stage = "proof" /\ ~run.permitted /\ run'.stage = "unroot"
     \/ /\ run.stage \in {"probe", "probing", "proving"} /\ run'.stage = "unroot"
        /\ UNCHANGED run.permitted /\ run'.error # "none"
     \/ /\ UNCHANGED run.error
        /\ \/ run.stage = "proof" /\ run.permitted /\ run'.stage = "proving" /\ ~run'.permitted
           \/ /\ run.stage = "proving" /\ ~world.drifted
              /\ run'.stage = "unroot" /\ run'.permitted
           \/ /\ run.stage = "source" /\ InControl
              /\ run'.stage = "unbatch" /\ run'.permitted

LEMMA MovesKeep ==
  ASSUME ShardRunInv, Moves
  PROVE  ShardRunInv'
<1>a. /\ run.phase \in {"candidates", "control"} /\ run.next \in Nat /\ report.jobs \in {1, 2}
      /\ Moves
  BY DEF RunShape, ReportShape, ReportRecords
<1>b. SameWorkers /\ SameCrew /\ FleetShape' /\ WaveShape'
  BY <1>a, WorkersStay, CrewStays DEF Moves
<1> USE <1>a, <1>b DEF Moves
<1>1. RunShape' /\ ReportShape' /\ WorldShape'
  BY DEF RunShape, ReportShape, ReportRecords, WorldShape
<1>2. PhaseKnown' BY DEF PhaseKnown
<1>3. FleetRests' BY DEF FleetRests, PhaseKnown
<1>4. FreshKnown' BY DEF FreshKnown
<1>5. WaveKnown' BY DEF WaveKnown
<1>6. AnswersKnown' BY DEF AnswersKnown
<1>7. ShardsEarned' BY DEF ShardsEarned
<1>8. EndKnown' BY DEF EndKnown, ShardsEarned, PhaseKnown
<1> QED BY <1>b, <1>1, <1>2, <1>3, <1>4, <1>5, <1>6, <1>7, <1>8

LEMMA StageMovesKeep ==
  ASSUME ShardRunInv,
         \/ ScheduleEnds \/ WaveEnds \/ WaveUnwinds \/ ProbeFails \/ ProofSkipped
         \/ ProofStarts \/ ProofPasses \/ ProofFails \/ (SourceMatches /\ InControl)
  PROVE  ShardRunInv'
<1> USE DEF RunShape, Stages, Moves
<1>1. CASE ScheduleEnds BY <1>1, MovesKeep DEF ScheduleEnds, Goto
<1>2. CASE WaveEnds BY <1>2, MovesKeep DEF WaveEnds, Goto
<1>3. CASE WaveUnwinds BY <1>3, MovesKeep DEF WaveUnwinds, Drained, Goto
<1>4. CASE ProbeFails BY <1>4, MovesKeep DEF ProbeFails, Goto, ShardErrors, SetupKinds
<1>5. CASE ProofSkipped BY <1>5, MovesKeep DEF ProofSkipped, Goto
<1>6. CASE ProofStarts BY <1>6, MovesKeep DEF ProofStarts, Revoke
<1>7. CASE ProofPasses BY <1>7, MovesKeep DEF ProofPasses, Permit
<1>8. CASE ProofFails
  BY ZenonT(40), <1>8, MovesKeep DEF ProofFails, Goto, ShardErrors, FinalKinds, SetupKinds
<1>9. CASE SourceMatches /\ InControl BY <1>9, MovesKeep DEF SourceMatches, Permit
<1> QED BY <1>1, <1>2, <1>3, <1>4, <1>5, <1>6, <1>7, <1>8, <1>9

LEMMA BatchNotAcquiredKeeps ==
  ASSUME ShardRunInv, BatchNotAcquired
  PROVE  ShardRunInv'
<1>k. PICK t \in AnyIssues : t # <<>> /\ report' = Publish(report, t)
  BY KindIs DEF BatchNotAcquired, Labels
<1>m. run.stage \in {"schedule", "control"} /\ run' = Forbid(AfterStop)
      /\ UNCHANGED <<fleet, wave, world>>
  BY DEF BatchNotAcquired
<1>g. report.issues \in AnyIssues =>
        report.issues \o t \in AnyIssues /\ report.issues \o t # <<>>
  BY <1>k, IssuesGrow
<1>a. /\ run.phase \in {"candidates", "control"} /\ run.next \in Nat /\ report.jobs \in {1, 2}
      /\ run.stage \in {"schedule", "control"}
      /\ run' \in RunRecords
      /\ run'.stage = IF run.phase = "control" THEN "judge" ELSE "settle"
      /\ run'.permitted = FALSE
      /\ run'.stopping = TRUE
      /\ UNCHANGED <<run.phase, run.next, run.error, run.interrupted>>
      /\ report' \in ReportRecords(report'.issues)
      /\ report'.issues = report.issues \o t
      /\ UNCHANGED <<report.jobs, report.qualify, report.bound, report.rooted,
                     report.probed, report.shards, report.executed, report.aggregate,
                     report.control, report.equivalence, report.eligible,
                     report.qualified, report.status, report.ok>>
      /\ report.issues \in AnyIssues =>
           report'.issues \in AnyIssues /\ report'.issues # <<>>
      /\ UNCHANGED <<fleet, wave, world>>
  BY <1>k, <1>m, <1>g, ZenonT(40) DEF RunShape, ReportShape, WorldShape, ReportRecords,
     Forbid, AfterStop, Publish, Stages
<1> USE <1>a
<1>b. SameWorkers /\ SameCrew /\ FleetShape' /\ WaveShape' BY WorkersStay, CrewStays
<1> USE <1>b
<1>1. RunShape' /\ ReportShape' /\ WorldShape' /\ PhaseKnown'
  BY DEF RunShape, ReportShape, ReportRecords, PhaseKnown, WorldShape
<1>2. FleetRests' /\ FreshKnown' /\ WaveKnown' /\ AnswersKnown'
  BY DEF FleetRests, FreshKnown, PhaseKnown, WaveKnown, AnswersKnown
<1>3. ShardsEarned' /\ EndKnown' BY DEF ShardsEarned, ReportShape, PhaseKnown, EndKnown
<1> QED BY <1>1, <1>2, <1>3

LEMMA BatchAcquiredKeeps ==
  ASSUME ShardRunInv, BatchAcquired
  PROVE  ShardRunInv'
<1>a. /\ run.phase \in {"candidates", "control"} /\ run.next \in Nat /\ report.jobs \in {1, 2}
      /\ \/ run.stage = "schedule" /\ run.next <= ShardCount
         \/ run.stage = "control"
      /\ run' \in RunRecords
      /\ run'.stage = "materialize"
      /\ run'.permitted = FALSE
      /\ UNCHANGED <<run.phase, run.next, run.stopping, run.error, run.interrupted>>
      /\ world' \in WorldRecords
      /\ world'.batch = "owned"
      /\ UNCHANGED <<world.expired, world.drifted, world.probe, world.root>>
      /\ UNCHANGED <<fleet, wave, report>>
  BY DEF RunShape, ReportShape, WorldShape, ReportRecords, BatchAcquired, Revoke, Stages,
     Directories
<1> USE <1>a
<1>b. SameWorkers /\ SameCrew /\ FleetShape' /\ WaveShape' BY WorkersStay, CrewStays
<1> USE <1>b
<1>1. RunShape' /\ ReportShape' /\ WorldShape' /\ PhaseKnown'
  BY DEF RunShape, ReportShape, ReportRecords, PhaseKnown, WorldShape
<1>2. FleetRests' /\ FreshKnown' /\ WaveKnown' /\ AnswersKnown'
  BY DEF FleetRests, FreshKnown, PhaseKnown, WaveKnown, AnswersKnown
<1>3. ShardsEarned' /\ EndKnown' BY DEF ShardsEarned, ReportShape, PhaseKnown, EndKnown
<1> QED BY <1>1, <1>2, <1>3

\* What a failing body and a cleanup error publish.
LEMMA CleanupIssues ==
  ASSUME CleanupError
  PROVE  \E t \in AnyIssues : t # <<>> /\ report' = [Publish(report, t) EXCEPT !.control = <<>>]
<1>1. PICK kind \in Labels : report' = [Publish(report, Kind(kind)) EXCEPT !.control = <<>>]
  BY DEF CleanupError, Labels
<1>2. Kind(kind) \in AnyIssues /\ Kind(kind) # <<>> BY KindIs
<1> QED BY ZenonT(30), <1>1, <1>2

LEMMA BodyIssues ==
  ASSUME NEW kind \in Labels, BodyFails(kind)
  PROVE  \E t \in AnyIssues : t # <<>> /\ report' = [Publish(report, t) EXCEPT !.control = <<>>]
<1>1. PICK second \in Labels :
        report' = [Publish(report, Kind(kind) \o Kind(second)) EXCEPT !.control = <<>>]
  BY DEF BodyFails, Labels
<1>2. /\ Kind(kind) \in AnyIssues /\ Kind(kind) # <<>>
      /\ Kind(second) \in AnyIssues BY KindIs
<1>3. Kind(kind) \o Kind(second) \in AnyIssues /\ Kind(kind) \o Kind(second) # <<>>
  BY <1>2, IssuesGrow
<1> QED BY ZenonT(30), <1>1, <1>3

LEMMA MaterializationFailsKeeps ==
  ASSUME ShardRunInv, MaterializationFails
  PROVE  ShardRunInv'
<1>w. PICK kind \in Labels : BodyFails(kind) BY DEF MaterializationFails, Labels
<1>k. PICK t \in AnyIssues :
        t # <<>> /\ report' = [Publish(report, t) EXCEPT !.control = <<>>]
  BY <1>w, BodyIssues
<1>m. run.stage = "materialize" /\ run' = Forbid(AfterStop)
      /\ UNCHANGED <<fleet, wave>>
      /\ world' = [world EXCEPT !.batch = "retained"]
  BY DEF MaterializationFails, BodyFails
<1>g. report.issues \in AnyIssues =>
        report.issues \o t \in AnyIssues /\ report.issues \o t # <<>>
  BY <1>k, IssuesGrow
<1>h. /\ report' \in ReportRecords(report'.issues) /\ report'.control = <<>>
      /\ report'.issues = report.issues \o t
      /\ UNCHANGED <<report.jobs, report.qualify, report.bound, report.rooted, report.probed,
                     report.shards, report.executed, report.aggregate, report.equivalence,
                     report.eligible, report.qualified, report.status, report.ok>>
  <2>1. <<>> \in Seq(Answers) OBVIOUS
  <2> QED BY <1>k, <2>1 DEF Publish, ReportShape, ReportRecords
<1>i. /\ run' \in RunRecords /\ ~run'.permitted /\ run'.stopping
      /\ run'.stage = (IF run.phase = "control" THEN "judge" ELSE "settle")
      /\ UNCHANGED <<run.phase, run.next, run.error, run.interrupted>>
  BY <1>m DEF Forbid, AfterStop, RunShape, Stages
<1>j. /\ world' \in WorldRecords /\ world'.batch = "retained"
      /\ UNCHANGED <<world.expired, world.drifted, world.probe, world.root>>
  BY <1>m DEF WorldShape, Directories
<1>a. /\ run.phase \in {"candidates", "control"} /\ run.next \in Nat /\ report.jobs \in {1, 2}
      /\ run.stage = "materialize"
      /\ run' \in RunRecords
      /\ run'.stage = IF run.phase = "control" THEN "judge" ELSE "settle"
      /\ run'.permitted = FALSE
      /\ run'.stopping = TRUE
      /\ UNCHANGED <<run.phase, run.next, run.error, run.interrupted>>
      /\ report' \in ReportRecords(report'.issues)
      /\ report'.issues = report.issues \o t
      /\ report'.control = <<>>
      /\ UNCHANGED <<report.jobs, report.qualify, report.bound, report.rooted,
                     report.probed, report.shards, report.executed, report.aggregate,
                     report.equivalence, report.eligible, report.qualified,
                     report.status, report.ok>>
      /\ world' \in WorldRecords
      /\ world'.batch = "retained"
      /\ UNCHANGED <<world.expired, world.drifted, world.probe, world.root>>
      /\ report.issues \in AnyIssues =>
           report'.issues \in AnyIssues /\ report'.issues # <<>>
      /\ UNCHANGED <<fleet, wave>>
  BY <1>h, <1>i, <1>j, <1>m, <1>g DEF RunShape, ReportShape, WorldShape, ReportRecords,
     Forbid, AfterStop, Publish, Stages, Directories
<1> USE <1>a
<1>b. SameWorkers /\ SameCrew /\ FleetShape' /\ WaveShape' BY WorkersStay, CrewStays
<1> USE <1>b
<1>1. RunShape' /\ ReportShape' /\ WorldShape' /\ PhaseKnown'
  BY DEF RunShape, ReportShape, ReportRecords, PhaseKnown, WorldShape
<1>2. FleetRests' /\ FreshKnown' /\ WaveKnown' /\ AnswersKnown'
  BY DEF FleetRests, FreshKnown, PhaseKnown, WaveKnown, AnswersKnown
<1>3. ShardsEarned' /\ EndKnown' BY DEF ShardsEarned, ReportShape, PhaseKnown, EndKnown
<1> QED BY <1>1, <1>2, <1>3

LEMMA BatchRetainedKeeps ==
  ASSUME ShardRunInv, BatchRetained
  PROVE  ShardRunInv'
<1>k. PICK t \in AnyIssues :
        t # <<>> /\ report' = [Publish(report, t) EXCEPT !.control = <<>>]
  BY CleanupIssues DEF BatchRetained
<1>m. run.stage = "unbatch" /\ run' = Forbid(AfterStop)
      /\ UNCHANGED <<fleet, wave>>
      /\ world' = [world EXCEPT !.batch = "retained"]
  BY DEF BatchRetained, CleanupError
<1>g. report.issues \in AnyIssues =>
        report.issues \o t \in AnyIssues /\ report.issues \o t # <<>>
  BY <1>k, IssuesGrow
<1>h. /\ report' \in ReportRecords(report'.issues) /\ report'.control = <<>>
      /\ report'.issues = report.issues \o t
      /\ UNCHANGED <<report.jobs, report.qualify, report.bound, report.rooted, report.probed,
                     report.shards, report.executed, report.aggregate, report.equivalence,
                     report.eligible, report.qualified, report.status, report.ok>>
  <2>1. <<>> \in Seq(Answers) OBVIOUS
  <2> QED BY <1>k, <2>1 DEF Publish, ReportShape, ReportRecords
<1>i. /\ run' \in RunRecords /\ ~run'.permitted /\ run'.stopping
      /\ run'.stage = (IF run.phase = "control" THEN "judge" ELSE "settle")
      /\ UNCHANGED <<run.phase, run.next, run.error, run.interrupted>>
  BY <1>m DEF Forbid, AfterStop, RunShape, Stages
<1>j. /\ world' \in WorldRecords /\ world'.batch = "retained"
      /\ UNCHANGED <<world.expired, world.drifted, world.probe, world.root>>
  BY <1>m DEF WorldShape, Directories
<1>a. /\ run.phase \in {"candidates", "control"} /\ run.next \in Nat /\ report.jobs \in {1, 2}
      /\ run.stage = "unbatch"
      /\ run' \in RunRecords
      /\ run'.stage = IF run.phase = "control" THEN "judge" ELSE "settle"
      /\ run'.permitted = FALSE
      /\ run'.stopping = TRUE
      /\ UNCHANGED <<run.phase, run.next, run.error, run.interrupted>>
      /\ report' \in ReportRecords(report'.issues)
      /\ report'.issues = report.issues \o t
      /\ report'.control = <<>>
      /\ UNCHANGED <<report.jobs, report.qualify, report.bound, report.rooted,
                     report.probed, report.shards, report.executed, report.aggregate,
                     report.equivalence, report.eligible, report.qualified,
                     report.status, report.ok>>
      /\ world' \in WorldRecords
      /\ world'.batch = "retained"
      /\ UNCHANGED <<world.expired, world.drifted, world.probe, world.root>>
      /\ report.issues \in AnyIssues =>
           report'.issues \in AnyIssues /\ report'.issues # <<>>
      /\ UNCHANGED <<fleet, wave>>
  BY <1>h, <1>i, <1>j, <1>m, <1>g DEF RunShape, ReportShape, WorldShape, ReportRecords,
     Forbid, AfterStop, Publish, Stages, Directories
<1> USE <1>a
<1>b. SameWorkers /\ SameCrew /\ FleetShape' /\ WaveShape' BY WorkersStay, CrewStays
<1> USE <1>b
<1>1. RunShape' /\ ReportShape' /\ WorldShape' /\ PhaseKnown'
  BY DEF RunShape, ReportShape, ReportRecords, PhaseKnown, WorldShape
<1>2. FleetRests' /\ FreshKnown' /\ WaveKnown' /\ AnswersKnown'
  BY DEF FleetRests, FreshKnown, PhaseKnown, WaveKnown, AnswersKnown
<1>3. ShardsEarned' /\ EndKnown' BY DEF ShardsEarned, ReportShape, PhaseKnown, EndKnown
<1> QED BY <1>1, <1>2, <1>3

LEMMA RemovalFailsKeeps ==
  ASSUME ShardRunInv, RemovalFails
  PROVE  ShardRunInv'
<1>k. PICK t \in AnyIssues :
        t # <<>> /\ report' = [Publish(report, t) EXCEPT !.control = <<>>]
  BY CleanupIssues DEF RemovalFails
<1>m. run.stage = "removing" /\ run' = Forbid(AfterStop)
      /\ UNCHANGED <<fleet, wave>>
      /\ world' = [world EXCEPT !.batch = "retained"]
  BY DEF RemovalFails, CleanupError
<1>g. report.issues \in AnyIssues =>
        report.issues \o t \in AnyIssues /\ report.issues \o t # <<>>
  BY <1>k, IssuesGrow
<1>h. /\ report' \in ReportRecords(report'.issues) /\ report'.control = <<>>
      /\ report'.issues = report.issues \o t
      /\ UNCHANGED <<report.jobs, report.qualify, report.bound, report.rooted, report.probed,
                     report.shards, report.executed, report.aggregate, report.equivalence,
                     report.eligible, report.qualified, report.status, report.ok>>
  <2>1. <<>> \in Seq(Answers) OBVIOUS
  <2> QED BY <1>k, <2>1 DEF Publish, ReportShape, ReportRecords
<1>i. /\ run' \in RunRecords /\ ~run'.permitted /\ run'.stopping
      /\ run'.stage = (IF run.phase = "control" THEN "judge" ELSE "settle")
      /\ UNCHANGED <<run.phase, run.next, run.error, run.interrupted>>
  BY <1>m DEF Forbid, AfterStop, RunShape, Stages
<1>j. /\ world' \in WorldRecords /\ world'.batch = "retained"
      /\ UNCHANGED <<world.expired, world.drifted, world.probe, world.root>>
  BY <1>m DEF WorldShape, Directories
<1>a. /\ run.phase \in {"candidates", "control"} /\ run.next \in Nat /\ report.jobs \in {1, 2}
      /\ run.stage = "removing"
      /\ run' \in RunRecords
      /\ run'.stage = IF run.phase = "control" THEN "judge" ELSE "settle"
      /\ run'.permitted = FALSE
      /\ run'.stopping = TRUE
      /\ UNCHANGED <<run.phase, run.next, run.error, run.interrupted>>
      /\ report' \in ReportRecords(report'.issues)
      /\ report'.issues = report.issues \o t
      /\ report'.control = <<>>
      /\ UNCHANGED <<report.jobs, report.qualify, report.bound, report.rooted,
                     report.probed, report.shards, report.executed, report.aggregate,
                     report.equivalence, report.eligible, report.qualified,
                     report.status, report.ok>>
      /\ world' \in WorldRecords
      /\ world'.batch = "retained"
      /\ UNCHANGED <<world.expired, world.drifted, world.probe, world.root>>
      /\ report.issues \in AnyIssues =>
           report'.issues \in AnyIssues /\ report'.issues # <<>>
      /\ UNCHANGED <<fleet, wave>>
  BY <1>h, <1>i, <1>j, <1>m, <1>g DEF RunShape, ReportShape, WorldShape, ReportRecords,
     Forbid, AfterStop, Publish, Stages, Directories
<1> USE <1>a
<1>b. SameWorkers /\ SameCrew /\ FleetShape' /\ WaveShape' BY WorkersStay, CrewStays
<1> USE <1>b
<1>1. RunShape' /\ ReportShape' /\ WorldShape' /\ PhaseKnown'
  BY DEF RunShape, ReportShape, ReportRecords, PhaseKnown, WorldShape
<1>2. FleetRests' /\ FreshKnown' /\ WaveKnown' /\ AnswersKnown'
  BY DEF FleetRests, FreshKnown, PhaseKnown, WaveKnown, AnswersKnown
<1>3. ShardsEarned' /\ EndKnown' BY DEF ShardsEarned, ReportShape, PhaseKnown, EndKnown
<1> QED BY <1>1, <1>2, <1>3

LEMMA BatchRemovedKeeps ==
  ASSUME ShardRunInv, BatchRemoved
  PROVE  ShardRunInv'
<1>a. /\ run.phase \in {"candidates", "control"} /\ run.next \in Nat /\ report.jobs \in {1, 2}
      /\ run.stage = "removing"
      /\ run' \in RunRecords
      /\ run'.stage = IF run.phase = "control" THEN "judge"
                      ELSE IF run.stopping THEN "settle" ELSE "source"
      /\ run'.permitted = (run.phase = "control" \/ run.stopping)
      /\ UNCHANGED <<run.phase, run.next, run.stopping, run.error, run.interrupted>>
      /\ world' \in WorldRecords
      /\ world'.batch = "removed"
      /\ UNCHANGED <<world.expired, world.drifted, world.probe, world.root>>
      /\ UNCHANGED <<fleet, wave, report>>
  BY DEF RunShape, ReportShape, WorldShape, ReportRecords, BatchRemoved, Permit, Revoke,
     AfterStop, Stages, Directories
<1> USE <1>a
<1>b. SameWorkers /\ SameCrew /\ FleetShape' /\ WaveShape' BY WorkersStay, CrewStays
<1> USE <1>b
<1>1. RunShape' /\ ReportShape' /\ WorldShape' /\ PhaseKnown'
  BY DEF RunShape, ReportShape, ReportRecords, WorldShape, PhaseKnown
<1>2. FleetRests' /\ FreshKnown' /\ WaveKnown' /\ AnswersKnown'
  BY DEF FleetRests, FreshKnown, WaveKnown, AnswersKnown
<1>3. ShardsEarned' /\ EndKnown' BY DEF ShardsEarned, EndKnown
<1> QED BY <1>1, <1>2, <1>3

LEMMA CandidatesSourceMatchesKeeps ==
  ASSUME ShardRunInv, SourceMatches, ~InControl
  PROVE  ShardRunInv'
<1>k. run.next + report.jobs \in Nat \ {0} BY DEF RunShape, ReportShape, ReportRecords
<1>a. /\ run.phase \in {"candidates", "control"} /\ run.next \in Nat /\ report.jobs \in {1, 2}
      /\ run.stage = "source" /\ run.phase = "candidates"
      /\ run' \in RunRecords
      /\ run'.stage = "schedule"
      /\ run'.permitted = TRUE
      /\ run'.next = run.next + report.jobs
      /\ UNCHANGED <<run.phase, run.stopping, run.error, run.interrupted>>
      /\ UNCHANGED <<fleet, wave, report, world>>
  BY <1>k DEF RunShape, ReportShape, WorldShape, ReportRecords, SourceMatches, Permit,
     Stages
<1> USE <1>a
<1>b. SameWorkers /\ SameCrew /\ FleetShape' /\ WaveShape' BY WorkersStay, CrewStays
<1> USE <1>b
<1>1. RunShape' /\ ReportShape' /\ WorldShape' /\ PhaseKnown'
  BY DEF RunShape, ReportShape, ReportRecords, WorldShape, PhaseKnown
<1>2. FleetRests' /\ FreshKnown' /\ WaveKnown' /\ AnswersKnown'
  BY DEF FleetRests, FreshKnown, WaveKnown, AnswersKnown
<1>3. ShardsEarned' /\ EndKnown' BY DEF ShardsEarned, EndKnown
<1> QED BY <1>1, <1>2, <1>3

LEMMA ControlSourceFailsKeeps ==
  ASSUME ShardRunInv, SourceFails, InControl
  PROVE  ShardRunInv'
<1>w. PICK kind \in Labels : BodyFails(kind) BY DEF SourceFails, Labels
<1>k. PICK t \in AnyIssues :
        t # <<>> /\ report' = [Publish(report, t) EXCEPT !.control = <<>>]
  BY <1>w, BodyIssues
<1>m. run.stage = "source" /\ run' = Forbid(AfterStop)
      /\ UNCHANGED <<fleet, wave>>
      /\ world' = [world EXCEPT !.batch = "retained"]
  BY DEF SourceFails, BodyFails
<1>g. report.issues \in AnyIssues =>
        report.issues \o t \in AnyIssues /\ report.issues \o t # <<>>
  BY <1>k, IssuesGrow
<1>h. /\ report' \in ReportRecords(report'.issues) /\ report'.control = <<>>
      /\ report'.issues = report.issues \o t
      /\ UNCHANGED <<report.jobs, report.qualify, report.bound, report.rooted, report.probed,
                     report.shards, report.executed, report.aggregate, report.equivalence,
                     report.eligible, report.qualified, report.status, report.ok>>
  <2>1. <<>> \in Seq(Answers) OBVIOUS
  <2> QED BY <1>k, <2>1 DEF Publish, ReportShape, ReportRecords
<1>i. /\ run' \in RunRecords /\ ~run'.permitted /\ run'.stopping
      /\ run'.stage = (IF run.phase = "control" THEN "judge" ELSE "settle")
      /\ UNCHANGED <<run.phase, run.next, run.error, run.interrupted>>
  BY <1>m DEF Forbid, AfterStop, RunShape, Stages
<1>j. /\ world' \in WorldRecords /\ world'.batch = "retained"
      /\ UNCHANGED <<world.expired, world.drifted, world.probe, world.root>>
  BY <1>m DEF WorldShape, Directories
<1>a. /\ run.phase \in {"candidates", "control"} /\ run.next \in Nat /\ report.jobs \in {1, 2}
      /\ run.stage = "source" /\ run.phase = "control"
      /\ run' \in RunRecords
      /\ run'.stage = "judge"
      /\ run'.permitted = FALSE
      /\ run'.stopping = TRUE
      /\ UNCHANGED <<run.phase, run.next, run.error, run.interrupted>>
      /\ report' \in ReportRecords(report'.issues)
      /\ report'.issues = report.issues \o t
      /\ report'.control = <<>>
      /\ UNCHANGED <<report.jobs, report.qualify, report.bound, report.rooted,
                     report.probed, report.shards, report.executed, report.aggregate,
                     report.equivalence, report.eligible, report.qualified,
                     report.status, report.ok>>
      /\ world' \in WorldRecords
      /\ world'.batch = "retained"
      /\ UNCHANGED <<world.expired, world.drifted, world.probe, world.root>>
      /\ report.issues \in AnyIssues =>
           report'.issues \in AnyIssues /\ report'.issues # <<>>
      /\ UNCHANGED <<fleet, wave>>
  BY <1>h, <1>i, <1>j, <1>m, <1>g DEF RunShape, ReportShape, WorldShape, ReportRecords,
     Forbid, AfterStop, Publish, Stages, Directories
<1> USE <1>a
<1>b. SameWorkers /\ SameCrew /\ FleetShape' /\ WaveShape' BY WorkersStay, CrewStays
<1> USE <1>b
<1>1. RunShape' /\ ReportShape' /\ WorldShape' /\ PhaseKnown'
  BY DEF RunShape, ReportShape, ReportRecords, PhaseKnown, WorldShape
<1>2. FleetRests' /\ FreshKnown' /\ WaveKnown' /\ AnswersKnown'
  BY DEF FleetRests, FreshKnown, PhaseKnown, WaveKnown, AnswersKnown
<1>3. ShardsEarned' /\ EndKnown' BY DEF ShardsEarned, ReportShape, PhaseKnown, EndKnown
<1> QED BY <1>1, <1>2, <1>3

LEMMA CandidatesSourceFailsKeeps ==
  ASSUME ShardRunInv, SourceFails, ~InControl
  PROVE  ShardRunInv'
<1>k. PICK t \in AnyIssues : t # <<>> /\ report' = Publish(report, t)
  BY KindIs DEF SourceFails, Labels
<1>m. run.stage = "source" /\ run' = Forbid("settle")
      /\ UNCHANGED <<fleet, wave, world>>
  BY DEF SourceFails
<1>g. report.issues \in AnyIssues =>
        report.issues \o t \in AnyIssues /\ report.issues \o t # <<>>
  BY <1>k, IssuesGrow
<1>a. /\ run.phase \in {"candidates", "control"} /\ run.next \in Nat /\ report.jobs \in {1, 2}
      /\ run.stage = "source" /\ run.phase = "candidates"
      /\ run' \in RunRecords
      /\ run'.stage = "settle"
      /\ run'.permitted = FALSE
      /\ run'.stopping = TRUE
      /\ UNCHANGED <<run.phase, run.next, run.error, run.interrupted>>
      /\ report' \in ReportRecords(report'.issues)
      /\ report'.issues = report.issues \o t
      /\ UNCHANGED <<report.jobs, report.qualify, report.bound, report.rooted,
                     report.probed, report.shards, report.executed, report.aggregate,
                     report.control, report.equivalence, report.eligible,
                     report.qualified, report.status, report.ok>>
      /\ report.issues \in AnyIssues =>
           report'.issues \in AnyIssues /\ report'.issues # <<>>
      /\ UNCHANGED <<fleet, wave, world>>
  BY <1>k, <1>m, <1>g DEF RunShape, ReportShape, WorldShape, ReportRecords, Forbid, Publish,
     Stages
<1> USE <1>a
<1>b. SameWorkers /\ SameCrew /\ FleetShape' /\ WaveShape' BY WorkersStay, CrewStays
<1> USE <1>b
<1>1. RunShape' /\ ReportShape' /\ WorldShape' /\ PhaseKnown'
  BY DEF RunShape, ReportShape, ReportRecords, PhaseKnown, WorldShape
<1>2. FleetRests' /\ FreshKnown' /\ WaveKnown' /\ AnswersKnown'
  BY DEF FleetRests, FreshKnown, PhaseKnown, WaveKnown, AnswersKnown
<1>3. ShardsEarned' /\ EndKnown' BY DEF ShardsEarned, ReportShape, PhaseKnown, EndKnown
<1> QED BY <1>1, <1>2, <1>3

LEMMA SettledKeeps ==
  ASSUME ShardRunInv, Settled
  PROVE  ShardRunInv'
<1> DEFINE all == /\ Len(report.shards) = ShardCount
                  /\ \A k \in 1 .. ShardCount : report.shards[k].ok
           eligible == /\ all /\ ~HasKind(report, RevocationKinds)
                       /\ ~(report.qualify /\ run.stopping)
           aggregate == IF all THEN "eligible" ELSE "ineligible"
           result == IF report.qualify /\ run.stopping THEN "infrastructure_failed"
                     ELSE report.status
<1>i. \A issues : [report EXCEPT !.issues = issues].status = report.status
  BY DEF ReportShape, ReportRecords
<1>p. PICK t :
        /\ all => t = <<>>
        /\ report' = [Publish(report, t) EXCEPT
             !.aggregate = IF all THEN "eligible" ELSE "ineligible", !.eligible = eligible,
             !.status = IF report.qualify /\ run.stopping THEN "infrastructure_failed" ELSE @]
  BY DEF Settled
<1>j. /\ all => t = <<>>
      /\ report' = [report EXCEPT !.issues = report.issues \o t, !.aggregate = aggregate,
                      !.eligible = eligible, !.status = result]
  <2>1. Publish(report, t).status = report.status BY <1>i DEF Publish
  <2> QED BY <1>p, <2>1 DEF Publish
<1>m. /\ run.stage = "settle" /\ UNCHANGED <<fleet, wave, world>>
      /\ run' = IF report.qualify /\ ~run.stopping
                THEN [Goto("control") EXCEPT !.phase = "control"] ELSE Goto("proof")
  BY DEF Settled
<1>n. /\ eligible \in BOOLEAN /\ (eligible => all)
      /\ aggregate \in {"eligible", "ineligible"} /\ result \in Statuses \cup {"pending"}
  BY DEF ReportShape, ReportRecords, Statuses
<1>o. all => /\ Len(report.shards) = ShardCount
             /\ \A k \in 1 .. ShardCount : report.shards[k].ok
  OBVIOUS
<1> HIDE DEF all, eligible, aggregate, result
<1>k. /\ report' \in ReportRecords(report'.issues) /\ report'.eligible = eligible
      /\ report'.issues = report.issues \o t
      /\ UNCHANGED <<report.jobs, report.qualify, report.bound, report.rooted, report.probed,
                     report.shards, report.executed, report.control, report.equivalence,
                     report.qualified, report.ok>>
  <2>1. report.issues \o t = report'.issues BY <1>j DEF ReportShape, ReportRecords
  <2> QED BY <1>j, <1>n, <2>1 DEF ReportShape, ReportRecords
<1>l. all /\ report.issues \in AnyIssues => report'.issues = report.issues
  BY <1>j, <1>k DEF AnyIssues
<1>a. /\ run.phase \in {"candidates", "control"} /\ run.next \in Nat /\ report.jobs \in {1, 2}
      /\ run.stage = "settle"
      /\ run' \in RunRecords
      /\ run'.stage = IF report.qualify /\ ~run.stopping THEN "control" ELSE "proof"
      /\ run'.phase = IF report.qualify /\ ~run.stopping THEN "control" ELSE run.phase
      /\ UNCHANGED <<run.next, run.permitted, run.stopping, run.error, run.interrupted>>
      /\ report' \in ReportRecords(report'.issues)
      /\ report'.eligible = eligible
      /\ UNCHANGED <<report.jobs, report.qualify, report.bound, report.rooted,
                     report.probed, report.shards, report.executed, report.control,
                     report.equivalence, report.qualified, report.ok>>
      /\ report'.eligible /\ report.issues \in AnyIssues =>
           report'.issues = report.issues
      /\ UNCHANGED <<fleet, wave, world>>
  BY <1>k, <1>l, <1>m, <1>n DEF RunShape, ReportShape, WorldShape, ReportRecords, Goto,
     Stages, Statuses
<1> USE <1>a
<1>b. SameWorkers /\ SameCrew /\ FleetShape' /\ WaveShape' BY WorkersStay, CrewStays
<1> USE <1>b
<1>1. RunShape' /\ ReportShape' /\ WorldShape' /\ PhaseKnown'
  BY DEF RunShape, ReportShape, ReportRecords, PhaseKnown, WorldShape
<1>2. FleetRests' /\ FreshKnown' /\ WaveKnown' /\ AnswersKnown'
  BY DEF FleetRests, FreshKnown, PhaseKnown, WaveKnown, AnswersKnown
<1>3. ShardsEarned' BY <1>k, <1>l, <1>n, <1>o DEF ShardsEarned, ReportShape, PhaseKnown
<1>4. EndKnown' BY DEF EndKnown
<1> QED BY <1>1, <1>2, <1>3, <1>4

LEMMA ControlJudgedKeeps ==
  ASSUME ShardRunInv, ControlJudged
  PROVE  ShardRunInv'
<1>k. PICK t \in AnyIssues, result \in Statuses :
        report' = [Publish(report, t) EXCEPT !.status = result]
  <2>1. /\ Kind("control_report_missing") \in AnyIssues /\ <<>> \in AnyIssues
        /\ Scoped("worker_evidence", ControlShard) \in AnyIssues
    BY KindIs, WorkersAre DEF Labels
  <2> QED BY <2>1, IssuesGrow DEF ControlJudged, WithControl, Statuses
<1>m. run.stage = "judge" /\ run' = Goto("proof") /\ UNCHANGED <<fleet, wave, world>>
  BY DEF ControlJudged
<1>g. report.issues \in AnyIssues =>
        /\ report.issues \o t \in AnyIssues
        /\ report.issues \o t = <<>> => report.issues = <<>>
  BY <1>k, IssuesGrow
<1>a. /\ run.phase \in {"candidates", "control"} /\ run.next \in Nat /\ report.jobs \in {1, 2}
      /\ run.stage = "judge"
      /\ run' \in RunRecords
      /\ run'.stage = "proof"
      /\ UNCHANGED <<run.phase, run.next, run.permitted, run.stopping, run.error,
                     run.interrupted>>
      /\ report' \in ReportRecords(report'.issues)
      /\ report'.issues = report.issues \o t
      /\ UNCHANGED <<report.jobs, report.qualify, report.bound, report.rooted,
                     report.probed, report.shards, report.executed, report.aggregate,
                     report.control, report.equivalence, report.eligible,
                     report.qualified, report.ok>>
      /\ report.issues \in AnyIssues =>
           report'.issues \in AnyIssues /\ (report'.issues = <<>> => report.issues = <<>>)
      /\ UNCHANGED <<fleet, wave, world>>
  BY <1>k, <1>m, <1>g DEF RunShape, ReportShape, WorldShape, ReportRecords, Publish, Goto,
     Stages, Statuses
<1> USE <1>a
<1>b. SameWorkers /\ SameCrew /\ FleetShape' /\ WaveShape' BY WorkersStay, CrewStays
<1> USE <1>b
<1>1. RunShape' /\ ReportShape' /\ WorldShape' /\ PhaseKnown'
  BY DEF RunShape, ReportShape, ReportRecords, PhaseKnown, WorldShape
<1>2. FleetRests' /\ FreshKnown' /\ WaveKnown' /\ AnswersKnown'
  BY DEF FleetRests, FreshKnown, PhaseKnown, WaveKnown, AnswersKnown
<1>3. ShardsEarned' /\ EndKnown' BY DEF ShardsEarned, ReportShape, PhaseKnown, EndKnown
<1> QED BY <1>1, <1>2, <1>3

LEMMA ComparedKeeps ==
  ASSUME ShardRunInv, Compared
  PROVE  ShardRunInv'
<1>m. run.stage = "judge" /\ run' = Goto("proof") /\ UNCHANGED <<fleet, wave, world>>
  BY DEF Compared
<1>k. /\ report' \in ReportRecords(report'.issues)
      /\ UNCHANGED <<report.jobs, report.qualify, report.bound, report.rooted, report.probed,
                     report.shards, report.executed, report.aggregate, report.control>>
      /\ (report'.ok => report.ok) /\ (report'.eligible => report.eligible)
      /\ report'.eligible /\ report.issues \in AnyIssues =>
           report'.issues \in AnyIssues /\ (report'.issues = <<>> => report.issues = <<>>)
      /\ report'.qualified =>
           report.qualified \/ (report.control # <<>> /\ report.control[1].ok)
  <2>1. CASE report' = [report EXCEPT !.equivalence = "equal", !.qualified = TRUE,
                                      !.status = "qualified"]
    BY <2>1 DEF Compared, ReportShape, ReportRecords, Statuses
  <2>2. CASE report' = [Publish(report, Kind("qualification_not_equivalent")) EXCEPT
                          !.equivalence = "different", !.status = "not_equivalent"]
    <3>1. Kind("qualification_not_equivalent") \in AnyIssues BY KindIs DEF Labels
    <3> QED BY <2>2, <3>1, IssuesGrow DEF Publish, ReportShape, ReportRecords, Statuses
  <2>3. CASE report' = Failed(report, "comparison_failed")
    BY <2>3, ZenonT(40) DEF Failed, Publish, ReportShape, ReportRecords, Statuses
  <2> QED BY <2>1, <2>2, <2>3 DEF Compared
<1>a. /\ run.phase \in {"candidates", "control"} /\ run.next \in Nat /\ report.jobs \in {1, 2}
      /\ run.stage = "judge"
      /\ run' \in RunRecords
      /\ run'.stage = "proof"
      /\ UNCHANGED <<run.phase, run.next, run.permitted, run.stopping, run.error,
                     run.interrupted>>
      /\ report' \in ReportRecords(report'.issues)
      /\ UNCHANGED <<report.jobs, report.qualify, report.bound, report.rooted,
                     report.probed, report.shards, report.executed, report.aggregate,
                     report.control>>
      /\ (report'.ok => report.ok) /\ (report'.eligible => report.eligible)
      /\ report'.eligible /\ report.issues \in AnyIssues =>
           report'.issues \in AnyIssues /\ (report'.issues = <<>> => report.issues = <<>>)
      /\ report'.qualified =>
           report.qualified \/ (report.control # <<>> /\ report.control[1].ok)
      /\ UNCHANGED <<fleet, wave, world>>
  BY <1>k, <1>m DEF RunShape, ReportShape, WorldShape, ReportRecords, Goto, Stages
<1> USE <1>a
<1>b. SameWorkers /\ SameCrew /\ FleetShape' /\ WaveShape' BY WorkersStay, CrewStays
<1> USE <1>b
<1>1. RunShape' /\ ReportShape' /\ WorldShape' /\ PhaseKnown'
  BY DEF RunShape, ReportShape, ReportRecords, PhaseKnown, WorldShape
<1>2. FleetRests' /\ FreshKnown' /\ WaveKnown' /\ AnswersKnown'
  BY DEF FleetRests, FreshKnown, PhaseKnown, WaveKnown, AnswersKnown
<1>3. ShardsEarned' /\ EndKnown' BY DEF ShardsEarned, ReportShape, PhaseKnown, EndKnown
<1> QED BY <1>1, <1>2, <1>3

\* What the run is waiting for in a wave.
LEMMA CrewKnown ==
  ASSUME RunShape, ReportShape, PhaseKnown, run.stage \in Waves
  PROVE  /\ Len(Members) \in 1 .. 2 /\ Crew \subseteq Workers
         /\ Crew = {Members[k] : k \in 1 .. Len(Members)}
         /\ \A k \in 1 .. Len(Members) : Members[k] \in Workers
         /\ \A k, l \in 1 .. Len(Members) : Members[k] = Members[l] => k = l
         /\ InControl => Len(Members) = 1 /\ Members[1] = 0 /\ Crew = {0}
         /\ ~InControl =>
              /\ run.next <= ShardCount /\ run.next \in Nat \ {0}
              /\ \A k \in 1 .. Len(Members) : Members[k] = run.next + k - 1
              /\ Crew \subseteq 1 .. ShardCount
              /\ Crew = run.next .. run.next + Len(Members) - 1
              /\ \/ Len(Members) = report.jobs
                 \/ Len(Members) < report.jobs /\ run.next + Len(Members) = ShardCount + 1
<1>1. run.phase \in {"candidates", "control"} /\ run.next \in Nat \ {0} BY DEF RunShape
<1>2. InControl \/ run.next <= ShardCount BY <1>1 DEF PhaseKnown
<1> QED BY <1>1, <1>2, CrewIs

\* Whatever a step of a wave does to its workers, the rest of the run stays as it is.
LEMMA WaveGoesOn ==
  ASSUME ShardRunInv, run.stage \in {"submit", "poll", "drain"},
         run'.stage \in {"submit", "poll", "drain"},
         UNCHANGED <<run.phase, run.next, run.error, run.interrupted>>,
         run.interrupted => run' = run,
         UNCHANGED <<report, world>>, RunShape', FleetShape', WaveShape',
         \A i \in Workers \ Crew : fleet'[i] = fleet[i],
         \A i \in Crew : fleet'[i].tree = "present",
         WaveKnown', AnswersKnown'
  PROVE  ShardRunInv'
<1>1. run.phase \in {"candidates", "control"} /\ run.next \in Nat \ {0} /\ report.jobs \in {1, 2}
  BY DEF RunShape, ReportShape, ReportRecords
<1>2. /\ Crew \subseteq Workers
      /\ InControl => Crew = {0}
      /\ ~InControl => Crew \subseteq 1 .. ShardCount
                       /\ \A i \in Crew : i >= run.next /\ i < run.next + report.jobs
  <2>1. RunShape /\ ReportShape /\ PhaseKnown /\ run.stage \in Waves OBVIOUS
  <2> HIDE DEF InControl, ShardRunInv
  <2> QED BY <1>1, <2>1, CrewKnown
<1>3. (InControl' <=> InControl) /\ Members' = Members /\ Crew' = Crew
  <2>1. (InControl' <=> InControl) /\ Members' = Members BY DEF Members
  <2> QED BY <2>1 DEF Crew
<1>4. \A i \in Workers \ Crew :
        /\ fleet'[i] = fleet[i]
        /\ (Resting(i)' <=> Resting(i)) /\ (Fresh(i)' <=> Fresh(i)) /\ (Earned(i)' <=> Earned(i))
  BY DEF Resting, Fresh, Earned
<1>5. ReportShape' /\ WorldShape'
  <2>1. ReportShape' BY <1>1 DEF ReportShape, ReportRecords
  <2> QED BY <2>1 DEF WorldShape
<1>6. PhaseKnown' /\ EndKnown' BY <1>1 DEF PhaseKnown, EndKnown
<1>7. FleetRests' BY <1>1, <1>2, <1>3, <1>4 DEF FleetRests
<1>8. FreshKnown' BY <1>1, <1>2, <1>4, WorkersAre DEF FreshKnown
<1>9. ShardsEarned'
  <2>1. CASE InControl
    <3>1. \A k \in 1 .. ShardCount : Earned(k)' <=> Earned(k) BY <1>2, <1>4, <2>1, WorkersAre
    <3> QED BY <2>1, <3>1 DEF ShardsEarned
  <2>2. CASE ~InControl
    <3>1. /\ run.phase = "candidates" /\ Pending /\ Pending' /\ ~report.eligible
          /\ report.control = <<>> /\ ~report.qualified
      BY <1>1, <2>2 DEF ShardsEarned
    <3>2. \A k \in 1 .. ShardCount : k < run.next => (Earned(k)' <=> Earned(k))
      BY <1>1, <1>2, <1>4, <2>2, WorkersAre
    <3>3. run.next <= ShardCount BY <1>1, <2>2, CrewKnown
    <3>4. report.issues = <<>> => report.executed = run.next - 1
      BY <1>1, <3>1, <3>3, WorkersAre DEF ShardsEarned
    <3> QED BY <1>1, <3>1, <3>2, <3>3, <3>4, WorkersAre DEF ShardsEarned
  <2> QED BY <2>1, <2>2
<1> QED BY <1>5, <1>6, <1>7, <1>8, <1>9

\* A step of a wave that no worker takes, and after which it launches nobody else.
LEMMA WaveTurns ==
  ASSUME ShardRunInv, run.stage \in {"submit", "poll"}, run'.stage \in {"poll", "drain"},
         UNCHANGED <<run.phase, run.next, run.error, run.interrupted>>,
         UNCHANGED <<fleet, report, world>>, RunShape', WaveShape',
         wave'.launched = wave.launched,
         wave'.pending \cup wave'.done \subseteq wave.pending \cup wave.done,
         wave'.pending \cap wave'.done = {},
         wave'.done \subseteq {i \in Workers : fleet[i].at = "finished"},
         wave'.told => wave'.issues # <<>>,
         run'.permitted \/ ~run'.stopping \/ wave'.issues = <<>> =>
           /\ run.permitted \/ ~run.stopping \/ wave.issues = <<>>
           /\ run.stage = "poll" /\ run'.stage = "poll",
         \A i \in Launched : i \in (wave.pending \cup wave.done) \ (wave'.pending \cup wave'.done)
                               => fleet[i].at = "finished",
         AnswersKnown'
  PROVE  ShardRunInv'
<1>1. ~run.interrupted /\ Crew \subseteq Workers BY CrewKnown DEF PhaseKnown
<1>2. (InControl' <=> InControl) /\ Members' = Members BY DEF Members
<1>3. Launched' = Launched /\ Unlaunched' = Unlaunched BY <1>2 DEF Launched, Unlaunched
<1>4. WaveKnown'
  <2>1. \A i \in Unlaunched' : Fresh(i)'
    <3>1. \A i \in Unlaunched : Fresh(i) BY DEF WaveKnown
    <3>2. \A i : Fresh(i)' <=> Fresh(i) BY DEF Fresh
    <3> QED BY <1>3, <3>1, <3>2
  <2>2. \A i \in wave'.done \cup Through' : fleet'[i].at = "finished"
    <3>1. \A i \in Through : fleet[i].at = "finished" BY DEF WaveKnown
    <3> QED BY <1>3, <3>1 DEF Through
  <2>3. \A i \in Launched' : fleet'[i].runs = 1 BY <1>3 DEF WaveKnown
  <2>4. /\ wave'.launched <= Len(Members)' /\ wave'.pending \cup wave'.done \subseteq Launched'
        /\ wave.pending \cup wave.done \subseteq Launched
    BY <1>2, <1>3 DEF WaveKnown
  <2>5. run'.permitted \/ ~run'.stopping \/ wave'.issues = <<>> =>
          wave'.launched = Len(Members)' /\ run'.stage = "poll"
    BY <1>1, <1>2 DEF WaveKnown
  <2> QED BY <1>1, <2>1, <2>2, <2>3, <2>4, <2>5 DEF WaveKnown
<1>5. /\ \A i \in Workers \ Crew : fleet'[i] = fleet[i]
      /\ \A i \in Crew : fleet'[i].tree = "present"
  BY DEF FleetRests
<1>6. FleetShape' BY DEF FleetShape
<1> QED BY <1>1, <1>4, <1>5, <1>6, WaveGoesOn

\* A turn of the wave in which no report is taken.
LEMMA WaveDrops ==
  ASSUME ShardRunInv, run.stage \in {"submit", "poll"}, run'.stage \in {"poll", "drain"},
         UNCHANGED <<run.phase, run.next, run.error, run.interrupted>>,
         UNCHANGED <<fleet, report, world>>, RunShape', WaveShape',
         UNCHANGED <<wave.launched, wave.reports>>,
         wave'.pending \cup wave'.done \subseteq wave.pending \cup wave.done,
         wave'.pending \cap wave'.done = {},
         \A i \in wave'.done : fleet[i].at = "finished",
         \A i \in wave.pending \cup wave.done :
           i \notin wave'.pending \cup wave'.done => fleet[i].at = "finished",
         wave'.told => wave'.issues # <<>>,
         run'.permitted \/ ~run'.stopping \/ wave'.issues = <<>> =>
           /\ run.stage = "poll" /\ run'.stage = "poll"
           /\ wave.pending \cup wave.done \subseteq wave'.pending \cup wave'.done,
         run'.permitted \/ ~run'.stopping => run.permitted \/ ~run.stopping,
         wave'.issues = <<>> => wave.issues = <<>>
  PROVE  ShardRunInv'
<1>1. Launched' = Launched
  <2>1. Members' = Members BY DEF Members
  <2> QED BY <2>1 DEF Launched
<1>2. Through \subseteq Through' BY <1>1 DEF Through
<1>3. run'.permitted \/ ~run'.stopping \/ wave'.issues = <<>> => Through' = Through
  BY <1>1 DEF Through
<1>4. AnswersKnown'
  <2>1. \A i \in wave'.pending \cup wave'.done :
          fleet'[i].at = "finished" /\ ~fleet'[i].crashed =>
            /\ fleet'[i].out \in Answers /\ fleet'[i].out.who = i
            /\ fleet'[i].alive = ~fleet'[i].out.quiescent
    BY DEF AnswersKnown
  <2>2. \A rep \in wave'.reports :
          /\ rep.who \in Through' /\ rep = fleet'[rep.who].out /\ ~fleet'[rep.who].crashed
          /\ fleet'[rep.who].alive = ~rep.quiescent
    BY <1>2 DEF AnswersKnown
  <2>3. \A i \in Through' :
          /\ run'.permitted \/ ~run'.stopping => ~fleet'[i].alive
          /\ wave'.issues = <<>> => fleet'[i].out \in wave'.reports /\ fleet'[i].out.who = i
    BY <1>3 DEF AnswersKnown
  <2> QED BY <2>1, <2>2, <2>3 DEF AnswersKnown
<1>5. wave'.done \subseteq {i \in Workers : fleet[i].at = "finished"}
  BY DEF WaveShape, WaveRecords
<1>6. \A i \in Launched : i \in (wave.pending \cup wave.done) \ (wave'.pending \cup wave'.done)
                              => fleet[i].at = "finished"
  OBVIOUS
<1>7. run'.permitted \/ ~run'.stopping \/ wave'.issues = <<>> =>
        /\ run.permitted \/ ~run.stopping \/ wave.issues = <<>>
        /\ run.stage = "poll" /\ run'.stage = "poll"
  OBVIOUS
<1> QED BY <1>4, <1>5, <1>6, <1>7, WaveTurns

\* Cancelled: the flags after a failing step of a wave.
LEMMA ForbidIs ==
  ASSUME RunShape, NEW stage \in {"poll", "drain"}, run' = Forbid(stage)
  PROVE  /\ RunShape' /\ run'.stage = stage /\ ~run'.permitted /\ run'.stopping
         /\ UNCHANGED <<run.phase, run.next, run.error, run.interrupted>>
BY DEF RunShape, Forbid, Stages

LEMMA TellIs ==
  ASSUME WaveShape, NEW t \in AnyIssues
  PROVE  /\ Tell(t) \in WaveRecords /\ Tell(t).issues = wave.issues \o t
         /\ wave.issues \o t \in AnyIssues
         /\ wave.issues \o t = <<>> <=> wave.issues = <<>> /\ t = <<>>
         /\ Tell(t).launched = wave.launched /\ Tell(t).pending = wave.pending
         /\ Tell(t).done = wave.done /\ Tell(t).reports = wave.reports /\ Tell(t).told = wave.told
<1>1. wave \in WaveRecords /\ wave.issues \in AnyIssues BY DEF WaveShape, WaveRecords
<1>2. wave.issues \o t \in AnyIssues /\ (wave.issues \o t = <<>> <=> wave.issues = <<>> /\ t = <<>>)
  BY <1>1, IssuesGrow
<1> QED BY <1>1, <1>2 DEF Tell, WaveRecords

LEMMA SubmitFailsKeeps ==
  ASSUME ShardRunInv, SubmitFails
  PROVE  ShardRunInv'
<1>1. run.stage = "submit" /\ run' = Forbid("poll") /\ UNCHANGED <<fleet, report, world>>
  BY DEF SubmitFails
<1>2. wave.launched + 1 \in 1 .. Len(Members)
  <2>1. Len(Members) \in 1 .. 2 BY <1>1, CrewKnown
  <2> QED BY <1>1, <2>1 DEF WaveKnown, WaveShape, WaveRecords
<1>3. PICK t \in AnyIssues : t # <<>> /\ wave' = Tell(t)
  <2>1. Members[wave.launched + 1] \in Workers BY <1>1, <1>2, CrewKnown
  <2> QED BY <2>1, KindIs DEF SubmitFails, Labels
<1>4. /\ WaveShape' /\ wave'.issues # <<>>
      /\ UNCHANGED <<wave.launched, wave.pending, wave.done, wave.reports, wave.told>>
  BY <1>3, TellIs DEF WaveShape
<1>5. wave.done = {} BY <1>1 DEF WaveKnown
<1> QED BY <1>1, <1>4, <1>5, ForbidIs, WaveDrops

LEMMA WaitFailsKeeps ==
  ASSUME ShardRunInv, WaitFails
  PROVE  ShardRunInv'
<1>1. /\ run.stage = "poll" /\ wave.done = {} /\ run' = Forbid("drain")
      /\ UNCHANGED <<fleet, report, world>>
  BY DEF WaitFails
<1>2. PICK t \in AnyIssues : t # <<>> /\ wave' = Tell(t) BY KindIs DEF WaitFails, Labels
<1>3. /\ WaveShape' /\ wave'.issues # <<>>
      /\ UNCHANGED <<wave.launched, wave.pending, wave.done, wave.reports, wave.told>>
  BY <1>2, TellIs DEF WaveShape
<1> QED BY <1>1, <1>3, ForbidIs, WaveDrops

LEMMA WavePolledKeeps ==
  ASSUME ShardRunInv, WavePolled
  PROVE  ShardRunInv'
<1> DEFINE finished == {i \in wave.pending : fleet[i].at = "finished"}
           late == world.expired /\ ~wave.told
<1>1. /\ run.stage = "poll" /\ wave.done = {} /\ UNCHANGED <<fleet, report, world>>
      /\ run' = IF world.expired THEN Forbid("poll") ELSE run
  BY DEF WavePolled
<1>2. PICK t \in AnyIssues :
        /\ late => t # <<>>
        /\ wave' = [Tell(t) EXCEPT !.done = finished, !.pending = wave.pending \ finished,
                                   !.told = wave.told \/ late]
  <2>1. Tell(<<>>).pending = wave.pending /\ Tell(<<>>).told = wave.told BY KindIs, TellIs
  <2>2. LET k == Kind("worker_wave_deadline_exhausted")
        IN  /\ k \in AnyIssues /\ k # <<>> /\ Tell(k).pending = wave.pending
            /\ Tell(k).told = wave.told
    BY KindIs, TellIs DEF Labels
  <2> QED BY <2>1, <2>2, KindIs DEF WavePolled
<1>3. /\ wave'.issues = wave.issues \o t /\ wave'.done = finished
      /\ wave'.pending = wave.pending \ finished /\ wave'.told = (wave.told \/ late)
      /\ UNCHANGED <<wave.launched, wave.reports>>
      /\ WaveShape'
  <2>1. finished \subseteq Workers /\ wave.pending \subseteq Workers /\ late \in BOOLEAN
        /\ wave.told \in BOOLEAN
    BY DEF WaveShape, WaveRecords, WorldShape
  <2> HIDE DEF finished, late
  <2> QED BY <1>2, <2>1, TellIs DEF WaveShape, WaveRecords
<1>4. /\ wave'.issues = <<>> => wave.issues = <<>> /\ t = <<>>
      /\ wave'.told => wave'.issues # <<>>
  <2>1. wave.told => wave.issues # <<>> BY <1>1 DEF WaveKnown
  <2> QED BY <1>2, <1>3, <2>1, TellIs
<1>5. /\ RunShape' /\ run'.stage = "poll"
      /\ UNCHANGED <<run.phase, run.next, run.error, run.interrupted>>
      /\ run'.permitted \/ ~run'.stopping => run' = run
  <2>1. CASE run' = run BY <1>1, <2>1 DEF RunShape
  <2>2. CASE run' = Forbid("poll") BY <2>2, ForbidIs
  <2> QED BY <1>1, <2>1, <2>2
<1> QED BY <1>1, <1>3, <1>4, <1>5, WaveDrops

\* A result is dropped.
LEMMA DropKeeps ==
  ASSUME ShardRunInv, NEW i \in Workers, run.stage = "poll", i \in wave.done,
         NEW t \in AnyIssues, t # <<>>, wave' = [Tell(t) EXCEPT !.done = wave.done \ {i}],
         run' = Forbid("poll"), UNCHANGED <<fleet, report, world>>
  PROVE  ShardRunInv'
<1>1. /\ WaveShape' /\ wave'.issues = wave.issues \o t /\ wave'.issues # <<>>
      /\ wave'.done = wave.done \ {i}
      /\ UNCHANGED <<wave.launched, wave.pending, wave.reports, wave.told>>
  BY TellIs DEF WaveShape, WaveRecords
<1>2. wave.pending \cap wave.done = {} /\ \A j \in wave.done : fleet[j].at = "finished"
  BY DEF WaveKnown
<1> QED BY <1>1, <1>2, ForbidIs, WaveDrops

LEMMA TakeExceptionKeeps ==
  ASSUME ShardRunInv, NEW i \in Workers, TakeException(i)
  PROVE  ShardRunInv'
<1>1. PICK t \in AnyIssues : t # <<>> /\ wave' = [Tell(t) EXCEPT !.done = @ \ {i}]
  BY KindIs DEF TakeException, Dropped, Labels
<1>2. wave' = [Tell(t) EXCEPT !.done = wave.done \ {i}] BY <1>1, TellIs
<1> QED BY <1>1, <1>2, DropKeeps DEF TakeException, Dropped

LEMMA ReportRejectedKeeps ==
  ASSUME ShardRunInv, NEW i \in Workers, ReportRejected(i)
  PROVE  ShardRunInv'
<1>1. PICK t \in AnyIssues : t # <<>> /\ wave' = [Tell(t) EXCEPT !.done = @ \ {i}]
  BY KindIs DEF ReportRejected, Dropped, Labels
<1>2. wave' = [Tell(t) EXCEPT !.done = wave.done \ {i}] BY <1>1, TellIs
<1> QED BY <1>1, <1>2, DropKeeps DEF ReportRejected, Dropped, Taken

LEMMA ReportTooLateKeeps ==
  ASSUME ShardRunInv, NEW i \in Workers, ReportTooLate(i)
  PROVE  ShardRunInv'
<1>1. /\ run.stage = "poll" /\ i \in wave.done /\ run' = Forbid("poll")
      /\ UNCHANGED <<fleet, report, world>>
  BY DEF ReportTooLate, Taken
<1>2. PICK t \in AnyIssues :
        /\ ~wave.told => t # <<>>
        /\ wave' = [Tell(t) EXCEPT !.done = wave.done \ {i}, !.told = TRUE]
  <2>1. \A t \in AnyIssues : Tell(t).done = wave.done BY TellIs
  <2> QED BY <2>1, KindIs DEF ReportTooLate, Labels
<1>3. /\ WaveShape' /\ wave'.issues = wave.issues \o t
      /\ wave'.done = wave.done \ {i}
      /\ UNCHANGED <<wave.launched, wave.pending, wave.reports>>
  BY <1>2, TellIs DEF WaveShape, WaveRecords
<1>4. wave'.issues # <<>>
  <2>1. wave.told => wave.issues # <<>> BY <1>1 DEF WaveKnown
  <2> QED BY <1>2, <1>3, <2>1, TellIs
<1>5. wave.pending \cap wave.done = {} /\ \A j \in wave.done : fleet[j].at = "finished"
  BY <1>1 DEF WaveKnown
<1> QED BY <1>1, <1>3, <1>4, <1>5, ForbidIs, WaveDrops

LEMMA ReportRetainedKeeps ==
  ASSUME ShardRunInv, NEW i \in Workers, ReportRetained(i)
  PROVE  ShardRunInv'
<1> DEFINE rep == fleet[i].out
<1>1. /\ run.stage = "poll" /\ i \in wave.done /\ ~fleet[i].crashed
      /\ wave' = [Tell(Owed(rep)) EXCEPT !.done = @ \ {i}, !.reports = @ \cup {rep}]
      /\ run' = [run EXCEPT !.stopping = @ \/ ~rep.continuationSafe,
                            !.permitted = @ /\ ~InDebt(rep)]
      /\ UNCHANGED <<fleet, report, world>>
  BY DEF ReportRetained, Taken
<1>2. /\ fleet[i].at = "finished" /\ rep \in Answers /\ rep.who = i
      /\ fleet[i].alive = ~rep.quiescent
  BY <1>1 DEF WaveKnown, AnswersKnown
<1>3. /\ rep.continuationSafe \in BOOLEAN /\ rep.quiescent \in BOOLEAN
      /\ rep.continuationSafe => rep.quiescent
      /\ InDebt(rep) \in BOOLEAN /\ (~InDebt(rep) => rep.quiescent)
  BY <1>2, AnswerIs DEF InDebt
<1>4. Owed(rep) \in AnyIssues /\ (Owed(rep) = <<>> => rep.continuationSafe) BY <1>2, OwedIs
<1> HIDE DEF rep
<1>5. /\ WaveShape' /\ wave'.issues = wave.issues \o Owed(rep)
      /\ wave'.issues = <<>> => wave.issues = <<>> /\ Owed(rep) = <<>>
      /\ wave'.done = wave.done \ {i} /\ wave'.reports = wave.reports \cup {rep}
      /\ UNCHANGED <<wave.launched, wave.pending, wave.told>>
  <2> DEFINE told == Tell(Owed(rep))
  <2>1. /\ told \in WaveRecords /\ told.issues = wave.issues \o Owed(rep)
        /\ told.issues = <<>> => wave.issues = <<>> /\ Owed(rep) = <<>>
        /\ told.launched = wave.launched /\ told.pending = wave.pending
        /\ told.done = wave.done /\ told.reports = wave.reports /\ told.told = wave.told
    BY <1>4, TellIs
  <2>2. wave' = [told EXCEPT !.done = @ \ {i}, !.reports = @ \cup {rep}] BY <1>1
  <2> HIDE DEF told
  <2> QED BY <1>2, <2>1, <2>2 DEF WaveShape, WaveRecords
<1>6. /\ RunShape' /\ run'.stage = "poll"
      /\ UNCHANGED <<run.phase, run.next, run.error, run.interrupted>>
      /\ run'.permitted => run.permitted /\ rep.quiescent
      /\ ~run'.stopping => ~run.stopping /\ rep.quiescent
  BY <1>1, <1>3 DEF RunShape
<1>7. /\ wave.pending \cap wave.done = {} /\ \A j \in wave.done : fleet[j].at = "finished"
      /\ wave.told => wave.issues # <<>>
      /\ wave.pending \cup wave.done \subseteq Launched
  BY <1>1 DEF WaveKnown
<1>8. Launched' = Launched
  <2>1. Members' = Members BY <1>1, <1>6 DEF Members
  <2> QED BY <1>5, <2>1 DEF Launched
<1>9. Through' = Through \cup {i} BY <1>1, <1>5, <1>7, <1>8 DEF Through
<1>10. AnswersKnown'
  <2>1. \A j \in wave'.pending \cup wave'.done :
          fleet'[j].at = "finished" /\ ~fleet'[j].crashed =>
            /\ fleet'[j].out \in Answers /\ fleet'[j].out.who = j
            /\ fleet'[j].alive = ~fleet'[j].out.quiescent
    BY <1>1, <1>5 DEF AnswersKnown
  <2>2. \A r \in wave'.reports :
          /\ r.who \in Through' /\ r = fleet'[r.who].out /\ ~fleet'[r.who].crashed
          /\ fleet'[r.who].alive = ~r.quiescent
    <3>1. \A r \in wave.reports :
            /\ r.who \in Through' /\ r = fleet'[r.who].out /\ ~fleet'[r.who].crashed
            /\ fleet'[r.who].alive = ~r.quiescent
      BY <1>1, <1>9 DEF AnswersKnown
    <3>2. /\ rep.who \in Through' /\ rep = fleet'[rep.who].out /\ ~fleet'[rep.who].crashed
          /\ fleet'[rep.who].alive = ~rep.quiescent
      BY <1>1, <1>2, <1>9 DEF rep
    <3> QED BY <1>5, <3>1, <3>2
  <2>3. \A j \in Through' :
          /\ run'.permitted \/ ~run'.stopping => ~fleet'[j].alive
          /\ wave'.issues = <<>> => fleet'[j].out \in wave'.reports /\ fleet'[j].out.who = j
    <3>1. ASSUME NEW j \in Through
          PROVE  /\ run'.permitted \/ ~run'.stopping => ~fleet'[j].alive
                 /\ wave'.issues = <<>> => fleet'[j].out \in wave'.reports /\ fleet'[j].out.who = j
      BY <1>1, <1>5, <1>6 DEF AnswersKnown
    <3>2. /\ run'.permitted \/ ~run'.stopping => ~fleet'[i].alive
          /\ fleet'[i].out \in wave'.reports /\ fleet'[i].out.who = i
      BY <1>1, <1>2, <1>5, <1>6 DEF rep
    <3> QED BY <1>9, <3>1, <3>2
  <2> QED BY <2>1, <2>2, <2>3 DEF AnswersKnown
<1>11. /\ wave'.done \subseteq {j \in Workers : fleet[j].at = "finished"}
       /\ wave'.told => wave'.issues # <<>>
  BY <1>5, <1>7 DEF WaveShape, WaveRecords
<1> QED BY <1>1, <1>2, <1>5, <1>6, <1>7, <1>10, <1>11, WaveTurns

\* A worker of a wave that changes, while its run may note it.
LEMMA WorkerSubmittedKeeps ==
  ASSUME ShardRunInv, WorkerSubmitted
  PROVE  ShardRunInv'
<1> DEFINE i == Members[wave.launched + 1]
<1>1. /\ run.stage = "submit"
      /\ fleet' = [fleet EXCEPT ![i].at = "running", ![i].runs = @ + 1]
      /\ wave' = [wave EXCEPT !.launched = @ + 1, !.pending = @ \cup {i}]
      /\ run' = IF wave.launched + 1 = Len(Members) THEN Goto("poll") ELSE run
      /\ UNCHANGED <<report, world>>
  BY DEF WorkerSubmitted
<1>2. /\ Crew \subseteq Workers /\ Len(Members) \in 1 .. 2
      /\ Crew = {Members[k] : k \in 1 .. Len(Members)}
      /\ \A k \in 1 .. Len(Members) : Members[k] \in Workers
      /\ \A k, l \in 1 .. Len(Members) : Members[k] = Members[l] => k = l
  BY <1>1, CrewKnown
<1>3. /\ wave.launched \in Nat /\ wave.launched < Len(Members) /\ wave.done = {}
      /\ wave.issues = <<>> /\ Through = {} /\ (wave.told => wave.issues # <<>>)
      /\ wave.pending \cup wave.done \subseteq Launched
      /\ (\A j \in Unlaunched : Fresh(j)) /\ (\A j \in Launched : fleet[j].runs = 1)
  BY <1>1 DEF WaveKnown, WaveShape, WaveRecords
<1>4. wave.launched + 1 \in 1 .. Len(Members) /\ i \in Crew /\ i \in Workers /\ i \in Unlaunched
  BY <1>2, <1>3 DEF Unlaunched
<1>5. Fresh(i) /\ fleet[i].runs = 0 BY <1>3, <1>4 DEF Fresh
<1>6. i \notin Launched BY <1>2, <1>3, <1>4 DEF Launched
<1> HIDE DEF i
<1>7. /\ FleetShape' /\ (\A j \in Workers \ {i} : fleet'[j] = fleet[j])
      /\ fleet'[i].at = "running" /\ fleet'[i].runs = 1 /\ fleet'[i].tree = fleet[i].tree
  BY <1>1, <1>4, <1>5 DEF FleetShape, FleetRecords
<1>8. /\ WaveShape' /\ wave'.launched = wave.launched + 1 /\ wave'.pending = wave.pending \cup {i}
      /\ UNCHANGED <<wave.done, wave.issues, wave.told, wave.reports>>
  <2> DEFINE launched == wave.launched + 1
             pending == wave.pending \cup {i}
  <2>1. wave \in WaveRecords /\ launched \in Nat /\ pending \subseteq Workers
    BY <1>3, <1>4 DEF WaveShape, WaveRecords
  <2>2. wave' = [wave EXCEPT !.launched = launched, !.pending = pending] BY <1>1
  <2> HIDE DEF launched, pending
  <2>3. /\ WaveShape' /\ wave'.launched = launched /\ wave'.pending = pending
        /\ UNCHANGED <<wave.done, wave.issues, wave.told, wave.reports>>
    BY <2>1, <2>2 DEF WaveShape, WaveRecords
  <2> QED BY <2>3 DEF launched, pending
<1>9. /\ RunShape' /\ run'.stage = (IF wave.launched + 1 = Len(Members) THEN "poll" ELSE "submit")
      /\ UNCHANGED <<run.phase, run.next, run.error, run.interrupted, run.permitted, run.stopping>>
      /\ ~run.interrupted
  BY <1>1 DEF RunShape, Goto, Stages, PhaseKnown
<1>10. (InControl' <=> InControl) /\ Members' = Members BY <1>1, <1>9 DEF Members
<1>11. Launched' = Launched \cup {i}
  <2>1. 1 .. wave.launched + 1 = (1 .. wave.launched) \cup {wave.launched + 1} BY <1>3
  <2> QED BY <1>8, <1>10, <2>1 DEF Launched, i
<1>12. Unlaunched' \subseteq Unlaunched \ {i}
  <2>1. ASSUME NEW k \in wave'.launched + 1 .. Len(Members)
        PROVE  Members[k] \in Unlaunched \ {i}
    <3>1. k \in 1 .. Len(Members) /\ k \in wave.launched + 1 .. Len(Members)
          /\ k # wave.launched + 1
      BY <1>3, <1>8, <2>1
    <3> QED BY <1>2, <1>4, <3>1 DEF Unlaunched, i
  <2> QED BY <1>10, <2>1 DEF Unlaunched
<1>13. Through' = {} /\ wave.reports = {} BY <1>1, <1>3, <1>8, <1>11 DEF Through, AnswersKnown
<1>14. WaveKnown'
  <2>1. \A j \in Unlaunched' : Fresh(j)'
    <3>1. Unlaunched \subseteq Workers BY <1>2, <1>3 DEF Unlaunched
    <3>2. \A j \in Workers \ {i} : Fresh(j) => Fresh(j)' BY <1>7 DEF Fresh
    <3> QED BY <1>3, <1>12, <3>1, <3>2
  <2>2. \A j \in Launched' : fleet'[j].runs = 1
    <3>1. Launched \subseteq Workers BY <1>2, <1>3 DEF Launched
    <3> QED BY <1>3, <1>6, <1>7, <1>11, <3>1
  <2>3. /\ wave'.launched <= Len(Members)'
        /\ wave'.pending \cup wave'.done \subseteq Launched' /\ wave'.pending \cap wave'.done = {}
        /\ (wave'.told => wave'.issues # <<>>)
        /\ \A j \in wave'.done \cup Through' : fleet'[j].at = "finished"
    BY <1>2, <1>3, <1>8, <1>10, <1>11, <1>13
  <2>4. run'.stage = "submit" =>
          wave'.launched < Len(Members)' /\ wave'.done = {} /\ wave'.issues = <<>>
    BY <1>2, <1>3, <1>8, <1>9, <1>10
  <2>5. run'.stage \in {"poll", "drain"} => wave'.launched = Len(Members)' /\ run'.stage = "poll"
    BY <1>8, <1>9, <1>10
  <2>6. run'.stage \in {"submit", "poll"} BY <1>9
  <2> QED BY <1>9, <1>13, <2>1, <2>2, <2>3, <2>4, <2>5, <2>6 DEF WaveKnown
<1>15. AnswersKnown'
  <2>1. \A j \in wave'.pending \cup wave'.done :
          fleet'[j].at = "finished" => j # i /\ j \in wave.pending
    BY <1>3, <1>7, <1>8
  <2>2. wave.pending \subseteq Workers BY DEF WaveShape, WaveRecords
  <2>3. \A j \in wave'.pending \cup wave'.done :
          fleet'[j].at = "finished" /\ ~fleet'[j].crashed =>
            /\ fleet'[j].out \in Answers /\ fleet'[j].out.who = j
            /\ fleet'[j].alive = ~fleet'[j].out.quiescent
    <3>1. \A j \in wave.pending :
            fleet[j].at = "finished" /\ ~fleet[j].crashed =>
              /\ fleet[j].out \in Answers /\ fleet[j].out.who = j
              /\ fleet[j].alive = ~fleet[j].out.quiescent
      BY <1>1 DEF AnswersKnown
    <3> QED BY <1>7, <2>1, <2>2, <3>1
  <2> QED BY <1>8, <1>13, <2>3 DEF AnswersKnown
<1>16. /\ \A j \in Workers \ Crew : fleet'[j] = fleet[j]
       /\ \A j \in Crew : fleet'[j].tree = "present"
  <2>1. \A j \in Crew : fleet[j].tree = "present" BY <1>1 DEF FleetRests
  <2> QED BY <1>2, <1>4, <1>7, <2>1
<1>17. run'.stage \in {"submit", "poll", "drain"} BY <1>9
<1> QED BY <1>1, <1>7, <1>8, <1>9, <1>14, <1>15, <1>16, <1>17, WaveGoesOn

\* A thread ends: whoever waits for it is in its wave, or does not look at it any more.
LEMMA WorkerEnds ==
  ASSUME ShardRunInv, NEW i \in Workers, fleet[i].at = "running", NEW w \in FleetRecords,
         fleet' = [fleet EXCEPT ![i] = w], w.at = "finished",
         w.tree = fleet[i].tree, w.runs = fleet[i].runs,
         ~w.crashed => w.out \in Answers /\ w.out.who = i /\ w.alive = ~w.out.quiescent,
         UNCHANGED <<run, wave, report, world>>
  PROVE  ShardRunInv'
<1>1. FleetShape' /\ fleet'[i] = w /\ \A j \in Workers \ {i} : fleet'[j] = fleet[j]
  BY DEF FleetShape
<1>2. /\ ~Resting(i) /\ ~Fresh(i) /\ ~Earned(i)
      /\ \A j \in Workers \ {i} : /\ (Resting(j)' <=> Resting(j)) /\ (Fresh(j)' <=> Fresh(j))
                                  /\ (Earned(j)' <=> Earned(j))
  BY <1>1 DEF Resting, Fresh, Earned
<1>3. /\ \A j \in Workers : fleet'[j].tree = fleet[j].tree /\ fleet'[j].runs = fleet[j].runs
      /\ \A j \in Workers : fleet[j].at = "finished" => fleet'[j].at = "finished"
      /\ \A j \in Workers : Resting(j) => Resting(j)'
      /\ \A j \in Workers : Fresh(j) => Fresh(j)'
      /\ \A j \in Workers : Earned(j) => Earned(j)'
  BY <1>1, <1>2
<1>4. RunShape' /\ WaveShape' /\ ReportShape' /\ WorldShape'
  <2>1. RunShape' /\ WaveShape' /\ WorldShape' BY DEF RunShape, WaveShape, WorldShape
  <2>2. ReportShape' BY DEF ReportShape, ReportRecords
  <2> QED BY <2>1, <2>2
<1>5. (InControl' <=> InControl) /\ Members' = Members /\ Crew' = Crew
      /\ Launched' = Launched /\ Unlaunched' = Unlaunched /\ Through' = Through
  <2>1. (InControl' <=> InControl) /\ Members' = Members BY DEF Members
  <2>2. Launched' = Launched /\ Unlaunched' = Unlaunched /\ Crew' = Crew
    BY <2>1 DEF Launched, Unlaunched, Crew
  <2> QED BY <2>1, <2>2 DEF Through
<1>6. CASE run.stage \in {"submit", "poll", "drain"}
  <2>1. /\ Crew \subseteq Workers /\ Crew = {Members[k] : k \in 1 .. Len(Members)}
        /\ Len(Members) \in 1 .. 2
    BY <1>6, CrewKnown
  <2>2. i \in Crew /\ \A j \in Crew : fleet[j].tree = "present" BY <1>2, <1>6 DEF FleetRests
  <2>3. wave.launched \in Nat /\ wave.launched <= Len(Members)
    BY <1>6 DEF WaveKnown, WaveShape, WaveRecords
  <2>4. Launched \subseteq Workers /\ Unlaunched \subseteq Workers
    BY <2>1, <2>3 DEF Launched, Unlaunched
  <2>5. i \notin wave.done \cup Through BY <1>6 DEF WaveKnown
  <2>6. WaveKnown'
    <3>1. \A j \in Unlaunched' : Fresh(j)' BY <1>3, <1>5, <1>6, <2>4 DEF WaveKnown
    <3>2. \A j \in wave'.done \cup Through' : fleet'[j].at = "finished"
      BY <1>3, <1>5, <1>6, <2>4 DEF WaveKnown, Through
    <3>3. \A j \in Launched' : fleet'[j].runs = 1 BY <1>3, <1>5, <1>6, <2>4 DEF WaveKnown
    <3> QED BY <1>5, <1>6, <3>1, <3>2, <3>3 DEF WaveKnown
  <2>7. AnswersKnown'
    <3>1. wave.pending \cup wave.done \subseteq Workers BY DEF WaveShape, WaveRecords
    <3>2. \A j \in wave'.pending \cup wave'.done :
            fleet'[j].at = "finished" /\ ~fleet'[j].crashed =>
              /\ fleet'[j].out \in Answers /\ fleet'[j].out.who = j
              /\ fleet'[j].alive = ~fleet'[j].out.quiescent
      <4>1. \A j \in wave.pending \cup wave.done :
              fleet[j].at = "finished" /\ ~fleet[j].crashed =>
                /\ fleet[j].out \in Answers /\ fleet[j].out.who = j
                /\ fleet[j].alive = ~fleet[j].out.quiescent
        BY <1>6 DEF AnswersKnown
      <4> QED BY <1>1, <3>1, <4>1
    <3>3. \A rep \in wave'.reports :
            /\ rep.who \in Through' /\ rep = fleet'[rep.who].out /\ ~fleet'[rep.who].crashed
            /\ fleet'[rep.who].alive = ~rep.quiescent
      <4>1. \A rep \in wave.reports :
              /\ rep.who \in Through /\ rep = fleet[rep.who].out /\ ~fleet[rep.who].crashed
              /\ fleet[rep.who].alive = ~rep.quiescent
        BY <1>6 DEF AnswersKnown
      <4>2. \A j \in Through : fleet'[j] = fleet[j] BY <1>1, <2>4, <2>5 DEF Through
      <4> QED BY <1>5, <4>1, <4>2
    <3>4. \A j \in Through' :
            /\ run'.permitted \/ ~run'.stopping => ~fleet'[j].alive
            /\ wave'.issues = <<>> => fleet'[j].out \in wave'.reports /\ fleet'[j].out.who = j
      <4>1. \A j \in Through :
              /\ run.permitted \/ ~run.stopping => ~fleet[j].alive
              /\ wave.issues = <<>> => fleet[j].out \in wave.reports /\ fleet[j].out.who = j
        BY <1>6 DEF AnswersKnown
      <4>2. \A j \in Through : fleet'[j] = fleet[j] BY <1>1, <2>4, <2>5 DEF Through
      <4> QED BY <1>5, <4>1, <4>2
    <3> QED BY <3>2, <3>3, <3>4 DEF AnswersKnown
  <2>8. /\ \A j \in Workers \ Crew : fleet'[j] = fleet[j]
        /\ \A j \in Crew : fleet'[j].tree = "present"
    BY <1>1, <1>3, <2>1, <2>2
  <2> QED BY <1>1, <1>4, <1>6, <2>6, <2>7, <2>8, WaveGoesOn
<1>7. CASE run.stage \notin {"submit", "poll", "drain"}
  <2>1. PhaseKnown' BY DEF PhaseKnown
  <2>2. FleetRests'
    <3>1. ~\A j \in Workers : Resting(j) BY <1>2
    <3>2. run.stage = "unbatch" =>
            /\ \A j \in Workers \ Crew : Resting(j)'
            /\ \A j \in Crew : fleet'[j].tree = "present"
      <4> SUFFICES ASSUME run.stage = "unbatch"
                   PROVE  /\ \A j \in Workers \ Crew : Resting(j)'
                          /\ \A j \in Crew : fleet'[j].tree = "present"
        OBVIOUS
      <4>1. Crew \subseteq Workers BY CrewKnown
      <4> QED BY <1>3, <4>1 DEF FleetRests
    <3>3. \A j \in Workers : fleet'[j].tree = "removed" => Resting(j)' BY <1>3 DEF FleetRests
    <3> QED BY <1>5, <1>7, <3>1, <3>2, <3>3 DEF FleetRests
  <2>3. FreshKnown' BY <1>3, <1>5, WorkersAre DEF FreshKnown
  <2>4. WaveKnown' /\ AnswersKnown' BY <1>7 DEF WaveKnown, AnswersKnown
  <2>5. ShardsEarned' BY <1>3, WorkersAre DEF ShardsEarned
  <2>6. EndKnown'
    <3>1. report.ok => OkIsEarned'
      <4> SUFFICES ASSUME report.ok, run.stage = "done" PROVE OkIsEarned' BY DEF EndKnown
      <4>1. \A j \in Workers : fleet[j].tree = "removed" => fleet'[j] = fleet[j]
        BY <1>1, <1>2 DEF FleetRests
      <4> QED BY <4>1 DEF EndKnown, OkIsEarned
    <3> QED BY <3>1 DEF EndKnown
  <2> QED BY <1>1, <1>4, <2>1, <2>2, <2>3, <2>4, <2>5, <2>6
<1> QED BY <1>6, <1>7

LEMMA WorkerReturnsKeeps ==
  ASSUME ShardRunInv, NEW i \in Workers, WorkerReturns(i)
  PROVE  ShardRunInv'
<1>1. RunShape /\ FleetShape OBVIOUS
<1>2. PICK out \in WorkerReports(i, run.stopping) :
        fleet' = [fleet EXCEPT ![i].at = "finished", ![i].out = out, ![i].alive = ~out.quiescent]
  BY DEF WorkerReturns
<1>3. out \in Answers /\ out.who = i /\ out.quiescent \in BOOLEAN
  BY <1>1, <1>2, AnswersOf, AnswerIs DEF RunShape
<1> DEFINE alive == ~out.quiescent
           w == [fleet[i] EXCEPT !.at = "finished", !.out = out, !.alive = alive]
<1>4. fleet' = [fleet EXCEPT ![i] = w] /\ alive \in BOOLEAN
  BY <1>1, <1>2, <1>3 DEF FleetShape, FleetRecords
<1> HIDE DEF alive
<1>5. /\ w \in FleetRecords /\ w.at = "finished" /\ w.out = out /\ w.alive = alive
      /\ w.tree = fleet[i].tree /\ w.runs = fleet[i].runs
  <2>1. fleet[i] \in FleetRecords BY <1>1 DEF FleetShape
  <2>2. out \in Answers \cup {NoReport} /\ alive \in BOOLEAN BY <1>3, <1>4
  <2>3. w \in FleetRecords BY <2>1, <2>2 DEF FleetRecords
  <2> QED BY <2>1, <2>3 DEF FleetRecords
<1> HIDE DEF w
<1> QED BY <1>3, <1>4, <1>5, WorkerEnds DEF WorkerReturns, alive

LEMMA WorkerRaisesKeeps ==
  ASSUME ShardRunInv, NEW i \in Workers, WorkerRaises(i)
  PROVE  ShardRunInv'
<1>1. FleetShape OBVIOUS
<1>2. PICK alive \in BOOLEAN :
        fleet' = [fleet EXCEPT ![i].at = "finished", ![i].crashed = TRUE, ![i].alive = alive]
  BY DEF WorkerRaises
<1> DEFINE w == [fleet[i] EXCEPT !.at = "finished", !.crashed = TRUE, !.alive = alive]
<1>3. fleet' = [fleet EXCEPT ![i] = w] BY <1>1, <1>2 DEF FleetShape, FleetRecords
<1>4. /\ w \in FleetRecords /\ w.at = "finished" /\ w.crashed
      /\ w.tree = fleet[i].tree /\ w.runs = fleet[i].runs
  BY <1>1, <1>2 DEF FleetShape, FleetRecords
<1> HIDE DEF w
<1> QED BY <1>3, <1>4, WorkerEnds DEF WorkerRaises

LEMMA BoundaryUnprovenKeeps ==
  ASSUME ShardRunInv, NEW i \in Workers, BoundaryUnproven(i)
  PROVE  ShardRunInv'
<1>1. /\ run.stage = "poll" /\ i \in wave.done /\ run' = Forbid("poll")
      /\ fleet' = [fleet EXCEPT ![i].alive = TRUE] /\ UNCHANGED <<report, world>>
  BY DEF BoundaryUnproven, Taken, Dropped
<1>2. PICK t \in AnyIssues : t # <<>> /\ wave' = [Tell(t) EXCEPT !.done = @ \ {i}]
  BY KindIs DEF BoundaryUnproven, Dropped, Labels
<1>3. /\ WaveShape' /\ wave'.issues # <<>> /\ wave'.done = wave.done \ {i}
      /\ UNCHANGED <<wave.launched, wave.pending, wave.reports, wave.told>>
  BY <1>2, TellIs DEF WaveShape, WaveRecords
<1>4. /\ RunShape' /\ run'.stage = "poll" /\ ~run'.permitted /\ run'.stopping /\ ~run.interrupted
      /\ UNCHANGED <<run.phase, run.next, run.error, run.interrupted>>
  BY <1>1, ForbidIs DEF PhaseKnown
<1>5. /\ FleetShape' /\ (\A j \in Workers \ {i} : fleet'[j] = fleet[j])
      /\ fleet'[i].at = fleet[i].at /\ fleet'[i].runs = fleet[i].runs
      /\ fleet'[i].tree = fleet[i].tree
  BY <1>1 DEF FleetShape, FleetRecords
<1>6. /\ wave.launched \in Nat /\ wave.launched <= Len(Members)
      /\ wave.pending \cup wave.done \subseteq Launched /\ wave.pending \cap wave.done = {}
      /\ (\A j \in Unlaunched : Fresh(j)) /\ (\A j \in Launched : fleet[j].runs = 1)
      /\ \A j \in wave.done \cup Through : fleet[j].at = "finished"
  BY <1>1 DEF WaveKnown, WaveShape, WaveRecords
<1>7. /\ Crew \subseteq Workers /\ Crew = {Members[k] : k \in 1 .. Len(Members)}
      /\ Len(Members) \in 1 .. 2
  BY <1>1, CrewKnown
<1>8. Launched \subseteq Crew /\ Unlaunched \subseteq Crew /\ i \in Launched /\ ~Fresh(i)
  BY <1>1, <1>6, <1>7 DEF Launched, Unlaunched, Fresh
<1>9. Members' = Members /\ Launched' = Launched /\ Unlaunched' = Unlaunched
      /\ Through' \subseteq Through \cup {i} /\ Through \subseteq Through' /\ i \notin Through
  <2>1. Members' = Members BY <1>1, <1>4 DEF Members
  <2>2. Launched' = Launched /\ Unlaunched' = Unlaunched BY <1>3, <2>1 DEF Launched, Unlaunched
  <2> QED BY <1>1, <1>3, <2>1, <2>2 DEF Through
<1>10. WaveKnown'
  <2>1. \A j \in Unlaunched' : Fresh(j)'
    <3>1. \A j \in Workers \ {i} : Fresh(j) => Fresh(j)' BY <1>5 DEF Fresh
    <3> QED BY <1>6, <1>7, <1>8, <1>9, <3>1
  <2>2. \A j \in wave'.done \cup Through' : fleet'[j].at = "finished"
    <3>1. \A j \in Workers : fleet'[j].at = fleet[j].at BY <1>5
    <3> QED BY <1>1, <1>3, <1>6, <1>7, <1>8, <1>9, <3>1
  <2>3. \A j \in Launched' : fleet'[j].runs = 1
    <3>1. \A j \in Workers : fleet'[j].runs = fleet[j].runs BY <1>5
    <3> QED BY <1>6, <1>7, <1>8, <1>9, <3>1
  <2>4. /\ wave'.launched <= Len(Members)'
        /\ wave'.pending \cup wave'.done \subseteq Launched' /\ wave'.pending \cap wave'.done = {}
    BY <1>3, <1>6, <1>9
  <2> QED BY <1>3, <1>4, <2>1, <2>2, <2>3, <2>4 DEF WaveKnown
<1>11. AnswersKnown'
  <2>1. \A j \in wave'.pending \cup wave'.done :
          j \in Workers \ {i} /\ j \in wave.pending \cup wave.done
    BY <1>1, <1>3, <1>6, <1>7, <1>8
  <2>2. \A j \in wave.pending \cup wave.done :
          fleet[j].at = "finished" /\ ~fleet[j].crashed =>
            /\ fleet[j].out \in Answers /\ fleet[j].out.who = j
            /\ fleet[j].alive = ~fleet[j].out.quiescent
    BY <1>1 DEF AnswersKnown
  <2>3. \A rep \in wave.reports :
          /\ rep.who \in Through /\ rep = fleet[rep.who].out /\ ~fleet[rep.who].crashed
          /\ fleet[rep.who].alive = ~rep.quiescent
    BY <1>1 DEF AnswersKnown
  <2>4. \A j \in Through : j \in Workers \ {i} BY <1>7, <1>8, <1>9 DEF Through
  <2>5. \A j \in wave'.pending \cup wave'.done :
          fleet'[j].at = "finished" /\ ~fleet'[j].crashed =>
            /\ fleet'[j].out \in Answers /\ fleet'[j].out.who = j
            /\ fleet'[j].alive = ~fleet'[j].out.quiescent
    BY <1>5, <2>1, <2>2
  <2>6. \A rep \in wave'.reports :
          /\ rep.who \in Through' /\ rep = fleet'[rep.who].out /\ ~fleet'[rep.who].crashed
          /\ fleet'[rep.who].alive = ~rep.quiescent
    BY <1>3, <1>5, <1>9, <2>3, <2>4
  <2> QED BY <1>3, <1>4, <2>5, <2>6 DEF AnswersKnown
<1>12. /\ \A j \in Workers \ Crew : fleet'[j] = fleet[j]
       /\ \A j \in Crew : fleet'[j].tree = "present"
  <2>1. \A j \in Crew : fleet[j].tree = "present" BY <1>1 DEF FleetRests
  <2>2. \A j \in Workers : fleet'[j].tree = fleet[j].tree BY <1>5
  <2> QED BY <1>5, <1>7, <1>8, <2>1, <2>2
<1> QED BY <1>1, <1>3, <1>4, <1>5, <1>10, <1>11, <1>12, WaveGoesOn

LEMMA WorkspacesMaterializedKeeps ==
  ASSUME ShardRunInv, WorkspacesMaterialized
  PROVE  ShardRunInv'
<1>1. /\ run.stage = "materialize" /\ run' = Permit("submit") /\ UNCHANGED <<wave, report, world>>
      /\ fleet' = [i \in Workers |-> IF i \in Crew THEN [fleet[i] EXCEPT !.tree = "present"]
                                     ELSE fleet[i]]
  BY DEF WorkspacesMaterialized
<1>2. /\ RunShape' /\ run'.stage = "submit" /\ run'.permitted = TRUE /\ ~run.interrupted
      /\ UNCHANGED <<run.phase, run.next, run.stopping, run.error, run.interrupted>>
      /\ run.phase \in {"candidates", "control"} /\ run.next \in Nat \ {0}
      /\ report.jobs \in {1, 2}
  BY <1>1 DEF RunShape, Permit, Stages, PhaseKnown, ReportShape, ReportRecords
<1>3. /\ FleetShape' /\ (\A i \in Workers \ Crew : fleet'[i] = fleet[i])
      /\ \A i \in Workers : i \in Crew => fleet'[i].tree = "present"
      /\ \A i \in Workers : /\ fleet'[i].at = fleet[i].at /\ fleet'[i].runs = fleet[i].runs
                            /\ fleet'[i].alive = fleet[i].alive
                            /\ fleet'[i].crashed = fleet[i].crashed
  BY <1>1 DEF FleetShape, FleetRecords
<1>4. /\ Crew \subseteq Workers /\ Crew = {Members[k] : k \in 1 .. Len(Members)}
      /\ Len(Members) \in 1 .. 2
      /\ InControl => Crew = {0}
      /\ ~InControl => \A i \in Crew : i >= run.next
  BY <1>1, <1>2, CrewKnown
<1>5. (InControl' <=> InControl) /\ Members' = Members /\ Crew' = Crew
  <2>1. (InControl' <=> InControl) /\ Members' = Members BY <1>1, <1>2 DEF Members
  <2> QED BY <2>1 DEF Crew
<1>6. /\ \A i \in Workers : Resting(i)
      /\ \A i \in Crew : Fresh(i)
      /\ \A i \in Workers : Fresh(i) => Fresh(i)'
      /\ \A i \in Workers : Earned(i) => Earned(i)'
  <2>1. \A i \in Workers : Resting(i) BY <1>1 DEF FleetRests
  <2>2. InControl => \A i \in Crew : Fresh(i) BY <1>1, <1>4 DEF FreshKnown, ControlShard
  <2>3. ~InControl => \A i \in Crew : Fresh(i) BY <1>1, <1>2, <1>4 DEF FreshKnown
  <2>4. \A i \in Workers : Fresh(i) => Fresh(i)' BY <1>3 DEF Fresh
  <2>5. \A i \in Workers : Earned(i) => Earned(i)'
    <3>1. \A i \in Workers : fleet[i].tree # "none" => fleet'[i].tree # "none" BY <1>3
    <3> QED BY <1>3, <3>1 DEF Earned
  <2>6. \A i \in Crew : Fresh(i) BY <2>2, <2>3
  <2> QED BY <2>1, <2>4, <2>5, <2>6
<1>7. WaveShape' /\ ReportShape' /\ WorldShape'
  <2>1. ReportShape' BY <1>1, <1>2 DEF ReportShape, ReportRecords
  <2> QED BY <1>1, <2>1 DEF WaveShape, WorldShape
<1>8. PhaseKnown' /\ EndKnown' BY <1>1, <1>2 DEF PhaseKnown, EndKnown
<1>9. FleetRests'
  <2>1. \A i \in Workers \ Crew : Resting(i)' BY <1>3, <1>6 DEF Resting
  <2>2. \A i \in Workers : fleet'[i].tree = "removed" => Resting(i)' BY <1>3, <2>1
  <2> QED BY <1>2, <1>3, <1>4, <1>5, <2>1, <2>2 DEF FleetRests
<1>10. FreshKnown' /\ ShardsEarned' BY <1>1, <1>2, <1>6, WorkersAre DEF FreshKnown, ShardsEarned
<1>11. /\ wave.launched = 0 /\ wave.pending = {} /\ wave.done = {} /\ wave.reports = {}
       /\ wave.issues = <<>> /\ wave.told = FALSE
  BY <1>1 DEF WaveKnown, NoWave
<1>12. Launched' = {} /\ Through' = {} /\ Unlaunched' = Crew
  <2>1. Launched' = {} /\ Unlaunched' = Crew BY <1>1, <1>4, <1>5, <1>11 DEF Launched, Unlaunched
  <2> QED BY <2>1 DEF Through
<1>13. WaveKnown'
  <2>1. \A i \in Unlaunched' : Fresh(i)' BY <1>4, <1>6, <1>12
  <2>2. wave'.launched < Len(Members)' BY <1>1, <1>4, <1>5, <1>11
  <2> QED BY <1>1, <1>2, <1>4, <1>5, <1>11, <1>12, <2>1, <2>2 DEF WaveKnown
<1>14. AnswersKnown' BY <1>1, <1>11, <1>12 DEF AnswersKnown
<1> QED BY <1>2, <1>3, <1>7, <1>8, <1>9, <1>10, <1>13, <1>14

\* A directory is deleted with the trees in it.
LEMMA DeletedIs ==
  ASSUME FleetShape, NEW crew, fleet' = Deleted(crew)
  PROVE  /\ FleetShape'
         /\ \A i \in Workers :
              /\ fleet'[i].at = fleet[i].at /\ fleet'[i].runs = fleet[i].runs
              /\ fleet'[i].alive = fleet[i].alive /\ fleet'[i].crashed = fleet[i].crashed
              /\ fleet'[i].tree = (IF i \in crew /\ fleet[i].tree = "present" THEN "removed"
                                   ELSE fleet[i].tree)
              /\ Resting(i)' <=> Resting(i)
              /\ Fresh(i)' <=> Fresh(i)
              /\ Earned(i)' <=> Earned(i)
<1>1. /\ FleetShape'
      /\ \A i \in Workers :
           /\ fleet'[i].at = fleet[i].at /\ fleet'[i].runs = fleet[i].runs
           /\ fleet'[i].alive = fleet[i].alive /\ fleet'[i].crashed = fleet[i].crashed
           /\ fleet'[i].tree = (IF i \in crew /\ fleet[i].tree = "present" THEN "removed"
                                ELSE fleet[i].tree)
  BY DEF FleetShape, FleetRecords, Deleted
<1>2. \A i \in Workers : fleet'[i].tree = "none" <=> fleet[i].tree = "none" BY <1>1
<1>3. \A i \in Workers : Resting(i)' <=> Resting(i) BY <1>1, <1>2 DEF Resting
<1>4. \A i \in Workers : Fresh(i)' <=> Fresh(i) BY <1>1 DEF Fresh
<1>5. \A i \in Workers : Earned(i)' <=> Earned(i) BY <1>1, <1>2 DEF Earned
<1> QED BY <1>1, <1>3, <1>4, <1>5

LEMMA RemovalStartsKeeps ==
  ASSUME ShardRunInv, RemovalStarts
  PROVE  ShardRunInv'
<1>1. /\ run.stage = "unbatch" /\ run.permitted /\ run' = Revoke("removing")
      /\ fleet' = Deleted(Crew) /\ UNCHANGED <<wave, report, world>>
  BY DEF RemovalStarts
<1>2. /\ RunShape' /\ run'.stage = "removing" /\ ~run'.permitted /\ ~run.interrupted
      /\ UNCHANGED <<run.phase, run.next, run.stopping, run.error, run.interrupted>>
      /\ run.phase \in {"candidates", "control"} /\ run.next \in Nat \ {0}
      /\ report.jobs \in {1, 2}
  BY <1>1 DEF RunShape, Revoke, Stages, PhaseKnown, ReportShape, ReportRecords
<1>3. /\ FleetShape'
      /\ \A i \in Workers : /\ Resting(i)' <=> Resting(i)
                            /\ Fresh(i)' <=> Fresh(i)
                            /\ Earned(i)' <=> Earned(i)
  BY <1>1, DeletedIs
<1>4. WaveShape' /\ ReportShape' /\ WorldShape'
  <2>1. ReportShape' BY <1>1, <1>2 DEF ReportShape, ReportRecords
  <2> QED BY <1>1, <2>1 DEF WaveShape, WorldShape
<1>5. PhaseKnown' /\ WaveKnown' /\ AnswersKnown' /\ EndKnown'
  BY <1>1, <1>2 DEF PhaseKnown, WaveKnown, AnswersKnown, EndKnown
<1>6. FleetRests'
  <2>1. \A i \in Workers : Resting(i)' BY <1>1, <1>3 DEF FleetRests
  <2> QED BY <1>2, <2>1 DEF FleetRests
<1>7. FreshKnown' /\ ShardsEarned' BY <1>1, <1>2, <1>3, WorkersAre DEF FreshKnown, ShardsEarned
<1> QED BY <1>2, <1>3, <1>4, <1>5, <1>6, <1>7

LEMMA RunConcludesKeeps ==
  ASSUME ShardRunInv, RunConcludes
  PROVE  ShardRunInv'
<1>1. PICK removed \in {FALSE, run.permitted} :
        /\ world' = [world EXCEPT !.root = IF removed THEN "removed" ELSE "retained"]
        /\ report' = IF run.interrupted THEN report ELSE Concluded(removed)
  BY DEF RunConcludes
<1>2. /\ run.stage = "unroot" /\ UNCHANGED wave
      /\ run' = Goto(IF run.interrupted THEN "raised" ELSE "done")
      /\ fleet' = IF run.permitted THEN Deleted(Workers) ELSE fleet
  BY DEF RunConcludes
<1>3. /\ RunShape' /\ run'.stage = (IF run.interrupted THEN "raised" ELSE "done")
      /\ UNCHANGED <<run.phase, run.next, run.permitted, run.stopping, run.error, run.interrupted>>
      /\ run.permitted \in BOOLEAN /\ removed \in BOOLEAN /\ (removed => run.permitted)
  BY <1>1, <1>2 DEF RunShape, Goto, Stages
<1>4. /\ FleetShape'
      /\ \A i \in Workers : /\ Resting(i)' <=> Resting(i)
                            /\ Earned(i)' <=> Earned(i)
                            /\ fleet'[i].tree = "removed" => Resting(i)
                            /\ Earned(i) /\ run.permitted =>
                                 /\ fleet'[i].runs = 1 /\ ~fleet'[i].alive /\ ~fleet'[i].crashed
                                 /\ fleet'[i].tree = "removed"
  <2>1. CASE run.permitted
    <3>1. fleet' = Deleted(Workers) BY <1>2, <2>1
    <3>2. \A i \in Workers : Resting(i) /\ fleet[i].tree \in {"none", "present", "removed"}
      BY <1>2, <2>1 DEF FleetRests, FleetShape, FleetRecords
    <3>3. \A i \in Workers :
            /\ fleet'[i].runs = fleet[i].runs
            /\ fleet'[i].alive = fleet[i].alive /\ fleet'[i].crashed = fleet[i].crashed
            /\ fleet'[i].tree = (IF fleet[i].tree = "present" THEN "removed" ELSE fleet[i].tree)
            /\ Resting(i)' <=> Resting(i)
            /\ Earned(i)' <=> Earned(i)
      BY <3>1, DeletedIs
    <3>4. FleetShape' BY <3>1, DeletedIs
    <3> QED BY <3>2, <3>3, <3>4 DEF Earned
  <2>2. CASE ~run.permitted BY <1>2, <2>2 DEF FleetShape, FleetRests, Resting, Earned
  <2> QED BY <2>1, <2>2
<1>5. /\ WorldShape' /\ world'.root = (IF removed THEN "removed" ELSE "retained")
      /\ UNCHANGED <<world.expired, world.drifted, world.probe, world.batch>>
  BY <1>1 DEF WorldShape, Directories
<1>6. /\ report' \in ReportRecords(report'.issues)
      /\ UNCHANGED <<report.shards, report.executed, report.control, report.qualify>>
      /\ report'.qualified => report.qualified
      /\ report'.eligible => report.eligible
      /\ report'.eligible => report'.issues = report.issues
      /\ report'.ok => report.ok \/ (/\ ~run.interrupted /\ removed /\ run.error = "none"
                                     /\ report'.eligible /\ report'.issues = <<>>
                                     /\ report.qualify => report'.qualified)
  <2>0. report \in ReportRecords(report.issues) BY DEF ReportShape
  <2>1. CASE run.interrupted BY <1>1, <2>0, <2>1
  <2>2. CASE ~run.interrupted
    <3> DEFINE ended == IF run.error = "none" THEN report ELSE Failed(report, run.error)
               owed == IF removed THEN ended
                       ELSE [Publish(ended, Kind("validation_cleanup_failed")) EXCEPT
                              !.eligible = FALSE, !.qualified = FALSE,
                              !.status = IF report.qualify THEN "cleanup_failed" ELSE @]
    <3>1. report' = [owed EXCEPT !.ok = /\ owed.eligible /\ owed.issues = <<>>
                                        /\ owed.qualify => owed.qualified]
      BY <1>1, <2>2 DEF Concluded
    <3>2. /\ ended \in ReportRecords(ended.issues)
          /\ ended.shards = report.shards /\ ended.executed = report.executed
          /\ ended.control = report.control /\ ended.qualify = report.qualify
          /\ ended.eligible => report.eligible /\ run.error = "none" /\ ended.issues = report.issues
          /\ ended.qualified => report.qualified
      <4> DEFINE issues == report.issues \o Kind(run.error)
                 result == IF report.qualify THEN "infrastructure_failed" ELSE report.status
      <4>1. CASE run.error = "none" BY <2>0, <4>1
      <4>2. CASE run.error # "none"
        <5>1. ended = [[report EXCEPT !.issues = issues] EXCEPT
                         !.ok = FALSE, !.eligible = FALSE, !.qualified = FALSE, !.status = result]
          BY <2>0, <4>2 DEF Failed, Publish, ReportRecords
        <5>2. result \in Statuses \cup {"pending"} BY <2>0 DEF ReportRecords, Statuses
        <5> HIDE DEF ended, issues, result
        <5> QED BY <2>0, <5>1, <5>2 DEF ReportRecords
      <4> QED BY <4>1, <4>2
    <3> HIDE DEF ended
    <3>3. /\ owed \in ReportRecords(owed.issues)
          /\ owed.shards = report.shards /\ owed.executed = report.executed
          /\ owed.control = report.control /\ owed.qualify = report.qualify
          /\ owed.eligible =>
               removed /\ report.eligible /\ run.error = "none" /\ owed.issues = report.issues
          /\ owed.qualified => report.qualified
      <4> DEFINE issues == ended.issues \o Kind("validation_cleanup_failed")
                 result == IF report.qualify THEN "cleanup_failed" ELSE ended.status
      <4>1. CASE removed BY <3>2, <4>1
      <4>2. CASE ~removed
        <5>1. owed = [[ended EXCEPT !.issues = issues] EXCEPT
                        !.eligible = FALSE, !.qualified = FALSE, !.status = result]
          BY <3>2, <4>2 DEF Publish, ReportRecords
        <5>2. result \in Statuses \cup {"pending"} BY <3>2 DEF ReportRecords, Statuses
        <5> HIDE DEF owed, issues, result
        <5> QED BY <3>2, <5>1, <5>2 DEF ReportRecords
      <4> QED BY <4>1, <4>2
    <3> DEFINE ok == /\ owed.eligible /\ owed.issues = <<>>
                     /\ owed.qualify => owed.qualified
    <3>4. report' = [owed EXCEPT !.ok = ok] /\ ok \in BOOLEAN BY <3>1, <3>3 DEF ReportRecords
    <3>5. ok => /\ owed.eligible /\ owed.issues = <<>>
                /\ owed.qualify => owed.qualified
      OBVIOUS
    <3> HIDE DEF owed, ok
    <3>6. /\ report' \in ReportRecords(report'.issues) /\ report'.issues = owed.issues
          /\ report'.shards = owed.shards /\ report'.executed = owed.executed
          /\ report'.control = owed.control /\ report'.qualify = owed.qualify
          /\ report'.eligible = owed.eligible /\ report'.qualified = owed.qualified
          /\ report'.ok = ok
      BY <3>3, <3>4 DEF ReportRecords
    <3> QED BY <2>2, <3>3, <3>5, <3>6
  <2> QED BY <2>1, <2>2
<1>7. ReportShape' BY <1>3, <1>6 DEF ReportShape
<1>8. WaveShape' /\ PhaseKnown' BY <1>2, <1>3 DEF WaveShape, PhaseKnown
<1>9. FleetRests' /\ FreshKnown' BY <1>3, <1>4 DEF FleetRests, FreshKnown
<1>10. WaveKnown' /\ AnswersKnown'
  <2>1. run'.stage \in {"done", "raised"} BY <1>3
  <2> QED BY <1>2, <2>1 DEF WaveKnown, AnswersKnown
<1>11. ShardsEarned' BY <1>3, <1>4, <1>6, WorkersAre DEF ShardsEarned
<1>12. EndKnown'
  <2>1. report'.ok => run'.stage = "done" /\ OkIsEarned'
    <3> SUFFICES ASSUME report'.ok PROVE run'.stage = "done" /\ OkIsEarned' OBVIOUS
    <3>1. /\ ~run.interrupted /\ removed /\ run.permitted /\ run.error = "none"
          /\ report'.eligible /\ report'.issues = <<>>
          /\ report.qualify => report'.qualified
      BY <1>2, <1>3, <1>6 DEF EndKnown
    <3>2. \A i \in 1 .. ShardCount : Earned(i) BY <1>6, <3>1, WorkersAre DEF ShardsEarned
    <3>3. report.qualify => Earned(ControlShard) BY <1>6, <3>1 DEF ShardsEarned
    <3>4. ~world.drifted /\ world.probe = "quiet" BY <1>2, <1>6, <3>1 DEF EndKnown
    <3>5. \A i \in Workers : i # ControlShard \/ report.qualify => Earned(i)
      BY <3>2, <3>3, WorkersAre
    <3> QED BY <1>3, <1>4, <1>5, <1>6, <3>1, <3>4, <3>5 DEF OkIsEarned
  <2>2. world'.root = "removed" => world'.probe # "live" BY <1>3, <1>5 DEF EndKnown
  <2> QED BY <1>2, <1>3, <1>5, <1>6, <2>1, <2>2 DEF EndKnown
<1> QED BY <1>3, <1>4, <1>5, <1>7, <1>8, <1>9, <1>10, <1>11, <1>12

LEMMA OneOrTwo ==
  ASSUME NEW n \in 1 .. 2
  PROVE  (n = 1 \/ n = 2) /\ \A k \in 1 .. n : k = 1 \/ (n = 2 /\ k = 2)
OBVIOUS

\* The reports of at most two workers, each with one report, in the order of the workers.
LEMMA ReportsInOrder ==
  ASSUME NEW R, NEW n, NEW m, NEW f, Rows(R, n, m, f)
  PROVE  Sorted(InOrder(R), R, n, m)
<1>f. /\ R \in SUBSET Answers /\ n \in 1 .. 2
      /\ \A k \in 1 .. n : m[k] \in Int
      /\ n = 2 => m[1] < m[2]
      /\ \A rep \in R : rep = f[rep.who] /\ \E k \in 1 .. n : rep.who = m[k]
  BY DEF Rows
<1> DEFINE a == f[m[1]]
           b == f[m[2]]
           s == InOrder(R)
<1>0. (n = 1 \/ n = 2) /\ \A k \in 1 .. n : k = 1 \/ (n = 2 /\ k = 2) BY <1>f, OneOrTwo
<1>1. ASSUME NEW rep \in R
      PROVE  \/ rep = a /\ rep.who = m[1]
             \/ n = 2 /\ rep = b /\ rep.who = m[2]
  <2>1. PICK k \in 1 .. n : rep.who = m[k] BY <1>f, <1>1
  <2>2. rep = f[rep.who] BY <1>f, <1>1
  <2>3. k = 1 \/ (n = 2 /\ k = 2) BY <1>0, <2>1
  <2> QED BY <2>1, <2>2, <2>3
<1> SUFFICES /\ s \in Seq(Answers)
             /\ s # <<>> => s[1] \in R
             /\ (\A k \in 1 .. n : \E rep \in R : rep.who = m[k]) =>
                  /\ Len(s) = n
                  /\ \A k \in 1 .. n : s[k] \in R /\ s[k].who = m[k]
  BY DEF Sorted
<1> HIDE DEF a, b
<1>2. CASE R = {}
  <2>1. s = <<>> /\ <<>> \in Seq(Answers) BY <1>2, SortedNone
  <2>2. ~\A k \in 1 .. n : \E rep \in R : rep.who = m[k] BY <1>0, <1>2
  <2> QED BY <2>1, <2>2
<1>3. CASE R # {} /\ \A rep \in R : rep = a /\ rep.who = m[1]
  <2>1. R = {a} /\ a \in R /\ a \in Answers /\ a.who = m[1] BY <1>f, <1>3
  <2>2. s = <<a>> BY <2>1, SortedOne
  <2>6. <<a>> \in Seq(Answers) /\ Len(<<a>>) = 1 /\ <<a>>[1] = a BY <2>1
  <2> HIDE DEF s
  <2>3. s \in Seq(Answers) /\ Len(s) = 1 /\ s[1] = a BY <2>2, <2>6
  <2>4. (\A k \in 1 .. n : \E rep \in R : rep.who = m[k]) => n = 1 BY <1>f, <1>0, <1>3
  <2>5. n = 1 => \A k \in 1 .. n : k = 1 OBVIOUS
  <2> QED BY <2>1, <2>3, <2>4, <2>5
<1>4. CASE n = 2 /\ R # {} /\ \A rep \in R : rep = b /\ rep.who = m[2]
  <2>1. R = {b} /\ b \in R /\ b \in Answers /\ b.who = m[2] BY <1>f, <1>4
  <2>2. s = <<b>> BY <2>1, SortedOne
  <2>6. <<b>> \in Seq(Answers) /\ Len(<<b>>) = 1 /\ <<b>>[1] = b BY <2>1
  <2> HIDE DEF s
  <2>3. s \in Seq(Answers) /\ Len(s) = 1 /\ s[1] = b BY <2>2, <2>6
  <2>4. ~\A k \in 1 .. n : \E rep \in R : rep.who = m[k] BY <1>f, <1>4
  <2> QED BY <2>1, <2>3, <2>4
<1>5. CASE /\ n = 2
           /\ \E rep \in R : rep = a /\ rep.who = m[1]
           /\ \E rep \in R : rep = b /\ rep.who = m[2]
  <2>1. /\ R = {a, b} /\ a \in R /\ b \in R /\ a \in Answers /\ b \in Answers
        /\ a.who = m[1] /\ b.who = m[2]
    BY <1>f, <1>1, <1>5
  <2>2. s = <<a, b>>
    <3>1. a.who \in Int /\ b.who \in Int /\ a.who < b.who BY <1>f, <1>5, <2>1
    <3> QED BY <2>1, <3>1, SortedTwo
  <2>5. <<a, b>> \in Seq(Answers) /\ Len(<<a, b>>) = 2 /\ <<a, b>>[1] = a /\ <<a, b>>[2] = b
    BY <2>1
  <2> HIDE DEF s
  <2>3. s \in Seq(Answers) /\ Len(s) = 2 /\ s[1] = a /\ s[2] = b BY <2>2, <2>5
  <2>4. \A k \in 1 .. n : k = 1 \/ k = 2 BY <1>0
  <2> QED BY <1>5, <2>1, <2>3, <2>4
<1> QED BY <1>1, <1>2, <1>3, <1>4, <1>5

LEMMA JoinedAt ==
  ASSUME NEW S, NEW s \in Seq(S), NEW r \in Seq(S), NEW k \in Len(s) + 1 .. Len(s) + Len(r)
  PROVE  (s \o r)[k] = r[k - Len(s)]
OBVIOUS

\* The wave hands over what it has.
LEMMA WaveReturnsKeeps ==
  ASSUME ShardRunInv, WaveReturns
  PROVE  ShardRunInv'
<1> DEFINE rows == InOrder(wave.reports)
           scoped == [k \in DOMAIN wave.issues |->
                         ControlEvidence(wave.issues[k].kind, wave.issues[k].who)]
<1>1. /\ run.stage = "drain" /\ ~run.interrupted /\ (\A i \in Crew : fleet[i].at # "running")
      /\ fleet' = [i \in Workers |-> [fleet[i] EXCEPT !.out = NoReport]]
      /\ wave' = NoWave /\ UNCHANGED world
  BY DEF WaveReturns, Drained
<1>2. /\ InControl =>
           /\ report' = [Publish(report, scoped) EXCEPT !.control = rows]
           /\ run' = IF run.stopping THEN Goto("unbatch") ELSE Revoke("source")
      /\ ~InControl =>
           /\ report' = [Publish(report, wave.issues) EXCEPT
                           !.shards = @ \o rows, !.executed = @ + wave.launched]
           /\ run' = Goto("unbatch")
  BY DEF WaveReturns
<1>3. /\ Len(Members) \in 1 .. 2 /\ Crew \subseteq Workers
      /\ Crew = {Members[k] : k \in 1 .. Len(Members)}
      /\ \A k \in 1 .. Len(Members) : Members[k] \in Workers
      /\ InControl => Len(Members) = 1 /\ Members[1] = 0 /\ Crew = {0}
      /\ ~InControl =>
           /\ run.next <= ShardCount /\ run.next \in Nat \ {0}
           /\ \A k \in 1 .. Len(Members) : Members[k] = run.next + k - 1
           /\ Crew \subseteq 1 .. ShardCount
           /\ \/ Len(Members) = report.jobs
              \/ Len(Members) < report.jobs /\ run.next + Len(Members) = ShardCount + 1
  BY <1>1, CrewKnown
<1>4. /\ FleetShape'
      /\ \A i \in Workers :
           /\ fleet'[i].at = fleet[i].at /\ fleet'[i].runs = fleet[i].runs
           /\ fleet'[i].alive = fleet[i].alive /\ fleet'[i].crashed = fleet[i].crashed
           /\ fleet'[i].tree = fleet[i].tree
  BY <1>1 DEF FleetShape, FleetRecords
<1>5. \A i \in Workers : /\ Resting(i)' <=> Resting(i)
                         /\ Fresh(i)' <=> Fresh(i)
                         /\ Earned(i)' <=> Earned(i)
  BY <1>4 DEF Resting, Fresh, Earned
<1>6. /\ wave.launched \in Nat /\ wave.launched <= Len(Members) /\ wave.issues \in AnyIssues
      /\ wave.reports \subseteq Answers
      /\ (\A i \in Launched : fleet[i].runs = 1) /\ (\A i \in Through : fleet[i].at = "finished")
      /\ \A i \in Crew : fleet[i].tree = "present"
      /\ \A i \in Workers \ Crew : Resting(i)
  BY <1>1 DEF WaveKnown, WaveShape, WaveRecords, FleetRests
<1>7. Launched \subseteq Crew /\ Through \subseteq Launched BY <1>3, <1>6 DEF Launched, Through
<1>8. run.permitted \/ ~run.stopping \/ wave.issues = <<>> =>
        wave.launched = Len(Members) /\ Through = Crew
  <2>1. run.permitted \/ ~run.stopping \/ wave.issues = <<>> =>
          wave.launched = Len(Members) /\ wave.pending \cup wave.done = {}
    BY <1>1 DEF WaveKnown
  <2> QED BY <1>3, <2>1 DEF Through, Launched
<1>9. run.permitted \/ ~run.stopping => \A i \in Workers : Resting(i)
  <2>1. run.permitted \/ ~run.stopping => \A i \in Through : ~fleet[i].alive
    BY <1>1 DEF AnswersKnown
  <2> QED BY <1>6, <1>8, <2>1 DEF Resting
<1>10. \A rep \in wave.reports :
         /\ rep.who \in Crew /\ rep = fleet[rep.who].out
         /\ rep.ok => Earned(rep.who)
  <2> SUFFICES ASSUME NEW rep \in wave.reports
               PROVE  /\ rep.who \in Crew /\ rep = fleet[rep.who].out
                      /\ rep.ok => Earned(rep.who)
    OBVIOUS
  <2>1. /\ rep.who \in Through /\ rep = fleet[rep.who].out /\ ~fleet[rep.who].crashed
        /\ fleet[rep.who].alive = ~rep.quiescent
    BY <1>1 DEF AnswersKnown
  <2>2. rep \in Answers /\ (rep.ok => rep.quiescent) BY <1>6, AnswerIs
  <2>3. rep.who \in Crew /\ fleet[rep.who].runs = 1 /\ fleet[rep.who].at = "finished"
        /\ fleet[rep.who].tree = "present"
    BY <1>6, <1>7, <2>1
  <2> QED BY <2>1, <2>2, <2>3 DEF Earned
<1>11. /\ rows \in Seq(Answers) /\ (rows # <<>> => rows[1] \in wave.reports)
       /\ wave.issues = <<>> =>
            /\ Len(rows) = Len(Members)
            /\ \A k \in 1 .. Len(Members) : rows[k] \in wave.reports /\ rows[k].who = Members[k]
  <2> DEFINE f == [i \in Workers |-> fleet[i].out]
             m == Members
             n == Len(m)
  <2>1. n \in 1 .. 2 /\ (\A k \in 1 .. n : m[k] \in Int) /\ (n = 2 => m[1] < m[2])
    BY <1>3, WorkersAre
  <2>2. \A rep \in wave.reports : rep = f[rep.who] /\ \E k \in 1 .. n : rep.who = m[k]
    BY <1>3, <1>10
  <2>3. wave.issues = <<>> => \A k \in 1 .. n : \E rep \in wave.reports : rep.who = m[k]
    <3>1. wave.issues = <<>> =>
            \A i \in Crew : fleet[i].out \in wave.reports /\ fleet[i].out.who = i
      BY <1>1, <1>8 DEF AnswersKnown
    <3> QED BY <1>3, <3>1
  <2>5. wave.reports \in SUBSET Answers BY <1>6
  <2> HIDE DEF f, m, n
  <2>4. Rows(wave.reports, n, m, f) BY <2>1, <2>2, <2>5 DEF Rows
  <2>6. Sorted(rows, wave.reports, n, m) BY <2>4, ReportsInOrder
  <2> QED BY <2>3, <2>6 DEF Sorted, m, n
<1>12. scoped \in AnyIssues
  <2>0. "control_worker_failed" \in Labels BY DEF Labels
  <2>1. \A k \in DOMAIN wave.issues :
          ControlEvidence(wave.issues[k].kind, wave.issues[k].who) \in
            [kind : Labels, who : Int, cause : Labels]
    <3>1. \A k \in DOMAIN wave.issues :
            wave.issues[k] \in [kind : Labels, who : Int, cause : Labels]
      <4> DEFINE T == [kind : Labels, who : Int, cause : Labels]
      <4>1. wave.issues \in Seq(T) BY <1>6 DEF AnyIssues
      <4> HIDE DEF T
      <4>2. \A k \in DOMAIN wave.issues : wave.issues[k] \in T BY <4>1
      <4> QED BY <4>2 DEF T
    <3> QED BY <2>0, <3>1 DEF ControlEvidence
  <2>2. DOMAIN wave.issues = 1 .. Len(wave.issues) /\ Len(wave.issues) \in Nat
    BY <1>6 DEF AnyIssues
  <2> QED BY <2>1, <2>2 DEF AnyIssues
<1> HIDE DEF rows, scoped
<1>13. /\ RunShape' /\ run'.stage \in {"unbatch", "source"} /\ (run'.permitted => run.permitted)
       /\ run'.stage = "source" => InControl /\ ~run.stopping
       /\ UNCHANGED <<run.phase, run.next, run.stopping, run.error, run.interrupted>>
       /\ run.phase \in {"candidates", "control"} /\ run.next \in Nat \ {0}
  BY <1>1, <1>2, ZenonT(40) DEF RunShape, Goto, Revoke, Stages
<1>14. PICK t \in AnyIssues :
         /\ report'.issues = report.issues \o t
         /\ ~InControl => t = wave.issues
         /\ report' \in ReportRecords(report'.issues)
         /\ report'.shards = (IF InControl THEN report.shards ELSE report.shards \o rows)
         /\ report'.executed =
              (IF InControl THEN report.executed ELSE report.executed + wave.launched)
         /\ report'.control = (IF InControl THEN rows ELSE report.control)
         /\ UNCHANGED <<report.jobs, report.qualify, report.eligible, report.qualified, report.ok>>
  <2>0. /\ report \in ReportRecords(report.issues) /\ report.shards \in Seq(Answers)
        /\ report.executed \in Nat
    BY DEF ReportShape, ReportRecords
  <2>1. CASE InControl
    <3>1. report' = [Publish(report, scoped) EXCEPT !.control = rows] BY <1>2, <2>1
    <3>2. /\ report'.issues = report.issues \o scoped
          /\ report' \in ReportRecords(report'.issues)
          /\ report'.shards = report.shards /\ report'.executed = report.executed
          /\ report'.control = rows
          /\ UNCHANGED <<report.jobs, report.qualify, report.eligible, report.qualified, report.ok>>
      BY <1>11, <2>0, <3>1 DEF Publish, ReportRecords
    <3> QED BY <1>12, <2>1, <3>2
  <2>2. CASE ~InControl
    <3> DEFINE shards == report.shards \o rows
               executed == report.executed + wave.launched
    <3>1. shards \in Seq(Answers) /\ executed \in Nat BY <1>6, <1>11, <2>0
    <3>2. report' = [Publish(report, wave.issues) EXCEPT !.shards = shards, !.executed = executed]
      BY <1>2, <2>0, <2>2 DEF Publish, ReportRecords
    <3> HIDE DEF shards, executed
    <3>3. /\ report'.issues = report.issues \o wave.issues
          /\ report' \in ReportRecords(report'.issues)
          /\ report'.shards = shards /\ report'.executed = executed
          /\ report'.control = report.control
          /\ UNCHANGED <<report.jobs, report.qualify, report.eligible, report.qualified, report.ok>>
      BY <2>0, <3>1, <3>2 DEF Publish, ReportRecords
    <3> QED BY <1>6, <2>2, <3>3 DEF shards, executed
  <2> QED BY <2>1, <2>2
<1>15. report.issues \in AnyIssues =>
         /\ report'.issues \in AnyIssues
         /\ report'.issues = <<>> => report.issues = <<>> /\ t = <<>>
  BY <1>14, IssuesGrow
<1>16. Crew' = Crew /\ (InControl' <=> InControl)
  <2>1. Members' = Members /\ (InControl' <=> InControl) BY <1>13, <1>14 DEF Members
  <2> QED BY <2>1 DEF Crew
<1>17. ReportShape' /\ WorldShape' /\ WaveShape'
  <2>1. ReportShape' BY <1>1, <1>13, <1>14, <1>15 DEF ReportShape
  <2>2. WaveShape' BY <1>1, KindIs DEF WaveShape, WaveRecords, NoWave
  <2> QED BY <1>1, <2>1, <2>2 DEF WorldShape
<1>18. PhaseKnown' /\ WaveKnown' /\ AnswersKnown'
  BY <1>1, <1>13 DEF PhaseKnown, WaveKnown, AnswersKnown, NoWave
<1>19. FleetRests'
  <2>1. run'.stage = "source" \/ run'.permitted => \A i \in Workers : Resting(i)'
    BY <1>5, <1>9, <1>13
  <2>2. /\ \A i \in Workers \ Crew : Resting(i)'
        /\ \A i \in Crew : fleet'[i].tree = "present"
    BY <1>3, <1>4, <1>5, <1>6
  <2>3. \A i \in Workers : fleet'[i].tree = "removed" => Resting(i)'
    BY <1>4, <1>5 DEF FleetRests
  <2> QED BY <1>13, <1>16, <2>1, <2>2, <2>3 DEF FleetRests
<1>20. FreshKnown' BY <1>1, <1>5, <1>13, <1>14, WorkersAre DEF FreshKnown
<1>21. ShardsEarned'
  <2>1. CASE InControl
    <3>1. /\ ~Pending /\ ~Pending'
          /\ report'.shards = report.shards /\ report'.executed = report.executed
      BY <1>13, <1>14, <2>1
    <3>2. rows # <<>> /\ rows[1].ok => Earned(ControlShard)
      BY <1>3, <1>10, <1>11, <2>1 DEF ControlShard
    <3>3. report'.eligible => report.issues \in AnyIssues BY <1>14 DEF ReportShape
    <3> QED BY <1>5, <1>13, <1>14, <1>15, <2>1, <3>1, <3>2, <3>3, WorkersAre DEF ShardsEarned
  <2>2. CASE ~InControl
    <3>1. /\ run.phase = "candidates" /\ Pending /\ Pending' /\ ~report.eligible
          /\ report.control = <<>> /\ ~report.qualified /\ report.issues \in AnyIssues
      BY <1>1, <1>13, <2>2 DEF ShardsEarned, ReportShape
    <3>2. /\ report'.control = <<>> /\ ~report'.qualified /\ ~report'.eligible
          /\ run'.stage = "unbatch"
      BY <1>13, <1>14, <2>2, <3>1
    <3>3. ASSUME report'.issues = <<>>
          PROVE  /\ Len(report'.shards) = report'.executed /\ report'.executed <= ShardCount
                 /\ \A k \in 1 .. report'.executed :
                      report'.shards[k].who = k /\ (report'.shards[k].ok => Earned(k))
                 /\ \/ report'.executed = run.next - 1 + report.jobs
                    \/ report'.executed = ShardCount /\ run.next + report.jobs > ShardCount
      <4> DEFINE n == Len(Members)
      <4>1. report.issues = <<>> /\ wave.issues = <<>> BY <1>14, <1>15, <2>2, <3>1, <3>3
      <4>2. /\ Len(report.shards) = report.executed /\ report.executed = run.next - 1
            /\ \A k \in 1 .. report.executed :
                 report.shards[k].who = k /\ (report.shards[k].ok => Earned(k))
        BY <1>1, <1>3, <2>2, <3>1, <4>1, WorkersAre DEF ShardsEarned
      <4>3. /\ Len(rows) = n /\ wave.launched = n
            /\ \A k \in 1 .. n : rows[k] \in wave.reports /\ rows[k].who = Members[k]
        BY <1>8, <1>11, <4>1
      <4>4. /\ report'.shards = report.shards \o rows /\ report'.executed = run.next - 1 + n
            /\ report.shards \in Seq(Answers)
        BY <1>14, <2>2, <4>2, <4>3 DEF ReportShape, ReportRecords
      <4>5. run.next + n - 1 <= ShardCount /\ n \in 1 .. 2 /\ run.next \in Nat \ {0}
        <5>1. Members[n] \in Crew /\ Members[n] = run.next + n - 1
          <6>1. n \in 1 .. Len(Members) BY <1>3
          <6> HIDE DEF n
          <6> QED BY <1>3, <2>2, <6>1
        <5> QED BY <1>3, <2>2, <5>1, WorkersAre
      <4>6. Len(report'.shards) = report'.executed /\ report'.executed <= ShardCount
        BY <1>11, <4>2, <4>3, <4>4, <4>5, WorkersAre
      <4>7. ASSUME NEW k \in 1 .. report'.executed
            PROVE  report'.shards[k].who = k /\ (report'.shards[k].ok => Earned(k))
        <5>1. CASE k <= report.executed
          <6>1. k \in 1 .. Len(report.shards) /\ report'.shards[k] = report.shards[k]
            BY <1>11, <4>2, <4>4, <4>5, <5>1
          <6> QED BY <4>2, <5>1, <6>1
        <5>2. CASE k > report.executed
          <6> DEFINE j == k - report.executed
          <6>1. j \in 1 .. n /\ run.next + j - 1 = k BY <4>2, <4>4, <4>5, <5>2
          <6>2. report'.shards[k] = rows[j]
            <7>1. Len(report.shards) = report.executed /\ Len(rows) = n BY <4>2, <4>3
            <7>2. k \in Len(report.shards) + 1 .. Len(report.shards) + Len(rows)
              BY <4>2, <4>4, <4>5, <5>2, <7>1
            <7> QED BY <1>11, <4>4, <7>1, <7>2, JoinedAt
          <6> HIDE DEF j
          <6>3. Members[j] = k BY <1>3, <2>2, <6>1
          <6> QED BY <1>10, <4>3, <6>1, <6>2, <6>3
        <5> QED BY <4>2, <4>5, <5>1, <5>2
      <4>8. \/ report'.executed = run.next - 1 + report.jobs
            \/ report'.executed = ShardCount /\ run.next + report.jobs > ShardCount
        <5>1. report.jobs \in {1, 2} BY DEF ReportShape, ReportRecords
        <5> QED BY <1>3, <2>2, <4>4, <4>5, <5>1, WorkersAre
      <4> QED BY <4>6, <4>7, <4>8
    <3>4. \A k \in 1 .. ShardCount : Earned(k)' <=> Earned(k) BY <1>5, WorkersAre
    <3>5. UNCHANGED <<run.next, report.jobs>> BY <1>13, <1>14
    <3>6. report'.executed \in Nat BY <1>14 DEF ReportRecords
    <3> QED BY <3>1, <3>2, <3>3, <3>4, <3>5, <3>6, WorkersAre DEF ShardsEarned
  <2> QED BY <2>1, <2>2
<1>22. EndKnown' BY <1>1, <1>13, <1>14 DEF EndKnown
<1> QED BY <1>4, <1>13, <1>17, <1>18, <1>19, <1>20, <1>21, <1>22

LEMMA ShardRunStarts ==
  ASSUME ShardRunInit
  PROVE  ShardRunInv
<1>1. PICK jobs \in {1, 2}, qualify \in BOOLEAN : report = NewReport(jobs, qualify)
  BY DEF ShardRunInit
<1>2. /\ run = [stage |-> "setup", phase |-> "candidates", next |-> 1, permitted |-> TRUE,
                stopping |-> FALSE, error |-> "none", interrupted |-> FALSE]
      /\ fleet = [i \in Workers |-> [at |-> "idle", runs |-> 0, tree |-> "none",
                                     alive |-> FALSE, crashed |-> FALSE, out |-> NoReport]]
      /\ wave = NoWave
      /\ world = [expired |-> FALSE, drifted |-> FALSE, probe |-> "idle",
                  batch |-> "none", root |-> "none"]
  BY DEF ShardRunInit
<1>3. RunShape BY <1>2 DEF RunShape, Stages, ShardErrors
<1>4. FleetShape /\ \A i \in Workers : Resting(i) /\ Fresh(i)
  BY <1>2 DEF FleetShape, FleetRecords, Resting, Fresh
<1>5. WaveShape /\ WorldShape
  BY <1>2, KindIs DEF WaveShape, WaveRecords, NoWave, WorldShape, Directories
<1>6. /\ ReportShape /\ report.issues = <<>> /\ report.shards = <<>> /\ report.executed = 0
      /\ report.control = <<>> /\ ~report.eligible /\ ~report.qualified /\ ~report.ok
  <2>1. <<>> \in Seq(Answers) OBVIOUS
  <2> QED BY <1>1, <2>1, KindIs DEF NewReport, ReportShape, ReportRecords, Statuses
<1>7. PhaseKnown /\ FleetRests /\ FreshKnown
  BY <1>2, <1>4, WorkersAre DEF PhaseKnown, FleetRests, FreshKnown
<1>8. WaveKnown /\ AnswersKnown BY <1>2 DEF WaveKnown, AnswersKnown, NoWave
<1>9. ShardsEarned /\ EndKnown BY <1>2, <1>6, WorkersAre DEF ShardsEarned, EndKnown
<1> QED BY <1>3, <1>4, <1>5, <1>6, <1>7, <1>8, <1>9

LEMMA NothingMovesInRun ==
  ASSUME ShardRunInv, UNCHANGED <<run, fleet, wave, report, world>>
  PROVE  ShardRunInv'
<1>1. SameWorkers /\ SameCrew /\ FleetShape' /\ WaveShape' BY WorkersStay, CrewStays
<1>2. RunShape' /\ ReportShape' /\ WorldShape' BY DEF RunShape, ReportShape, WorldShape
<1>3. PhaseKnown' /\ FleetRests' /\ FreshKnown' BY <1>1 DEF PhaseKnown, FleetRests, FreshKnown
<1>4. WaveKnown' /\ AnswersKnown' /\ ShardsEarned' /\ EndKnown'
  BY <1>1 DEF WaveKnown, AnswersKnown, ShardsEarned, EndKnown, OkIsEarned
<1> QED BY <1>1, <1>2, <1>3, <1>4

LEMMA ShardRunMoves ==
  ASSUME ShardRunInv, [ShardRunNext]_shardVars
  PROVE  ShardRunInv'
<1>1. CASE UNCHANGED shardVars BY <1>1, NothingMovesInRun DEF shardVars
<1>2. CASE DeadlinePasses \/ SourceIsEdited \/ Interrupted
  BY <1>2, DeadlinePassesKeeps, SourceIsEditedKeeps, InterruptedKeeps
<1>3. CASE SetupFails \/ SetupBinds \/ RootFails \/ RootCreated
  BY <1>3, SetupFailsKeeps, SetupBindsKeeps, RootFailsKeeps, RootCreatedKeeps
<1>4. CASE ProbeStarts \/ ProbeIsQuiet \/ ProbeFails
  BY <1>4, ProbeStartsKeeps, ProbeIsQuietKeeps, ProbeProvesNothingKeeps, StageMovesKeep
<1>5. CASE ScheduleEnds \/ BatchNotAcquired \/ BatchAcquired
  BY <1>5, StageMovesKeep, BatchNotAcquiredKeeps, BatchAcquiredKeeps
<1>6. CASE WorkspacesMaterialized \/ MaterializationFails
  BY <1>6, WorkspacesMaterializedKeeps, MaterializationFailsKeeps
<1>7. CASE WorkerSubmitted \/ SubmitFails \/ WavePolled \/ WaitFails \/ WaveEnds
  BY <1>7, WorkerSubmittedKeeps, SubmitFailsKeeps, WavePolledKeeps, WaitFailsKeeps, StageMovesKeep
<1>8. CASE \E i \in Workers : \/ WorkerReturns(i) \/ WorkerRaises(i)
                              \/ TakeException(i) \/ ReportRetained(i) \/ ReportRejected(i)
                              \/ ReportTooLate(i) \/ BoundaryUnproven(i)
  <2>1. PICK i \in Workers : \/ WorkerReturns(i) \/ WorkerRaises(i)
                             \/ TakeException(i) \/ ReportRetained(i) \/ ReportRejected(i)
                             \/ ReportTooLate(i) \/ BoundaryUnproven(i)
    BY <1>8
  <2> QED
    BY <2>1, WorkerReturnsKeeps, WorkerRaisesKeeps, TakeExceptionKeeps, ReportRetainedKeeps,
       ReportRejectedKeeps, ReportTooLateKeeps, BoundaryUnprovenKeeps
<1>9. CASE WaveReturns \/ WaveUnwinds BY <1>9, WaveReturnsKeeps, StageMovesKeep
<1>10. CASE BatchRetained \/ RemovalStarts \/ BatchRemoved \/ RemovalFails
  BY <1>10, BatchRetainedKeeps, RemovalStartsKeeps, BatchRemovedKeeps, RemovalFailsKeeps
<1>11. CASE SourceMatches \/ SourceFails
  BY <1>11, StageMovesKeep, CandidatesSourceMatchesKeeps, ControlSourceFailsKeeps,
     CandidatesSourceFailsKeeps
<1>12. CASE Settled \/ ControlJudged \/ Compared
  BY <1>12, SettledKeeps, ControlJudgedKeeps, ComparedKeeps
<1>13. CASE ProofSkipped \/ ProofStarts \/ ProofPasses \/ ProofFails BY <1>13, StageMovesKeep
<1>14. CASE RunConcludes BY <1>14, RunConcludesKeeps
<1> QED BY <1>1, <1>2, <1>3, <1>4, <1>5, <1>6, <1>7, <1>8, <1>9, <1>10, <1>11, <1>12, <1>13,
     <1>14 DEF ShardRunNext

\* The invariant of gut_shard_run, from which the properties below follow.
THEOREM ShardRunInvariant == ShardRunSpec => []ShardRunInv
<1>1. ShardRunInit => ShardRunInv BY ShardRunStarts
<1>2. ShardRunInv /\ [ShardRunNext]_shardVars => ShardRunInv' BY ShardRunMoves
<1> QED BY <1>1, <1>2, PTL DEF ShardRunSpec

\* Of what ShardRunEarned asks of gut_shard_run, the two promises about the world: no
\* workspace is deleted under a thread or a process that may still write in it, and ok is
\* only said of a run whose every shard ran once, to its end, on the source that is still
\* there, and left nothing behind.
THEOREM RunDeletesAndClaimsSafely ==
  ShardRunSpec => [](RemovedOnlyWhenQuiet /\ OkIsEarned)
<1>1. ShardRunInv => RemovedOnlyWhenQuiet
  <2> SUFFICES ASSUME ShardRunInv PROVE RemovedOnlyWhenQuiet OBVIOUS
  <2>1. FleetRests /\ EndKnown OBVIOUS
  <2> QED BY <2>1 DEF FleetRests, EndKnown, Resting, RemovedOnlyWhenQuiet
<1>2. ShardRunInv => OkIsEarned BY DEF EndKnown, OkIsEarned
<1> QED BY <1>1, <1>2, ShardRunInvariant, PTL
=============================================================================
