------------------------------- MODULE MergeGate -------------------------------
(***************************************************************************)
(* validate_pr_gate_relay (src/tools/gf_repository_policy.py): after an    *)
(* edit of its title or text, a pull request may reuse the newest Full     *)
(* validation of its head and base.  The gate asks GitHub for the pull     *)
(* request, the workflow runs, the jobs of the newest run and the check    *)
(* run of its marker, and then for the pull request and the runs again,    *)
(* one request after the other, while commits are pushed, runs start, end  *)
(* and are started anew; it passes when two observations in a row agree.   *)
(*                                                                         *)
(* Only runs with the exact title are looked at (others are skipped by the *)
(* code), so a run is one of this pull request, head and base.  Malformed  *)
(* answers are API failures or refusals, and a deadline may have passed    *)
(* whenever the code asks.  A run that ended without success and one that  *)
(* is older than seven days are both "unusable", a marker that is not      *)
(* there and one that failed both "absent".                                *)
(***************************************************************************)
EXTENDS Integers, Sequences, FiniteSetsExt

CONSTANTS
  MaxStarts,  \* bound on the runs of this head and base and their new attempts
  MaxMoves,   \* bound on the changes of the pull request
  PageSize    \* runs that GitHub answers at once

ASSUME MergeGateAssumption ==
  MaxStarts \in Nat /\ MaxMoves \in Nat /\ PageSize \in Nat \ {0}

VARIABLES
  pull,   \* is it open, ready, and at the head and base of the call; its changes
  runs,   \* the runs in the order of their ids: what GitHub knows of them
  gate,   \* the locals of the relay
  shown   \* history: the epochs that were good when the pull request was last looked
          \* at again, and the time before

gateVars == <<pull, runs, gate, shown>>

Markers == {"absent", "pending", "success"}
Starts == 1 .. MaxStarts

\* started: when the last attempt was started; markers: the marker job of each attempt.
RunStates == [started : Starts, status : {"running", "success", "unusable"},
              markers : Seq(Markers)]

Epochs == [run : Starts, attempt : Starts, started : Starts]
NoEpoch == [run |-> 0, attempt |-> 0, started |-> 0]

Requests == {"pull", "runs", "jobs", "check", "pull_again", "runs_again"}

MergeGateInit ==
  /\ pull = [ready |-> TRUE, moves |-> 0]
  /\ runs = <<>>
  /\ gate = [at |-> "pull", list |-> <<>>, total |-> 0, page |-> 1, epoch |-> NoEpoch,
             seen |-> "pending", stable |-> NoEpoch, result |-> "none"]
  /\ shown = [now |-> {}, before |-> {}]

MergeGateTypeOK ==
  /\ pull \in [ready : BOOLEAN, moves : 0 .. MaxMoves]
  /\ runs \in Seq(RunStates) /\ Len(runs) <= MaxStarts
  /\ gate.at \in Requests \cup {"judge", "ended"}
  /\ \A n \in DOMAIN gate.list : gate.list[n].run \in Starts
  /\ gate.total \in 0 .. MaxStarts /\ gate.page \in 1 .. MaxStarts + 1
  /\ gate.epoch \in Epochs \cup {NoEpoch} /\ gate.stable \in Epochs \cup {NoEpoch}
  /\ gate.seen \in {"success", "pending", "failure"}
  /\ gate.result \in {"none", "passed", "refused"}
  /\ shown.now \subseteq Epochs /\ shown.before \subseteq Epochs

-----------------------------------------------------------------------------
\* GitHub, and those who work on the pull request.
Attempt(r) == Len(runs[r].markers)
NextStart == 1 + Max({0} \cup {runs[r].started : r \in DOMAIN runs})

\* A push, a draft, a close, or the way back.
PullMoves ==
  /\ pull.moves < MaxMoves
  /\ pull' = [ready |-> ~pull.ready, moves |-> pull.moves + 1]
  /\ UNCHANGED <<runs, gate>>

RunStarts ==
  /\ NextStart <= MaxStarts
  /\ runs' = Append(runs, [started |-> NextStart, status |-> "running",
                           markers |-> <<"absent">>])
  /\ UNCHANGED <<pull, gate>>

RunsAgain(r) ==
  /\ runs[r].status # "running" /\ NextStart <= MaxStarts
  /\ runs' = [runs EXCEPT ![r] = [started |-> NextStart, status |-> "running",
                                  markers |-> Append(@.markers, "absent")]]
  /\ UNCHANGED <<pull, gate>>

\* The whole run may end before GitHub tells that its marker job did.
RunEnds(r) ==
  /\ runs[r].status = "running"
  /\ \/ runs' = [runs EXCEPT ![r].status = "unusable"]
     \/ \E marker \in Markers :
          runs' = [runs EXCEPT ![r].status = "success", ![r].markers[Attempt(r)] = marker]
  /\ UNCHANGED <<pull, gate>>

MarkerEnds(r) ==
  /\ runs[r].markers[Attempt(r)] = "pending"
  /\ \E marker \in {"success", "absent"} :
       runs' = [runs EXCEPT ![r].markers[Attempt(r)] = marker]
  /\ UNCHANGED <<pull, gate>>

GrowsOld(r) ==
  /\ runs[r].status = "success"
  /\ runs' = [runs EXCEPT ![r].status = "unusable"]
  /\ UNCHANGED <<pull, gate>>

-----------------------------------------------------------------------------
\* What an observation is, for the loop to judge.
Sees(seen) ==
  gate' = [gate EXCEPT !.at = "judge", !.seen = seen, !.list = <<>>, !.total = 0, !.page = 1,
             !.epoch = IF seen = "success" THEN @ ELSE NoEpoch]

\* relay_github_request: an error, a malformed answer, or no time is left.
RequestFails ==
  /\ gate.at \in Requests
  /\ Sees("pending")
  /\ UNCHANGED <<pull, runs>>

Asks(request) == gate.at = request /\ UNCHANGED <<pull, runs>>

\* audit_relay_pull_snapshot, at the start and again at the end.
ReadPull(request, next) ==
  /\ Asks(request)
  /\ IF pull.ready
     THEN gate' = [gate EXCEPT !.at = next]
     ELSE Sees("failure")

\* fetch_paginated_github_collection: the page of the runs, the newest run first.
Page(k) ==
  LET left == Len(runs) - (k - 1) * PageSize
  IN  [n \in 1 .. Min({PageSize, Max({left, 0})}) |->
         LET r == left - n + 1
         IN  [run |-> r, attempt |-> Attempt(r), started |-> runs[r].started,
              status |-> runs[r].status]]

TotalCount == IF gate.page = 1 THEN Len(runs) ELSE gate.total
Items == gate.list \o Page(gate.page)

Consistent ==
  /\ Len(runs) = TotalCount
  /\ gate.page * PageSize >= TotalCount =>
       Len(Items) = TotalCount /\ Cardinality({Items[n].run : n \in DOMAIN Items}) = TotalCount

\* select_latest_full_validation_epoch
Latest == Items[CHOOSE n \in DOMAIN Items :
                  \A m \in DOMAIN Items : Items[m].started <= Items[n].started]
EpochOf(item) == [run |-> item.run, attempt |-> item.attempt, started |-> item.started]

Selected ==
  IF Items = <<>> THEN "pending"
  ELSE IF Latest.status = "unusable" THEN "failure" ELSE "success"

\* A page that is not the last is kept; the last one is judged by Select.
ReadPage(request, Select) ==
  /\ Asks(request) /\ Consistent
  /\ IF gate.page * PageSize < TotalCount
     THEN gate' = [gate EXCEPT !.list = Items, !.total = TotalCount, !.page = @ + 1]
     ELSE IF Selected # "success" THEN Sees(Selected) ELSE Select

ReadRuns ==
  ReadPage("runs",
    IF Latest.status = "success"
    THEN gate' = [gate EXCEPT !.at = "jobs", !.epoch = EpochOf(Latest),
                              !.list = <<>>, !.total = 0, !.page = 1]
    ELSE Sees("pending"))

\* The marker job of the attempt, with audit_full_validation_marker_job.
ReadJobs ==
  /\ Asks("jobs")
  /\ LET marker == runs[gate.epoch.run].markers[gate.epoch.attempt]
     IN  CASE marker = "success" -> gate' = [gate EXCEPT !.at = "check"]
           [] marker = "pending" -> Sees("pending")
           [] OTHER -> Sees("failure")

\* audit_full_validation_check_run: it agrees with the job, or not.
ReadCheck ==
  /\ Asks("check")
  /\ gate' = [gate EXCEPT !.at = "pull_again"] \/ Sees("failure")

\* The newest run is taken again, whatever the first list said.
FaultReadRunsAgain ==
  ReadPage("runs_again",
    Sees("success"))

ReadRunsAgain ==
  ReadPage("runs_again",
    IF EpochOf(Latest) = gate.epoch /\ Latest.status = "success"
    THEN Sees("success") ELSE Sees("pending"))

-----------------------------------------------------------------------------
Refused == gate' = [gate EXCEPT !.at = "ended", !.result = "refused"]

\* The rest of the loop, with advance_relay_stability: a second observation that is
\* equal passes unless the time for requests is over, and any other one is followed
\* by the next unless the time for polls is.
Judge ==
  /\ gate.at = "judge"
  /\ \/ Refused
     \/ /\ gate.seen # "failure"
        /\ gate' = IF gate.seen = "success" /\ gate.stable = gate.epoch
                   THEN [gate EXCEPT !.at = "ended", !.result = "passed"]
                   ELSE [gate EXCEPT !.at = "pull", !.epoch = NoEpoch, !.stable =
                           IF gate.seen = "success" THEN gate.epoch ELSE NoEpoch]
  /\ UNCHANGED <<pull, runs>>

\* What is good now: the newest epoch, whole and of the pull request as it is.
GoodEpochs ==
  {[run |-> r, attempt |-> Attempt(r), started |-> runs[r].started] : r \in
     {r \in DOMAIN runs :
        /\ pull.ready /\ runs[r].status = "success"
        /\ runs[r].markers[Attempt(r)] = "success"
        /\ \A q \in DOMAIN runs : runs[q].started <= runs[r].started}}

\* The moment at which the pull request is found as it should be for the second time;
\* what an observation leaves that does not count is forgotten.
Remembered ==
  shown' = IF gate.at = "pull_again" /\ gate'.at = "runs_again"
           THEN [now |-> GoodEpochs, before |-> shown.now]
           ELSE IF gate.at = "judge" /\ gate'.at = "pull" /\ gate'.stable = NoEpoch
           THEN [now |-> {}, before |-> {}]
           ELSE shown

GateStep ==
  \/ ReadPull("pull", "runs") \/ ReadRuns \/ ReadJobs \/ ReadCheck
  \/ ReadPull("pull_again", "runs_again") \/ ReadRunsAgain
  \/ RequestFails \/ Judge

GitHubStep ==
  \/ PullMoves \/ RunStarts
  \/ \E r \in DOMAIN runs : RunsAgain(r) \/ RunEnds(r) \/ MarkerEnds(r) \/ GrowsOld(r)

MergeGateNext == gate.at # "ended" /\ (GateStep \/ GitHubStep) /\ Remembered

MergeGateSpec == MergeGateInit /\ [][MergeGateNext]_gateVars

-----------------------------------------------------------------------------
\* The gate passes only for an epoch that, at the moment at which the last observation
\* found the pull request as it was called for, and at that moment of the one before,
\* was all that is asked at once: the newest, ended with success and so its marker, and
\* not too old.  "A newer Full run takes precedence immediately" (CONTRIBUTING.md:66),
\* although no two of the answers are of the same moment.
GateIsEarned == gate.result = "passed" => gate.epoch \in shown.now \cap shown.before
=============================================================================
