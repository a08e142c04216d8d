-------------------------- MODULE Validation_proofs ---------------------------
(***************************************************************************)
(* What a validation reports is earned: proofs about CheckRun, about       *)
(* LspDiagnostics and about ParallelFull.                                  *)
(***************************************************************************)
EXTENDS CheckRun, LspDiagnostics, ParallelFull, SequenceTheorems, TLAPS

(***************************************************************************)
(* CheckRun: the outcome of a run of checks is earned, for any number of   *)
(* checks, of dependencies between them, of parts of a fingerprint and of  *)
(* edits.                                                                  *)
(***************************************************************************)

ChecksSteps == InChecksTry \cup {"setup", "begin", "summary", "cleanup", "advise", "finalize", "ended"}
Preparing == {"setup", "begin"}
Over == {"cleanup", "advise", "finalize", "ended"}
ChecksLocals == [step : ChecksSteps, at : Nat \ {0}, failFast : BOOLEAN, needs : Graphs,
           parallel : BOOLEAN, late : BOOLEAN, report : {"none", "ok", "failed"},
           error : Errors \cup {"none"}]
Results == [Checks -> {"none", "pass", "failed", "blocked"}]
Workspaces == [now : [Parts -> Nat], edits : Nat, seen : SUBSET [Parts -> Nat]]
Sessions == [logs : {"none", "written", "removed"}, error : Errors \cup {"none"},
             final : {"none", "ok", "failed"} \cup Errors]

\* As CheckRunTypeOK, without its bounds.
Types ==
  /\ checking \in ChecksLocals
  /\ results \in Results
  /\ workspace \in Workspaces
  /\ prints \in [begun : Seq(Nat), ended : Seq(Nat)]
  /\ session \in Sessions

\* How far the fingerprints are read, and what comes only in the end.
ChecksStage ==
  /\ checking.step = "setup" => prints.begun = <<>>
  /\ checking.step = "begin" => Len(prints.begun) < PartCount
  /\ checking.step \in InChecksTry \cup {"summary"} => Len(prints.begun) = PartCount
  /\ checking.step \notin Over \cup {"ending"} => prints.ended = <<>> /\ checking.report = "none"
  /\ checking.step = "ending" => Len(prints.ended) < PartCount
  /\ checking.step # "ended" =>
       session.error = "none" /\ session.final = "none" /\ session.logs # "removed"

\* Parts only grow: what was read first is not above what the checks saw, which is
\* not above what was read last, nor any of them above what is there now.
Past ==
  /\ \A p \in Parts : workspace.now[p] <= workspace.edits
  /\ Len(prints.begun) <= PartCount /\ Len(prints.ended) <= PartCount
  /\ \A p \in 1 .. Len(prints.begun) :
       /\ prints.begun[p] <= workspace.now[p]
       /\ \A s \in workspace.seen : prints.begun[p] <= s[p]
  /\ \A s \in workspace.seen : \A p \in Parts : s[p] <= workspace.now[p]
  /\ \A p \in 1 .. Len(prints.ended) : \A s \in workspace.seen : s[p] <= prints.ended[p]
  /\ checking.step \in Preparing => workspace.seen = {}
  /\ checking.step \in {"running", "shards"} => workspace.seen # {}

\* The loop goes through the checks in their order, and each passes after its needs.
Loop ==
  /\ checking.step \in Preparing \cup {"dispatch"} =>
       checking.at = 1 /\ \A c \in Checks : results[c] = "none"
  /\ \A c \in Checks : Passed(c) => workspace.seen # {} /\ \A d \in checking.needs[c] : Passed(d)
  /\ checking.step \in {"next", "running"} =>
       \A c \in Checks : results[c] # "none" <=> c < checking.at
  /\ checking.step = "running" =>
       checking.at \in Checks /\ \A d \in checking.needs[checking.at] : Passed(d)
  /\ checking.step = "summary" => \E c \in Checks : results[c] = "failed"
  /\ checking.step = "ending" /\ checking.report = "ok" => \A c \in Checks : Passed(c)

ChecksOutcome ==
  /\ checking.step \in Over /\ Succeeded => AllPassedOnOneSource
  /\ session.final = "ok" \/ session.logs = "removed" => checking.step = "ended" /\ Succeeded
  /\ checking.step = "ended" /\ "terminal" \in {checking.error, session.error} =>
       session.final = "terminal"

CheckRunInv == Types /\ ChecksStage /\ Past /\ Loop /\ ChecksOutcome

-----------------------------------------------------------------------------
\* Going on, reporting and giving up keep the type of the locals.
LEMMA LocalsKept ==
  ASSUME checking \in ChecksLocals
  PROVE  /\ \A step \in ChecksSteps : GoesTo(step) \in ChecksLocals
         /\ \A report \in {"ok", "failed"}, step \in ChecksSteps : Reports(report, step) \in ChecksLocals
         /\ \A error \in Errors : Raises(error) \in ChecksLocals
<1>1. ASSUME NEW step \in ChecksSteps
      PROVE  GoesTo(step) \in ChecksLocals
  BY DEF ChecksLocals, GoesTo
<1>2. ASSUME NEW report \in {"ok", "failed"}, NEW step \in ChecksSteps
      PROVE  Reports(report, step) \in ChecksLocals
  BY DEF ChecksLocals, Reports
<1>3. ASSUME NEW error \in Errors
      PROVE  Raises(error) \in ChecksLocals
  BY DEF ChecksLocals, ChecksSteps, Raises
<1> QED BY <1>1, <1>2, <1>3

\* So does the end of a check.
LEMMA LocalsAfter ==
  ASSUME checking \in ChecksLocals, NEW result
  PROVE  NextAfter(result) \in ChecksLocals
<1> DEFINE step == IF checking.failFast /\ result = "failed" THEN "summary" ELSE "next"
<1>1. step \in ChecksSteps /\ checking.at + 1 \in Nat \ {0}
  BY DEF ChecksLocals, ChecksSteps, InChecksTry
<1>2. NextAfter(result) = [checking EXCEPT !.at = checking.at + 1, !.step = step]
  BY DEF NextAfter
<1> HIDE DEF step
<1> QED BY <1>1, <1>2 DEF ChecksLocals

\* A result is stored for the check whose turn it is.
LEMMA ResultsKept ==
  ASSUME results \in Results, NEW result \in {"pass", "failed", "blocked"}
  PROVE  WithResult(result) \in Results
  BY DEF Results, WithResult

\* A part that is read has a number.
LEMMA ReadingKept ==
  ASSUME CheckRunAssumption, Types, NEW taken \in Seq(Nat), Len(taken) < PartCount
  PROVE  /\ Reading(taken) \in Seq(Nat)
         /\ Len(Reading(taken)) = Len(taken) + 1
         /\ \A p \in 1 .. Len(taken) : Reading(taken)[p] = taken[p]
         /\ Reading(taken)[Len(taken) + 1] = workspace.now[Len(taken) + 1]
<1>1. Len(taken) + 1 \in Parts BY DEF CheckRunAssumption, Parts
<1>2. workspace.now[Len(taken) + 1] \in Nat BY <1>1 DEF Types, Workspaces
<1> QED BY <1>2 DEF Reading

-----------------------------------------------------------------------------
\* Every step keeps every variable in its type.
LEMMA ChecksTypeStep ==
  ASSUME Types, ChecksStage, Loop, [CheckRunNext]_checkRunVars
  PROVE  Types'
<1> USE CheckRunAssumption
<1>1. ASSUME NEW p \in Parts, WorkspaceEdited(p)
      PROVE  Types'
  <2> DEFINE now == [workspace.now EXCEPT ![p] = workspace.edits + 1]
             more == IF checking.step = "running" THEN {now} ELSE {}
  <2>1. /\ now \in [Parts -> Nat] /\ workspace.edits + 1 \in Nat
        /\ workspace.seen \in SUBSET [Parts -> Nat]
    BY DEF Types, Workspaces
  <2>2. workspace.seen \cup more \in SUBSET [Parts -> Nat] BY <2>1
  <2>3. workspace' = [now |-> now, edits |-> workspace.edits + 1,
                      seen |-> workspace.seen \cup more]
    BY <1>1 DEF WorkspaceEdited
  <2> HIDE DEF now, more
  <2>4. workspace' \in Workspaces BY <2>1, <2>2, <2>3 DEF Workspaces
  <2> QED BY <1>1, <2>4 DEF WorkspaceEdited, Types
<1>2. CASE ChecksDeadlinePasses BY <1>2 DEF ChecksDeadlinePasses, Types, ChecksLocals
<1>3. CASE Prepared BY <1>3, LocalsKept DEF Prepared, Types, ChecksSteps
<1>4. CASE PreparationFails BY <1>4, LocalsKept DEF PreparationFails, Types, ChecksSteps
<1>5. CASE BeginReads
  <2>1. Reading(prints.begun) \in Seq(Nat)
    BY <1>5, ReadingKept DEF BeginReads, Types, ChecksStage
  <2>2. prints' \in [begun : Seq(Nat), ended : Seq(Nat)] BY <1>5, <2>1 DEF BeginReads, Types
  <2> QED BY <1>5, <2>2, LocalsKept DEF BeginReads, Types, ChecksSteps, InChecksTry
<1>6. CASE SerialBegins BY <1>6, LocalsKept DEF SerialBegins, Types, ChecksSteps, InChecksTry
<1>7. CASE ParallelBegins
  <2>1. checking' \in ChecksLocals
    BY <1>7 DEF ParallelBegins, GoesTo, Types, ChecksLocals, ChecksSteps, InChecksTry
  <2>2. workspace' \in Workspaces BY <1>7 DEF ParallelBegins, Types, Workspaces
  <2> QED BY <1>7, <2>1, <2>2 DEF ParallelBegins, Types
<1>8. CASE ParallelEnds
  <2>1. checking' \in ChecksLocals
    BY <1>8, LocalsKept DEF ParallelEnds, Types, ChecksSteps, InChecksTry
  <2>2. results' \in Results BY <1>8 DEF ParallelEnds, Types, Results
  <2>3. session' \in Sessions BY <1>8 DEF ParallelEnds, Types, Sessions
  <2> QED BY <1>8, <2>1, <2>2, <2>3 DEF ParallelEnds, Types
<1>9. CASE CheckTooLate BY <1>9, LocalsKept, ResultsKept DEF CheckTooLate, Types, ChecksSteps
<1>10. CASE CheckBlocked BY <1>10, LocalsAfter, ResultsKept DEF CheckBlocked, Types
<1>11. CASE CheckUnmade
  BY <1>11, LocalsAfter, LocalsKept, ResultsKept DEF CheckUnmade, Types, ChecksSteps, InChecksTry
<1>12. CASE CheckStarts
  <2>1. workspace' \in Workspaces BY <1>12 DEF CheckStarts, Types, Workspaces
  <2> QED BY <1>12, <2>1, LocalsKept DEF CheckStarts, Types, ChecksSteps, InChecksTry
<1>13. CASE CheckEnds
  <2>1. session' \in Sessions BY <1>13 DEF CheckEnds, Types, Sessions
  <2> QED BY <1>13, <2>1, LocalsAfter, ResultsKept DEF CheckEnds, Types
<1>14. CASE LoopEnds BY <1>14, LocalsKept DEF LoopEnds, Summary, Types, ChecksSteps, InChecksTry
<1>15. CASE EndingReads
  <2>1. Reading(prints.ended) \in Seq(Nat)
    BY <1>15, ReadingKept DEF EndingReads, Types, ChecksStage
  <2>2. prints' \in [begun : Seq(Nat), ended : Seq(Nat)] BY <1>15, <2>1 DEF EndingReads, Types
  <2>3. checking' \in ChecksLocals
    BY <1>15 DEF EndingReads, Reports, Types, ChecksLocals, ChecksSteps
  <2> QED BY <1>15, <2>2, <2>3 DEF EndingReads, Types
<1>16. CASE ChecksFail BY <1>16, LocalsKept DEF ChecksFail, Types, ChecksSteps
<1>17. CASE DirectoryCleaned BY <1>17, LocalsKept DEF DirectoryCleaned, Types, ChecksSteps
<1>18. CASE Advised BY <1>18, LocalsKept DEF Advised, Types, ChecksSteps, Errors
<1>19. CASE LogsFinalized
  <2>1. \A first, second \in Errors \cup {"none"} :
          {first, second} # {"none"} => Unmasked(first, second) \in Errors
    BY DEF Unmasked, Errors
  <2>2. checking.error \in Errors \cup {"none"} /\ session.logs \in {"none", "written", "removed"}
    BY DEF Types, ChecksLocals, Sessions
  <2>3. PICK logs \in LogsAfter, error \in Errors \cup {"none"}, complaints \in BOOLEAN :
          session' = [logs |-> logs, error |-> error,
                      final |-> IF {checking.error, error} # {"none"}
                                  THEN Unmasked(checking.error, error)
                                ELSE IF checking.report = "ok" /\ ~complaints THEN "ok"
                                ELSE "failed"]
    BY <1>19 DEF LogsFinalized
  <2>4. logs \in {"none", "written", "removed"} BY <2>2, <2>3 DEF LogsAfter
  <2>5. session' \in Sessions BY <2>1, <2>2, <2>3, <2>4 DEF Sessions
  <2> QED BY <1>19, <2>5, LocalsKept DEF LogsFinalized, Types, ChecksSteps
<1>20. CASE UNCHANGED checkRunVars BY <1>20 DEF checkRunVars, Types
<1> QED BY <1>1, <1>2, <1>3, <1>4, <1>5, <1>6, <1>7, <1>8, <1>9, <1>10, <1>11, <1>12, <1>13,
     <1>14, <1>15, <1>16, <1>17, <1>18, <1>19, <1>20 DEF CheckRunNext
-----------------------------------------------------------------------------
\* What the locals are after a step.
LEMMA Fields ==
  ASSUME checking \in ChecksLocals
  PROVE  /\ \A step : /\ GoesTo(step).step = step /\ GoesTo(step).at = checking.at
                      /\ GoesTo(step).needs = checking.needs
                      /\ GoesTo(step).report = checking.report
                      /\ GoesTo(step).error = checking.error
         /\ \A report, step : /\ Reports(report, step).step = step
                              /\ Reports(report, step).at = checking.at
                              /\ Reports(report, step).needs = checking.needs
                              /\ Reports(report, step).report = report
                              /\ Reports(report, step).error = checking.error
         /\ \A error : /\ Raises(error).step = "finalize" /\ Raises(error).at = checking.at
                       /\ Raises(error).needs = checking.needs
                       /\ Raises(error).report = checking.report
                       /\ Raises(error).error = error
         /\ \A result : /\ NextAfter(result).at = checking.at + 1
                        /\ NextAfter(result).step \in {"next", "summary"}
                        /\ NextAfter(result).step = "summary" => result = "failed"
                        /\ NextAfter(result).needs = checking.needs
                        /\ NextAfter(result).report = checking.report
                        /\ NextAfter(result).error = checking.error
<1>1. ASSUME NEW step
      PROVE  /\ GoesTo(step).step = step /\ GoesTo(step).at = checking.at
             /\ GoesTo(step).needs = checking.needs
             /\ GoesTo(step).report = checking.report
             /\ GoesTo(step).error = checking.error
  BY DEF ChecksLocals, GoesTo
<1>2. ASSUME NEW report, NEW step
      PROVE  /\ Reports(report, step).step = step /\ Reports(report, step).at = checking.at
             /\ Reports(report, step).needs = checking.needs
             /\ Reports(report, step).report = report
             /\ Reports(report, step).error = checking.error
  BY DEF ChecksLocals, Reports
<1>3. ASSUME NEW error
      PROVE  /\ Raises(error).step = "finalize" /\ Raises(error).at = checking.at
             /\ Raises(error).needs = checking.needs
             /\ Raises(error).report = checking.report
             /\ Raises(error).error = error
  BY DEF ChecksLocals, Raises
<1>4. ASSUME NEW result
      PROVE  /\ NextAfter(result).at = checking.at + 1
             /\ NextAfter(result).step \in {"next", "summary"}
             /\ NextAfter(result).step = "summary" => result = "failed"
             /\ NextAfter(result).needs = checking.needs
             /\ NextAfter(result).report = checking.report
             /\ NextAfter(result).error = checking.error
  BY DEF ChecksLocals, NextAfter
<1> QED BY <1>1, <1>2, <1>3, <1>4

\* Every step keeps the order of the reads and of what comes last.
LEMMA ChecksStageStep ==
  ASSUME Types, ChecksStage, Past, Loop, [CheckRunNext]_checkRunVars
  PROVE  ChecksStage'
<1> USE CheckRunAssumption
<1>1. ASSUME NEW p \in Parts, WorkspaceEdited(p)
      PROVE  ChecksStage'
  BY <1>1 DEF WorkspaceEdited, Types, ChecksStage, Over, InChecksTry
<1>2. CASE ChecksDeadlinePasses
  BY <1>2 DEF ChecksDeadlinePasses, Types, ChecksLocals, ChecksStage, Over, InChecksTry
<1>3. CASE Prepared BY <1>3, Fields DEF Prepared, Types, ChecksStage, Over, InChecksTry
<1>4. CASE PreparationFails
  BY <1>4, Fields DEF PreparationFails, Types, ChecksStage, Over, InChecksTry
<1>5. CASE BeginReads
  <2>1. Len(Reading(prints.begun)) = Len(prints.begun) + 1 /\ Len(prints.begun) \in Nat
    BY <1>5, ReadingKept DEF BeginReads, Types, ChecksStage
  <2>2. prints'.begun = Reading(prints.begun) /\ prints'.ended = prints.ended
    BY <1>5 DEF BeginReads, Types
  <2> QED BY <1>5, <2>1, <2>2, Fields DEF BeginReads, Types, ChecksStage, Over, InChecksTry
<1>6. CASE SerialBegins BY <1>6, Fields DEF SerialBegins, Types, ChecksStage, Over, InChecksTry
<1>7. CASE ParallelBegins
  <2>1. checking'.step = "shards" /\ checking'.report = checking.report
    BY <1>7 DEF ParallelBegins, GoesTo, Types, ChecksLocals
  <2> QED BY <1>7, <2>1 DEF ParallelBegins, ChecksStage, Over, InChecksTry
<1>8. CASE ParallelEnds
  <2>1. /\ session'.error = session.error /\ session'.final = session.final
        /\ session'.logs = "written"
    BY <1>8 DEF ParallelEnds, Types, Sessions
  <2> QED BY <1>8, <2>1, Fields DEF ParallelEnds, Types, ChecksStage, Over, InChecksTry
<1>9. CASE CheckTooLate
  BY <1>9, Fields DEF CheckTooLate, Types, ChecksStage, Over, InChecksTry, More
<1>10. CASE CheckBlocked
  BY <1>10, Fields DEF CheckBlocked, Types, ChecksStage, Over, InChecksTry, More
<1>11. CASE CheckUnmade
  BY <1>11, Fields DEF CheckUnmade, Types, ChecksStage, Over, InChecksTry, More
<1>12. CASE CheckStarts
  BY <1>12, Fields DEF CheckStarts, Types, ChecksStage, Over, InChecksTry, More
<1>13. CASE CheckEnds
  <2>1. /\ session'.error = session.error /\ session'.final = session.final
        /\ session'.logs = "written"
    BY <1>13 DEF CheckEnds, Types, Sessions
  <2> QED BY <1>13, <2>1, Fields DEF CheckEnds, Types, ChecksStage, Over, InChecksTry
<1>14. CASE LoopEnds BY <1>14, Fields DEF LoopEnds, Types, ChecksStage, Over, InChecksTry
<1>15. CASE EndingReads
  <2>1. Len(Reading(prints.ended)) = Len(prints.ended) + 1 /\ Len(prints.ended) \in Nat
    BY <1>15, ReadingKept DEF EndingReads, Types, ChecksStage
  <2>2. prints'.ended = Reading(prints.ended) /\ prints'.begun = prints.begun
    BY <1>15 DEF EndingReads, Types
  <2> QED BY <1>15, <2>1, <2>2, Fields DEF EndingReads, Types, ChecksStage, Over, InChecksTry
<1>16. CASE ChecksFail BY <1>16, Fields DEF ChecksFail, Types, ChecksStage, Over, InChecksTry
<1>17. CASE DirectoryCleaned
  BY <1>17, Fields DEF DirectoryCleaned, Types, ChecksStage, Over, InChecksTry
<1>18. CASE Advised BY <1>18, Fields DEF Advised, Types, ChecksStage, Over, InChecksTry
<1>19. CASE LogsFinalized
  BY <1>19, Fields DEF LogsFinalized, Types, ChecksStage, Over, InChecksTry
<1>20. CASE UNCHANGED checkRunVars
  BY <1>20 DEF checkRunVars, Types, ChecksStage, Over, InChecksTry
<1> QED BY <1>1, <1>2, <1>3, <1>4, <1>5, <1>6, <1>7, <1>8, <1>9, <1>10, <1>11, <1>12, <1>13,
     <1>14, <1>15, <1>16, <1>17, <1>18, <1>19, <1>20 DEF CheckRunNext

\* Every step keeps what was read first below what is seen, below what was read last.
LEMMA PastStep ==
  ASSUME Types, ChecksStage, Past, [CheckRunNext]_checkRunVars
  PROVE  Past'
<1> USE CheckRunAssumption
<1>1. ASSUME NEW p \in Parts, WorkspaceEdited(p)
      PROVE  Past'
  <2> DEFINE now == [workspace.now EXCEPT ![p] = workspace.edits + 1]
  <2>1. /\ workspace.now \in [Parts -> Nat] /\ workspace.edits \in Nat
        /\ workspace.seen \in SUBSET [Parts -> Nat]
        /\ prints.begun \in Seq(Nat) /\ prints.ended \in Seq(Nat)
    BY DEF Types, Workspaces
  <2>2. /\ now \in [Parts -> Nat]
        /\ \A q \in Parts : workspace.now[q] <= now[q] /\ now[q] <= workspace.edits + 1
    BY <2>1 DEF Past
  <2>3. /\ workspace'.now = now /\ workspace'.edits = workspace.edits + 1
        /\ workspace'.seen \subseteq workspace.seen \cup {now}
        /\ workspace.seen \subseteq workspace'.seen
        /\ checking.step # "running" => workspace'.seen = workspace.seen
        /\ checking' = checking /\ prints' = prints
    BY <1>1 DEF WorkspaceEdited
  <2> HIDE DEF now
  <2>4. \A q \in 1 .. Len(prints.begun) : q \in Parts /\ prints.begun[q] \in Nat
    <3>1. PartCount \in Nat /\ Len(prints.begun) <= PartCount /\ Len(prints.begun) \in Nat
      BY <2>1 DEF Past, CheckRunAssumption
    <3>2. \A q \in 1 .. Len(prints.begun) : q \in Parts BY <3>1 DEF Parts
    <3>3. \A q \in 1 .. Len(prints.begun) : prints.begun[q] \in Nat BY <2>1
    <3> QED BY <3>2, <3>3
  <2>5. checking.step = "running" => prints.ended = <<>> BY DEF ChecksStage, Over
  <2>6. \A q \in 1 .. Len(prints.ended) : q \in Parts /\ prints.ended[q] \in Nat
    BY <2>1 DEF Past, Parts, CheckRunAssumption
  <2>7. \A q \in 1 .. Len(prints'.begun) :
          /\ prints'.begun[q] <= workspace'.now[q]
          /\ \A s \in workspace'.seen : prints'.begun[q] <= s[q]
    <3> SUFFICES ASSUME NEW q \in 1 .. Len(prints.begun)
                 PROVE  /\ prints.begun[q] <= now[q]
                        /\ \A s \in workspace.seen \cup {now} : prints.begun[q] <= s[q]
      BY <2>3
    <3>1. /\ q \in Parts /\ prints.begun[q] \in Nat /\ workspace.now[q] \in Nat /\ now[q] \in Nat
          /\ prints.begun[q] <= workspace.now[q] /\ workspace.now[q] <= now[q]
      BY <2>1, <2>2, <2>4 DEF Past
    <3> QED BY <3>1 DEF Past
  <2>8. \A s \in workspace'.seen : \A q \in Parts : s[q] <= workspace'.now[q]
    <3> SUFFICES ASSUME NEW s \in workspace.seen \cup {now}, NEW q \in Parts
                 PROVE  s[q] <= now[q]
      BY <2>3
    <3>1. s[q] \in Nat /\ workspace.now[q] \in Nat /\ now[q] \in Nat /\ workspace.now[q] <= now[q]
      BY <2>1, <2>2
    <3> QED BY <3>1 DEF Past
  <2>9. \A q \in 1 .. Len(prints'.ended) : \A s \in workspace'.seen : s[q] <= prints'.ended[q]
    BY <2>3, <2>5 DEF Past
  <2> QED BY <2>2, <2>3, <2>7, <2>8, <2>9 DEF Past, Preparing
<1>2. CASE ChecksDeadlinePasses
  BY <1>2 DEF ChecksDeadlinePasses, Types, ChecksLocals, Past, Preparing
<1>3. CASE Prepared BY <1>3, Fields DEF Prepared, Types, Past, Preparing
<1>4. CASE PreparationFails BY <1>4, Fields DEF PreparationFails, Types, Past, Preparing
<1>5. CASE BeginReads
  <2>1. /\ Len(Reading(prints.begun)) = Len(prints.begun) + 1 /\ Len(prints.begun) \in Nat
        /\ Len(prints.begun) < PartCount
        /\ \A q \in 1 .. Len(prints.begun) : Reading(prints.begun)[q] = prints.begun[q]
        /\ Reading(prints.begun)[Len(prints.begun) + 1] = workspace.now[Len(prints.begun) + 1]
    <3>1. /\ prints.begun \in Seq(Nat) /\ Len(prints.begun) < PartCount
          /\ Len(prints.begun) \in Nat
      BY <1>5 DEF BeginReads, Types, ChecksStage
    <3> HIDE DEF CheckRunAssumption
    <3> QED BY <3>1, ReadingKept
  <2>2. /\ prints'.begun = Reading(prints.begun) /\ prints'.ended = prints.ended
        /\ workspace' = workspace /\ workspace.seen = {}
        /\ checking'.step \in {"begin", "dispatch"}
    BY <1>5, Fields DEF BeginReads, Types, Past, Preparing
  <2>3. \A q \in Parts : workspace.now[q] \in Nat BY DEF Types, Workspaces
  <2>4. \A q \in 1 .. Len(prints'.begun) : prints'.begun[q] <= workspace.now[q]
    <3> SUFFICES ASSUME NEW q \in 1 .. Len(prints.begun) + 1
                 PROVE  Reading(prints.begun)[q] <= workspace.now[q]
      BY <2>1, <2>2
    <3>1. CASE q = Len(prints.begun) + 1 BY <3>1, <2>1, <2>3 DEF Parts, CheckRunAssumption
    <3>2. CASE q # Len(prints.begun) + 1 BY <3>2, <2>1 DEF Past
    <3> QED BY <3>1, <3>2
  <2>5. Len(prints'.begun) <= PartCount BY <2>1, <2>2 DEF CheckRunAssumption
  <2> QED BY <2>2, <2>4, <2>5 DEF Past, Preparing
<1>6. CASE SerialBegins BY <1>6, Fields DEF SerialBegins, Types, Past, Preparing
<1>7. CASE ParallelBegins
  <2>1. /\ checking'.step = "shards" /\ prints' = prints /\ prints.ended = <<>>
        /\ workspace'.now = workspace.now /\ workspace'.edits = workspace.edits
        /\ workspace'.seen = {workspace.now}
    BY <1>7 DEF ParallelBegins, GoesTo, Types, ChecksLocals, Workspaces, ChecksStage, Over
  <2>2. \A q \in Parts : workspace.now[q] \in Nat BY DEF Types, Workspaces
  <2> QED BY <2>1, <2>2 DEF Past, Preparing
<1>8. CASE ParallelEnds BY <1>8, Fields DEF ParallelEnds, Types, Past, Preparing
<1>9. CASE CheckTooLate BY <1>9, Fields DEF CheckTooLate, Types, Past, Preparing, More
<1>10. CASE CheckBlocked BY <1>10, Fields DEF CheckBlocked, Types, Past, Preparing, More
<1>11. CASE CheckUnmade BY <1>11, Fields DEF CheckUnmade, Types, Past, Preparing, More
<1>12. CASE CheckStarts
  <2>1. /\ checking'.step = "running" /\ prints' = prints /\ prints.ended = <<>>
        /\ workspace'.now = workspace.now /\ workspace'.edits = workspace.edits
        /\ workspace'.seen = workspace.seen \cup {workspace.now}
    BY <1>12, Fields DEF CheckStarts, More, Types, Workspaces, ChecksStage, Over
  <2>2. \A q \in Parts : workspace.now[q] \in Nat BY DEF Types, Workspaces
  <2> QED BY <2>1, <2>2 DEF Past, Preparing
<1>13. CASE CheckEnds BY <1>13, Fields DEF CheckEnds, Types, Past, Preparing
<1>14. CASE LoopEnds BY <1>14, Fields DEF LoopEnds, Types, Past, Preparing
<1>15. CASE EndingReads
  <2>1. /\ Len(Reading(prints.ended)) = Len(prints.ended) + 1 /\ Len(prints.ended) \in Nat
        /\ Len(prints.ended) < PartCount
        /\ \A q \in 1 .. Len(prints.ended) : Reading(prints.ended)[q] = prints.ended[q]
        /\ Reading(prints.ended)[Len(prints.ended) + 1] = workspace.now[Len(prints.ended) + 1]
    <3>1. /\ prints.ended \in Seq(Nat) /\ Len(prints.ended) < PartCount
          /\ Len(prints.ended) \in Nat
      BY <1>15 DEF EndingReads, Types, ChecksStage
    <3> HIDE DEF CheckRunAssumption
    <3> QED BY <3>1, ReadingKept
  <2>2. /\ prints'.ended = Reading(prints.ended) /\ prints'.begun = prints.begun
        /\ workspace' = workspace /\ checking'.step \in {"ending", "cleanup"}
    BY <1>15, Fields DEF EndingReads, Types
  <2>3. \A q \in 1 .. Len(prints'.ended) : \A s \in workspace.seen : s[q] <= prints'.ended[q]
    <3> SUFFICES ASSUME NEW q \in 1 .. Len(prints.ended) + 1, NEW s \in workspace.seen
                 PROVE  s[q] <= Reading(prints.ended)[q]
      BY <2>1, <2>2
    <3>1. CASE q = Len(prints.ended) + 1 BY <3>1, <2>1 DEF Past, Parts, CheckRunAssumption
    <3>2. CASE q # Len(prints.ended) + 1 BY <3>2, <2>1 DEF Past
    <3> QED BY <3>1, <3>2
  <2>4. Len(prints'.ended) <= PartCount BY <2>1, <2>2 DEF CheckRunAssumption
  <2> QED BY <2>2, <2>3, <2>4 DEF Past, Preparing
<1>16. CASE ChecksFail BY <1>16, Fields DEF ChecksFail, Types, Past, Preparing
<1>17. CASE DirectoryCleaned BY <1>17, Fields DEF DirectoryCleaned, Types, Past, Preparing
<1>18. CASE Advised BY <1>18, Fields DEF Advised, Types, Past, Preparing
<1>19. CASE LogsFinalized BY <1>19, Fields DEF LogsFinalized, Types, Past, Preparing
<1>20. CASE UNCHANGED checkRunVars BY <1>20 DEF checkRunVars, Types, Past, Preparing
<1> QED BY <1>1, <1>2, <1>3, <1>4, <1>5, <1>6, <1>7, <1>8, <1>9, <1>10, <1>11, <1>12, <1>13,
     <1>14, <1>15, <1>16, <1>17, <1>18, <1>19, <1>20 DEF CheckRunNext

\* The result of the check whose turn it is, and of no other, is stored.
LEMMA ResultStored ==
  ASSUME Types, Loop, checking.step \in {"next", "running"}, checking.at \in Checks,
         NEW result \in {"pass", "failed", "blocked"}, results' = WithResult(result)
  PROVE  /\ results'[checking.at] = result
         /\ \A c \in Checks \ {checking.at} : results'[c] = results[c]
         /\ \A c \in Checks : results'[c] # "none" <=> c < checking.at + 1
         /\ \A c \in Checks : Passed(c) => results'[c] = "pass"
         /\ \A c \in Checks : results'[c] = "pass" =>
              Passed(c) \/ (c = checking.at /\ result = "pass")
<1>1. /\ results'[checking.at] = result
      /\ \A c \in Checks \ {checking.at} : results'[c] = results[c]
  BY DEF Types, Results, WithResult
<1>2. results[checking.at] = "none" BY DEF Loop, Checks
<1>3. \A c \in Checks : results'[c] # "none" <=> c < checking.at + 1 BY <1>1 DEF Loop, Checks
<1> QED BY <1>1, <1>2, <1>3 DEF Passed

\* What had passed, with its needs, is not undone by another result.
LEMMA NeedsKept ==
  ASSUME Types, Loop, checking.step \in {"next", "running"}, checking.at \in Checks,
         NEW result \in {"pass", "failed", "blocked"}, results' = WithResult(result),
         checking'.needs = checking.needs, workspace' = workspace,
         result = "pass" => workspace.seen # {} /\ \A d \in checking.needs[checking.at] : Passed(d)
  PROVE  \A c \in Checks :
           results'[c] = "pass" =>
             workspace'.seen # {} /\ \A d \in checking'.needs[c] : results'[d] = "pass"
<1> SUFFICES ASSUME NEW c \in Checks, results'[c] = "pass"
             PROVE  workspace.seen # {} /\ \A d \in checking.needs[c] : results'[d] = "pass"
  OBVIOUS
<1>1. Passed(c) \/ (c = checking.at /\ result = "pass") BY ResultStored
<1>2. workspace.seen # {} /\ \A d \in checking.needs[c] : Passed(d) BY <1>1 DEF Loop
<1>3. checking.needs[c] \subseteq Checks BY DEF Types, ChecksLocals, Graphs
<1> QED BY <1>2, <1>3, ResultStored

\* Every step keeps the order of the checks and what passed with its needs.
LEMMA LoopStep ==
  ASSUME Types, Past, Loop, [CheckRunNext]_checkRunVars
  PROVE  Loop'
<1> USE CheckRunAssumption
<1>1. ASSUME NEW p \in Parts, WorkspaceEdited(p)
      PROVE  Loop'
  BY <1>1 DEF WorkspaceEdited, Types, Loop, Preparing, Passed
<1>2. CASE ChecksDeadlinePasses
  BY <1>2 DEF ChecksDeadlinePasses, Types, ChecksLocals, Loop, Preparing, Passed
<1>3. CASE Prepared BY <1>3, Fields DEF Prepared, Types, Loop, Preparing, Passed
<1>4. CASE PreparationFails BY <1>4, Fields DEF PreparationFails, Types, Loop, Preparing, Passed
<1>5. CASE BeginReads BY <1>5, Fields DEF BeginReads, Types, Loop, Preparing, Passed
<1>6. CASE SerialBegins BY <1>6, Fields DEF SerialBegins, Types, Loop, Preparing, Passed, Checks
<1>7. CASE ParallelBegins
  <2>1. /\ checking'.step = "shards" /\ checking'.needs = checking.needs
        /\ workspace'.seen = {workspace.now} /\ results' = results
    BY <1>7 DEF ParallelBegins, GoesTo, Types, ChecksLocals, Workspaces
  <2> QED BY <2>1 DEF Loop, Preparing, Passed
<1>8. CASE ParallelEnds
  <2>1. /\ checking'.step = "ending" /\ checking'.needs = checking.needs /\ workspace' = workspace
        /\ workspace.seen # {}
        /\ \/ \A c \in Checks : results'[c] = "pass"
           \/ results' = results /\ checking'.report = "failed"
    BY <1>8, Fields DEF ParallelEnds, Types, Past
  <2>2. \A c \in Checks : checking.needs[c] \subseteq Checks BY DEF Types, ChecksLocals, Graphs
  <2> QED BY <2>1, <2>2 DEF Loop, Preparing, Passed
<1>9. CASE CheckTooLate
  <2>1. /\ checking.step = "next" /\ checking.at \in Checks /\ workspace' = workspace
        /\ checking'.step = "summary" /\ checking'.needs = checking.needs
        /\ results' = WithResult("failed")
    BY <1>9, Fields DEF CheckTooLate, More, Types, ChecksLocals, Checks
  <2>2. results'[checking.at] = "failed" BY <2>1, ResultStored
  <2> QED BY <2>1, <2>2, NeedsKept DEF Loop, Preparing, Passed
<1>10. CASE CheckBlocked
  <2>1. /\ checking.step = "next" /\ checking.at \in Checks /\ workspace' = workspace
        /\ checking'.step = "next" /\ checking'.needs = checking.needs
        /\ checking'.at = checking.at + 1 /\ results' = WithResult("blocked")
    BY <1>10, Fields DEF CheckBlocked, More, Types, ChecksLocals, Checks
  <2> QED BY <2>1, ResultStored DEF Loop, Preparing, Passed, Types, ChecksLocals, Graphs
<1>11. CASE CheckUnmade
  <2>1. checking.step = "next" /\ checking.at \in Checks /\ workspace' = workspace
    BY <1>11 DEF CheckUnmade, More, Types, ChecksLocals, Checks
  <2>2. CASE results' = WithResult("failed") /\ checking' = NextAfter("failed")
    <3>1. /\ checking'.step \in {"next", "summary"} /\ checking'.needs = checking.needs
          /\ checking'.at = checking.at + 1
      BY <2>2, Fields DEF Types
    <3> QED
      BY <2>1, <2>2, <3>1, ResultStored DEF Loop, Preparing, Passed, Types, ChecksLocals, Graphs
  <2>3. CASE checking' = Reports("failed", "ending") /\ UNCHANGED results
    BY <2>1, <2>3, Fields DEF Types, Loop, Preparing, Passed
  <2> QED BY <1>11, <2>2, <2>3 DEF CheckUnmade
<1>12. CASE CheckStarts
  <2>1. /\ checking.step = "next" /\ checking.at \in Checks /\ checking'.step = "running"
        /\ checking'.at = checking.at /\ checking'.needs = checking.needs /\ results' = results
        /\ workspace'.seen = workspace.seen \cup {workspace.now} /\ ~Blocked
    BY <1>12, Fields DEF CheckStarts, More, Types, ChecksLocals, Checks, Workspaces
  <2> QED BY <2>1 DEF Loop, Preparing, Passed, Blocked
<1>13. CASE CheckEnds
  <2>1. /\ checking.step = "running" /\ checking.at \in Checks /\ workspace' = workspace
        /\ workspace.seen # {}
    BY <1>13 DEF CheckEnds, Loop, Past
  <2>2. PICK result \in {"pass", "failed"} :
          results' = WithResult(result) /\ checking' = NextAfter(result)
    BY <1>13 DEF CheckEnds
  <2>3. /\ checking'.step \in {"next", "summary"} /\ checking'.needs = checking.needs
        /\ checking'.at = checking.at + 1
        /\ checking'.step = "summary" => result = "failed"
    BY <2>2, Fields DEF Types
  <2> QED
    <3>1. /\ results'[checking.at] = result
          /\ \A c \in Checks : results'[c] # "none" <=> c < checking.at + 1
      BY <2>1, <2>2, ResultStored
    <3>2. \A d \in checking.needs[checking.at] : Passed(d) BY <2>1 DEF Loop
    <3>3. \A c \in Checks :
            results'[c] = "pass" =>
              workspace'.seen # {} /\ \A d \in checking'.needs[c] : results'[d] = "pass"
      BY <2>1, <2>2, <2>3, <3>2, NeedsKept
    <3> QED BY <2>1, <2>3, <3>1, <3>3 DEF Loop, Preparing, Passed
<1>14. CASE LoopEnds
  <2>1. /\ checking'.step = "ending" /\ checking'.needs = checking.needs
        /\ checking'.report = Summary /\ workspace' = workspace /\ results' = results
    BY <1>14, Fields DEF LoopEnds, Types
  <2>2. ASSUME Summary = "ok", NEW c \in Checks
        PROVE  Passed(c)
    <3>1. checking.step = "next" /\ checking.at > CheckCount
      BY <1>14, <2>2 DEF LoopEnds, More, Summary, Loop, Types, ChecksLocals
    <3>2. c < checking.at BY <3>1, CheckRunAssumption DEF Checks, Types, ChecksLocals
    <3>3. results[c] # "none" BY <3>1, <3>2 DEF Loop
    <3> QED BY <2>2, <3>3 DEF Summary, Passed
  <2> QED BY <2>1, <2>2 DEF Loop, Preparing, Passed
<1>15. CASE EndingReads
  <2>1. /\ results' = results /\ workspace' = workspace
        /\ \/ checking' = checking
           \/ checking'.step = "cleanup" /\ checking'.needs = checking.needs
    BY <1>15, Fields DEF EndingReads, Types
  <2> QED BY <1>15, <2>1 DEF EndingReads, Loop, Preparing, Passed
<1>16. CASE ChecksFail
  <2>1. /\ results' = results /\ workspace' = workspace /\ checking'.needs = checking.needs
        /\ checking'.step \in {"cleanup", "finalize"}
    BY <1>16, Fields DEF ChecksFail, Types
  <2> QED BY <2>1 DEF Loop, Preparing, Passed
<1>17. CASE DirectoryCleaned
  <2>1. /\ results' = results /\ workspace' = workspace /\ checking'.needs = checking.needs
        /\ checking'.step \in {"advise", "finalize"}
    BY <1>17, Fields DEF DirectoryCleaned, Types
  <2> QED BY <2>1 DEF Loop, Preparing, Passed
<1>18. CASE Advised
  <2>1. /\ results' = results /\ workspace' = workspace /\ checking'.needs = checking.needs
        /\ checking'.step = "finalize"
    BY <1>18, Fields DEF Advised, Types
  <2> QED BY <2>1 DEF Loop, Preparing, Passed
<1>19. CASE LogsFinalized
  <2>1. /\ results' = results /\ workspace' = workspace /\ checking'.needs = checking.needs
        /\ checking'.step = "ended"
    BY <1>19, Fields DEF LogsFinalized, Types
  <2> QED BY <2>1 DEF Loop, Preparing, Passed
<1>20. CASE UNCHANGED checkRunVars BY <1>20 DEF checkRunVars, Types, Loop, Preparing, Passed
<1> QED BY <1>1, <1>2, <1>3, <1>4, <1>5, <1>6, <1>7, <1>8, <1>9, <1>10, <1>11, <1>12, <1>13,
     <1>14, <1>15, <1>16, <1>17, <1>18, <1>19, <1>20 DEF CheckRunNext

\* Every step keeps what a success says.
LEMMA OutcomeStep ==
  ASSUME Types, ChecksStage, Past, Loop, ChecksOutcome, Past', [CheckRunNext]_checkRunVars
  PROVE  ChecksOutcome'
<1> USE CheckRunAssumption
<1>1. ASSUME NEW p \in Parts, WorkspaceEdited(p)
      PROVE  ChecksOutcome'
  BY <1>1 DEF WorkspaceEdited, ChecksOutcome, Over, Succeeded, AllPassedOnOneSource, Passed
<1>2. CASE ChecksDeadlinePasses
  BY <1>2 DEF ChecksDeadlinePasses, Types, ChecksLocals, ChecksOutcome, Over, Succeeded,
         AllPassedOnOneSource, Passed
<1>3. CASE Prepared
  BY <1>3, Fields DEF Prepared, Types, ChecksStage, ChecksOutcome, Over, Succeeded,
         AllPassedOnOneSource, Passed, Errors
<1>4. CASE PreparationFails
  BY <1>4, Fields DEF PreparationFails, Types, ChecksStage, ChecksOutcome, Over, Succeeded,
         AllPassedOnOneSource, Passed, Errors
<1>5. CASE BeginReads
  BY <1>5, Fields DEF BeginReads, Types, ChecksStage, ChecksOutcome, Over, Succeeded,
         AllPassedOnOneSource, Passed, Errors
<1>6. CASE SerialBegins
  BY <1>6, Fields DEF SerialBegins, Types, ChecksStage, ChecksOutcome, Over, Succeeded,
         AllPassedOnOneSource, Passed, Errors
<1>7. CASE ParallelBegins
  <2>1. checking'.step = "shards" /\ session' = session
    BY <1>7 DEF ParallelBegins, GoesTo, Types, ChecksLocals
  <2> QED BY <1>7, <2>1 DEF ParallelBegins, ChecksStage, ChecksOutcome, Over
<1>8. CASE ParallelEnds
  <2>1. session'.final = session.final /\ session'.logs = "written" /\ checking'.step = "ending"
    BY <1>8, Fields DEF ParallelEnds, Types, Sessions
  <2> QED BY <1>8, <2>1 DEF ParallelEnds, ChecksStage, ChecksOutcome, Over
<1>9. CASE CheckTooLate
  BY <1>9, Fields DEF CheckTooLate, Types, ChecksStage, ChecksOutcome, Over, Succeeded,
         AllPassedOnOneSource, Passed, Errors, More
<1>10. CASE CheckBlocked
  BY <1>10, Fields DEF CheckBlocked, Types, ChecksStage, ChecksOutcome, Over, Succeeded,
         AllPassedOnOneSource, Passed, Errors, More
<1>11. CASE CheckUnmade
  <2>1. checking'.step \in {"next", "summary", "ending"} /\ session' = session
    BY <1>11, Fields DEF CheckUnmade, Types
  <2> QED BY <1>11, <2>1 DEF CheckUnmade, More, ChecksStage, ChecksOutcome, Over
<1>12. CASE CheckStarts
  BY <1>12, Fields DEF CheckStarts, Types, ChecksStage, ChecksOutcome, Over, Succeeded,
         AllPassedOnOneSource, Passed, Errors, More
<1>13. CASE CheckEnds
  <2>1. /\ session'.final = session.final /\ session'.logs = "written"
        /\ checking'.step \in {"next", "summary"}
    BY <1>13, Fields DEF CheckEnds, Types, Sessions
  <2> QED BY <1>13, <2>1 DEF CheckEnds, ChecksStage, ChecksOutcome, Over
<1>14. CASE LoopEnds
  BY <1>14, Fields DEF LoopEnds, Types, ChecksStage, ChecksOutcome, Over, Succeeded,
         AllPassedOnOneSource, Passed, Errors
<1>15. CASE EndingReads
  <2>1. /\ prints'.begun = prints.begun /\ workspace' = workspace /\ results' = results
        /\ session' = session /\ checking.step = "ending" /\ checking'.error = checking.error
        /\ \/ checking'.step = "ending"
           \/ /\ checking'.step = "cleanup" /\ Len(prints'.ended) >= PartCount
              /\ checking'.report = "ok" => prints'.ended = prints.begun /\ checking.report = "ok"
    <3>1. /\ Len(Reading(prints.ended)) \in Nat
          /\ prints'.ended = Reading(prints.ended) /\ prints'.begun = prints.begun
      BY <1>15, ReadingKept DEF EndingReads, Types, ChecksStage
    <3> QED BY <1>15, <3>1, Fields DEF EndingReads, Differs, Types
  <2>2. ASSUME checking'.step = "cleanup", checking'.report = "ok"
        PROVE  AllPassedOnOneSource'
    <3>1. \A c \in Checks : Passed(c) BY <2>1, <2>2 DEF Loop
    <3>2. workspace.seen # {} BY <3>1 DEF Loop, Checks
    <3>3. /\ prints.begun \in Seq(Nat) /\ Len(prints.begun) = PartCount
          /\ prints'.ended = prints.begun
      BY <2>1, <2>2 DEF Types, ChecksStage, InChecksTry
    <3>4. ASSUME NEW s \in workspace.seen
          PROVE  s = prints.begun
      <4>1. s \in [Parts -> Nat] /\ prints.begun \in [Parts -> Nat]
        BY <3>3 DEF Types, Workspaces, Parts
      <4>2. ASSUME NEW p \in Parts
            PROVE  s[p] = prints.begun[p]
        <5>1. prints.begun[p] <= s[p] BY <3>3 DEF Past, Parts
        <5>2. s[p] <= prints.begun[p] BY <2>1, <3>3 DEF Past, Parts
        <5> QED BY <4>1, <5>1, <5>2
      <4> QED BY <4>1, <4>2
    <3>5. workspace.seen = {prints.begun} BY <3>2, <3>4
    <3> QED BY <2>1, <3>1, <3>5 DEF AllPassedOnOneSource, Passed
  <2> QED BY <2>1, <2>2 DEF ChecksStage, ChecksOutcome, Over, Succeeded
<1>16. CASE ChecksFail
  <2>1. /\ session' = session /\ checking.step \in InChecksTry
        /\ \/ checking'.step = "cleanup" /\ checking'.report = "failed"
           \/ checking'.step = "finalize" /\ checking'.error \in Errors
    BY <1>16, Fields DEF ChecksFail, Types
  <2> QED BY <2>1 DEF ChecksStage, ChecksOutcome, Over, Succeeded, Errors, InChecksTry
<1>17. CASE DirectoryCleaned
  BY <1>17, Fields DEF DirectoryCleaned, Types, ChecksStage, ChecksOutcome, Over, Succeeded,
         AllPassedOnOneSource, Passed, Errors
<1>18. CASE Advised
  BY <1>18, Fields DEF Advised, Types, ChecksStage, ChecksOutcome, Over, Succeeded,
         AllPassedOnOneSource, Passed, Errors
<1>19. CASE LogsFinalized
  <2>1. PICK logs \in LogsAfter, error \in Errors \cup {"none"}, complaints \in BOOLEAN :
          session' = [logs |-> logs, error |-> error,
                      final |-> IF {checking.error, error} # {"none"}
                                  THEN Unmasked(checking.error, error)
                                ELSE IF checking.report = "ok" /\ ~complaints THEN "ok"
                                ELSE "failed"]
    BY <1>19 DEF LogsFinalized
  <2>2. /\ checking.step = "finalize" /\ checking'.step = "ended"
        /\ checking'.report = checking.report
        /\ checking'.error = checking.error /\ checking.error \in Errors \cup {"none"}
        /\ workspace' = workspace /\ results' = results /\ prints' = prints
    BY <1>19, Fields DEF LogsFinalized, Types, ChecksLocals
  <2>3. session'.logs = "removed" => Succeeded BY <2>1, <2>2 DEF LogsAfter, ChecksStage
  <2>4. /\ session'.final = "ok" => Succeeded
        /\ "terminal" \in {checking.error, error} => session'.final = "terminal"
    BY <2>1, <2>2 DEF Unmasked, Errors, Succeeded
  <2> QED
    BY <2>1, <2>2, <2>3, <2>4 DEF ChecksOutcome, Over, Succeeded, AllPassedOnOneSource, Passed
<1>20. CASE UNCHANGED checkRunVars
  BY <1>20 DEF checkRunVars, Types, ChecksStage, ChecksOutcome, Over, Succeeded, AllPassedOnOneSource,
         Passed, Errors
<1> QED BY <1>1, <1>2, <1>3, <1>4, <1>5, <1>6, <1>7, <1>8, <1>9, <1>10, <1>11, <1>12, <1>13,
     <1>14, <1>15, <1>16, <1>17, <1>18, <1>19, <1>20 DEF CheckRunNext

\* The invariant holds at the start.
LEMMA CheckRunInitial == CheckRunInit => CheckRunInv
<1> SUFFICES ASSUME CheckRunInit
             PROVE  CheckRunInv
  OBVIOUS
<1> USE CheckRunAssumption
<1>1. Types
  <2>1. checking \in ChecksLocals BY DEF CheckRunInit, ChecksLocals, ChecksSteps
  <2>2. results \in Results BY DEF CheckRunInit, Results
  <2>3. workspace \in Workspaces BY DEF CheckRunInit, Workspaces
  <2>4. prints \in [begun : Seq(Nat), ended : Seq(Nat)] /\ session \in Sessions
    BY DEF CheckRunInit, Sessions
  <2> QED BY <2>1, <2>2, <2>3, <2>4 DEF Types
<1>2. ChecksStage BY DEF CheckRunInit, ChecksStage, InChecksTry, Over
<1>3. Past BY DEF CheckRunInit, Past, Preparing
<1>4. Loop /\ ChecksOutcome BY DEF CheckRunInit, Loop, ChecksOutcome, Passed, Preparing, Over
<1> QED BY <1>1, <1>2, <1>3, <1>4 DEF CheckRunInv

\* In every reachable state the fingerprints enclose what the checks saw, and the checks
\* passed in their order.
THEOREM CheckRunInvariant == CheckRunSpec => []CheckRunInv
<1>1. CheckRunInv /\ [CheckRunNext]_checkRunVars => CheckRunInv'
  BY ChecksTypeStep, ChecksStageStep, PastStep, LoopStep, OutcomeStep DEF CheckRunInv
<1> QED BY <1>1, CheckRunInitial, PTL DEF CheckRunSpec

\* A success is earned, needs come first, and no error that owes cleanup is masked.
THEOREM CheckOutcomeIsEarned == CheckRunSpec => []CheckOutcomeEarned
<1>1. CheckRunInv => CheckOutcomeEarned
  BY DEF CheckRunInv, Loop, ChecksOutcome, Over, CheckOutcomeEarned
<1> QED BY <1>1, CheckRunInvariant, PTL

-----------------------------------------------------------------------------
(***************************************************************************)
(* LspDiagnostics: the verdict of the diagnostics is earned and no server  *)
(* is left behind, for any number of scripts, passes, messages on their    *)
(* way and edits.                                                          *)
(***************************************************************************)

Before == {"ambient", "reserve", "start"}
Talking == {"initialize", "probe", "open", "wait", "close", "report"}
Scanning == {"open", "wait", "close", "report", "stop", "decide", "write"}
After == {"stop", "decide", "settle", "ended"}

\* Where main() is, what it owns and what it knows.
Stage ==
  /\ lsp.step \in Before => server.tree = "absent" /\ ~server.lease /\ ~lsp.spawned
  /\ lsp.spawned => server.lease
  /\ server.lease /\ ~lsp.spawned => lsp.step \in After /\ lsp.error # "none"
  /\ server.tree # "absent" => server.lease \/ lsp.debt
  /\ server.port = "own" => server.tree = "running"
  /\ lsp.debt => lsp.step \in After
  /\ lsp.step = "settle" => server.lease \/ lsp.debt
  /\ lsp.error # "none" => lsp.step \in After
  /\ lsp.step \in {"decide", "write"} /\ ~lsp.debt => server.tree \in {"absent", "gone"}
  /\ lsp.step \in {"decide", "write"} /\ server.lease => server.tree = "gone"
  /\ ending.kind # "none" => lsp.step = "ended"

\* Whom it talks to, and that it is the right one.
Peer ==
  /\ lsp.step = "identify" => lsp.spawned
  /\ lsp.step \in Talking => (lsp.spawned <=> link.to = "own")
  /\ lsp.step = "connect" => lsp.spawned
  /\ lsp.mode = "spawn" /\ ~lsp.spawned => lsp.step # "ambient" /\ lsp.step \notin Talking
  /\ lsp.step \in Scanning /\ lsp.error = "none" =>
       /\ lsp.spawned <=> link.to = "own"
       /\ link.to = "own" \/ server.project
       /\ lsp.mode = "spawn" => lsp.spawned

\* The answer that was taken for script s is the right one.
Answered(s) ==
  /\ answers[s] \in DOMAIN opened
  /\ opened[answers[s]].script = s
  /\ server.versions => \A n \in DOMAIN opened : opened[n].script = s => n <= answers[s]

\* The scripts whose turn is to come in this pass.
Pending ==
  IF lsp.step \in {"open", "wait"} THEN lsp.todo
  ELSE IF lsp.step = "close" THEN lsp.todo \ {lsp.script} ELSE {}

Scan ==
  /\ \A n \in DOMAIN opened : opened[n].version = n
  /\ lsp.step \notin Scanning /\ lsp.error = "none" /\ lsp.step \notin After => lsp.todo = Scripts
  /\ lsp.step = "wait" => opened # <<>>
  /\ lsp.step \in {"open", "wait", "close"} => lsp.script \in Scripts
  /\ lsp.step \in Scanning /\ lsp.error = "none" =>
       \A s \in Scripts \ (Pending \cup lsp.timedOut) : Answered(s)

LspInv == LspTypeOK /\ Stage /\ Peer /\ Scan /\ VerdictEarned /\ ServerSettled

-----------------------------------------------------------------------------
\* Going to another step keeps the type of the locals.
LEMMA LocalsTo ==
  ASSUME lsp \in Locals, NEW step \in Steps
  PROVE  To(step) \in Locals
  BY DEF Locals, To

\* So does giving up.
LEMMA LocalsFailing ==
  ASSUME lsp \in Locals, NEW error \in {"none", "failure", "interrupt"}
  PROVE  Failing(error) \in Locals
  BY DEF Locals, Failing, Steps

\* A new or a closed connection carries nothing.
LEMMA LinksMade ==
  ASSUME NEW to \in {"none", "own", "other"}, NEW up \in BOOLEAN
  PROVE  Linked(to, up) \in Links /\ Linked(to, up).wire = <<>>
<1>1. <<>> \in Seq(Nat) OBVIOUS
<1> QED BY <1>1 DEF Links, Linked

\* The ways main() ends.
LEMMA EndingsMade ==
  ASSUME ending \in Endings, NEW debt \in BOOLEAN, NEW owned \in BOOLEAN,
         NEW kind \in {"tool_error", "timeouts", "failing", "ok"}
  PROVE  /\ Raised(debt) \in Endings
         /\ [ending EXCEPT !.kind = kind, !.owned = owned] \in Endings
         /\ [ending EXCEPT !.kind = kind] \in Endings
  BY DEF Endings, Raised

\* Every step keeps every variable in its type.
LEMMA TypeStep ==
  ASSUME LspTypeOK, [LspNext]_lspVars
  PROVE  LspTypeOK'
<1>1. CASE OtherListens BY <1>1 DEF OtherListens, LspTypeOK, Servers
<1>2. CASE OtherLeaves BY <1>2 DEF OtherLeaves, Dropped, LspTypeOK, Servers, Links
<1>3. CASE OwnListens BY <1>3 DEF OwnListens, LspTypeOK, Servers
<1>4. CASE OwnExits BY <1>4 DEF OwnExits, Dropped, LspTypeOK, Servers, Links
<1>5. CASE OperationDeadlinePasses BY <1>5 DEF OperationDeadlinePasses, LspTypeOK, Servers
<1>6. CASE ConnectionBreaks BY <1>6 DEF ConnectionBreaks, LspTypeOK, Links
<1>7. CASE AmbientConnects
  <2>1. lsp' \in Locals
    BY <1>7, LocalsTo DEF AmbientConnects, LspTypeOK, Steps, InTry, Handshake
  <2>2. link' \in Links /\ link'.wire = <<>>
    BY <1>7, LinksMade DEF AmbientConnects, LspTypeOK, Servers
  <2>3. UNCHANGED <<server, opened, answers, texts, ending>> BY <1>7 DEF AmbientConnects
  <2> QED BY <2>1, <2>2, <2>3, LspAssumption DEF LspTypeOK
<1>8. CASE AmbientMissing
  <2>1. lsp' \in {To("reserve"), Failing("failure"), Failing("interrupt")}
    BY <1>8 DEF AmbientMissing
  <2>2. lsp' \in Locals BY <2>1, LocalsTo, LocalsFailing DEF LspTypeOK, Steps, InTry
  <2> QED BY <1>8, <2>2 DEF AmbientMissing, LspTypeOK
<1>9. CASE PortReserved
  BY <1>9 DEF PortReserved, To, LspTypeOK, Locals, Servers, Steps, InTry, Handshake
<1>10. CASE Started BY <1>10 DEF Started, LspTypeOK, Locals, Servers, Steps, InTry, Handshake
<1>11. CASE StartFails
  <2> PICK published, debt \in BOOLEAN, error \in {"failure", "interrupt"} :
        /\ lsp' = [Failing(error) EXCEPT !.debt = debt]
        /\ server' = [server EXCEPT !.lease = published,
                                    !.tree = IF published \/ debt THEN "running" ELSE server.tree]
    BY <1>11 DEF StartFails
  <2>1. Failing(error) \in Locals BY LocalsFailing DEF LspTypeOK
  <2>2. lsp' \in Locals BY <2>1 DEF Locals
  <2>3. server' \in Servers BY DEF LspTypeOK, Servers
  <2> QED BY <1>11, <2>2, <2>3 DEF StartFails, LspTypeOK
<1>12. CASE OwnedConnects
  <2>1. lsp' \in Locals BY <1>12, LocalsTo DEF OwnedConnects, LspTypeOK, Steps, InTry
  <2>2. link' \in Links /\ link'.wire = <<>>
    BY <1>12, LinksMade DEF OwnedConnects, LspTypeOK, Servers
  <2>3. UNCHANGED <<server, opened, answers, texts, ending>> BY <1>12 DEF OwnedConnects
  <2> QED BY <2>1, <2>2, <2>3, LspAssumption DEF LspTypeOK
<1>13. CASE Identified BY <1>13 DEF Identified, To, LspTypeOK, Locals, Steps, InTry, Handshake
<1>14. CASE Initialized BY <1>14 DEF Initialized, To, LspTypeOK, Locals, Steps, InTry, Handshake
<1>15. CASE WorkspaceVerified
  BY <1>15 DEF WorkspaceVerified, To, LspTypeOK, Locals, Steps, InTry, Handshake
<1>16. CASE FallsBack
  <2>1. lsp' \in Locals BY <1>16, LocalsTo DEF FallsBack, LspTypeOK, Steps, InTry
  <2>2. link' \in Links /\ link'.wire = <<>> BY <1>16, LinksMade DEF FallsBack, Unlinked
  <2> QED BY <1>16, <2>1, <2>2, LspAssumption DEF FallsBack, LspTypeOK
<1>17. CASE TryFails
  <2>1. lsp' \in {Failing("failure"), Failing("interrupt")} BY <1>17 DEF TryFails
  <2>2. lsp' \in Locals BY <2>1, LocalsFailing DEF LspTypeOK
  <2>3. link' \in Links /\ link'.wire = <<>>
    BY <1>17, LinksMade DEF TryFails, Closed, LspTypeOK, Links
  <2> QED BY <1>17, <2>2, <2>3, LspAssumption DEF TryFails, LspTypeOK
<1>18. CASE ScriptOpened
  <2> PICK s \in lsp.todo :
        /\ opened' = Append(opened, [script |-> s, version |-> NextVersion(s),
                                     text |-> texts.now[s]])
        /\ lsp' = [lsp EXCEPT !.step = "wait", !.script = s]
    BY <1>18 DEF ScriptOpened
  <2>1. s \in Scripts /\ texts.now[s] \in Texts /\ NextVersion(s) \in Nat
    BY DEF LspTypeOK, Locals, NextVersion
  <2>2. lsp' \in Locals BY <2>1 DEF LspTypeOK, Locals, Steps, InTry
  <2>3. opened' \in Seq(Openings) /\ Len(opened') = Len(opened) + 1
    BY <2>1 DEF LspTypeOK, Openings
  <2>4. DOMAIN opened \subseteq DOMAIN opened' BY <2>3 DEF LspTypeOK
  <2> QED BY <1>18, <2>2, <2>3, <2>4 DEF ScriptOpened, LspTypeOK
<1>19. CASE MessageReceived
  <2>1. lsp' \in {lsp, To("close")} BY <1>19 DEF MessageReceived
  <2>2. lsp' \in Locals BY <2>1, LocalsTo DEF LspTypeOK, Steps, InTry
  <2>3. /\ link' = [link EXCEPT !.wire = Tail(@)]
        /\ link.wire \in Seq(Nat) /\ link.wire # <<>>
    BY <1>19 DEF MessageReceived, LspTypeOK, Links
  <2>4. /\ Tail(link.wire) \in Seq(Nat) /\ Len(Tail(link.wire)) = Len(link.wire) - 1
        /\ \A i \in DOMAIN Tail(link.wire) :
             i + 1 \in DOMAIN link.wire /\ Tail(link.wire)[i] = link.wire[i + 1]
    BY <2>3
  <2>5. link' \in Links /\ link'.wire = Tail(link.wire) BY <2>3, <2>4 DEF LspTypeOK, Links
  <2>6. /\ Len(link'.wire) <= WireBound
        /\ \A i \in DOMAIN link'.wire : link'.wire[i] \in DOMAIN opened
    BY <2>3, <2>4, <2>5, LspAssumption DEF LspTypeOK
  <2>7. answers' \in [Scripts -> {0} \cup DOMAIN opened]
    <3>1. Head(link.wire) \in DOMAIN opened BY <2>3 DEF LspTypeOK
    <3>2. answers' \in {answers, [answers EXCEPT ![lsp.script] = Head(link.wire)]}
      BY <1>19 DEF MessageReceived
    <3> QED BY <3>1, <3>2 DEF LspTypeOK
  <2> QED BY <1>19, <2>2, <2>5, <2>6, <2>7 DEF MessageReceived, LspTypeOK
<1>20. CASE FileTimesOut BY <1>20 DEF FileTimesOut, LspTypeOK, Locals, Steps, InTry, Handshake
<1>21. CASE ScriptClosed
  <2> DEFINE left == lsp.todo \ {lsp.script}
  <2>1. \/ lsp' = [lsp EXCEPT !.step = "open", !.todo = left]
        \/ lsp' = To("report")
        \/ /\ lsp.attempt # Retries
           /\ lsp' = [lsp EXCEPT !.step = "open", !.todo = lsp.timedOut, !.timedOut = {},
                                 !.attempt = @ + 1]
    BY <1>21 DEF ScriptClosed
  <2>2. [lsp EXCEPT !.step = "open", !.todo = left] \in Locals
    BY DEF LspTypeOK, Locals, Steps, InTry
  <2>3. To("report") \in Locals BY LocalsTo DEF LspTypeOK, Steps, InTry
  <2>4. ASSUME lsp.attempt # Retries
        PROVE  [lsp EXCEPT !.step = "open", !.todo = lsp.timedOut, !.timedOut = {},
                           !.attempt = @ + 1] \in Locals
    <3>1. lsp.attempt \in 0 .. Retries /\ lsp.attempt + 1 \in 0 .. Retries
      BY <2>4, LspAssumption DEF LspTypeOK, Locals
    <3> QED BY <3>1 DEF LspTypeOK, Locals, Steps, InTry
  <2> QED BY <1>21, <2>1, <2>2, <2>3, <2>4 DEF ScriptClosed, LspTypeOK
<1>22. CASE Reported
  <2>1. lsp' \in Locals BY <1>22, LocalsTo DEF Reported, LspTypeOK, Steps
  <2>2. link' \in Links /\ link'.wire = <<>>
    BY <1>22, LinksMade DEF Reported, Closed, LspTypeOK, Links
  <2> QED BY <1>22, <2>1, <2>2, LspAssumption DEF Reported, LspTypeOK
<1>23. CASE NothingToStop
  BY <1>23 DEF NothingToStop, To, HasLease, LspTypeOK, Locals, Steps, InTry,
         Handshake
<1>24. CASE StopsQuietly
  <2>1. lsp' \in Locals
    BY <1>24, LocalsTo, LocalsFailing DEF StopsQuietly, LspTypeOK, Steps, InTry
  <2>2. server' \in Servers BY <1>24 DEF StopsQuietly, To, HasLease, Raised, LspTypeOK, Servers
  <2>3. ending' \in Endings BY <1>24, EndingsMade DEF StopsQuietly, LspTypeOK
  <2> QED BY <1>24, <2>1, <2>2, <2>3 DEF StopsQuietly, To, HasLease, Raised, LspTypeOK
<1>25. CASE StopOwesCleanup
  BY <1>25 DEF StopOwesCleanup, To, HasLease, LspTypeOK, Locals, Steps, InTry,
         Handshake
<1>26. CASE Settled
  <2>1. lsp' \in Locals BY <1>26, LocalsTo, LocalsFailing DEF Settled, LspTypeOK, Steps, InTry
  <2>2. server' \in Servers BY <1>26 DEF Settled, To, Raised, LspTypeOK, Servers
  <2>3. ending' \in Endings BY <1>26, EndingsMade DEF Settled, LspTypeOK
  <2> QED BY <1>26, <2>1, <2>2, <2>3 DEF Settled, To, Raised, LspTypeOK
<1>27. CASE Decided
  <2>1. lsp' \in {To("settle"), To("write"), To("ended")} BY <1>27 DEF Decided
  <2>2. lsp' \in Locals BY <2>1, LocalsTo DEF LspTypeOK, Steps
  <2>3. ending' \in {ending, Raised(FALSE), [ending EXCEPT !.kind = "tool_error"]}
    BY <1>27 DEF Decided
  <2>4. ending' \in Endings BY <2>3, EndingsMade DEF LspTypeOK
  <2> QED BY <1>27, <2>2, <2>4 DEF Decided, LspTypeOK
<1>28. CASE ReportWritten
  <2>1. lsp' \in Locals /\ lsp.spawned \in BOOLEAN
    BY <1>28, LocalsTo DEF ReportWritten, LspTypeOK, Steps, Locals
  <2>2. Verdict \in {"timeouts", "failing", "ok"} BY DEF Verdict
  <2>3. ending' \in Endings BY <1>28, <2>1, <2>2, EndingsMade DEF ReportWritten, LspTypeOK
  <2> QED BY <1>28, <2>1, <2>3 DEF ReportWritten, LspTypeOK
<1>29. ASSUME NEW n \in DOMAIN opened, Publishes(n) PROVE LspTypeOK'
  <2>1. /\ link.wire \in Seq(Nat) /\ n \in Nat /\ Len(link.wire) < WireBound
        /\ link' = [link EXCEPT !.wire = Append(link.wire, n)]
    BY <1>29 DEF Publishes, LspTypeOK, Links
  <2>2. /\ Append(link.wire, n) \in Seq(Nat)
        /\ Len(Append(link.wire, n)) = Len(link.wire) + 1
        /\ \A i \in DOMAIN Append(link.wire, n) :
             \/ i \in DOMAIN link.wire /\ Append(link.wire, n)[i] = link.wire[i]
             \/ Append(link.wire, n)[i] = n
    BY <2>1
  <2>3. link' \in Links /\ link'.wire = Append(link.wire, n) BY <2>1, <2>2 DEF LspTypeOK, Links
  <2>4. /\ Len(link'.wire) <= WireBound
        /\ \A i \in DOMAIN link'.wire : link'.wire[i] \in DOMAIN opened
    <3>1. Len(link'.wire) <= WireBound BY <2>1, <2>2, <2>3, LspAssumption
    <3>2. \A i \in DOMAIN link.wire : link.wire[i] \in DOMAIN opened BY DEF LspTypeOK
    <3> QED BY <2>2, <2>3, <3>1, <3>2, <1>29
  <2> QED BY <1>29, <2>3, <2>4 DEF Publishes, LspTypeOK
<1>30. ASSUME NEW s \in Scripts, ScriptEdited(s) PROVE LspTypeOK'
  <2> PICK text \in Texts :
        texts' = [now |-> [texts.now EXCEPT ![s] = text], edits |-> texts.edits + 1]
    BY <1>30 DEF ScriptEdited
  <2>1. texts.edits + 1 \in 0 .. MaxTextEdits
    BY <1>30, LspAssumption DEF ScriptEdited, LspTypeOK
  <2>2. texts' \in [now : [Scripts -> Texts], edits : 0 .. MaxTextEdits] BY <2>1 DEF LspTypeOK
  <2> QED BY <1>30, <2>2 DEF ScriptEdited, LspTypeOK
<1>31. CASE UNCHANGED lspVars BY <1>31 DEF lspVars, LspTypeOK
<1>32. QED BY <1>1, <1>2, <1>3, <1>4, <1>5, <1>6, <1>7, <1>8, <1>9, <1>10, <1>11, <1>12, <1>13,
     <1>14, <1>15, <1>16, <1>17, <1>18, <1>19, <1>20, <1>21, <1>22, <1>23, <1>24, <1>25,
     <1>26, <1>27, <1>28, <1>29, <1>30, <1>31 DEF LspNext

\* Every step of main() leaves the process tree where the next one expects it.
LEMMA StageStep ==
  ASSUME LspTypeOK, Stage, [LspNext]_lspVars
  PROVE  Stage'
<1>1. CASE OtherListens
  BY <1>1 DEF OtherListens, LspTypeOK, Locals, Servers, Stage, Before, After
<1>2. CASE OtherLeaves
  BY <1>2 DEF OtherLeaves, Dropped, LspTypeOK, Locals, Servers, Stage, Before,
         After
<1>3. CASE OwnListens BY <1>3 DEF OwnListens, LspTypeOK, Locals, Servers, Stage, Before, After
<1>4. CASE OwnExits
  BY <1>4 DEF OwnExits, Dropped, LspTypeOK, Locals, Servers, Stage, Before, After
<1>5. CASE OperationDeadlinePasses
  BY <1>5 DEF OperationDeadlinePasses, LspTypeOK, Locals, Servers, Stage, Before,
         After
<1>6. CASE ConnectionBreaks
  BY <1>6 DEF ConnectionBreaks, LspTypeOK, Locals, Servers, Stage, Before, After
<1>7. CASE AmbientConnects
  BY <1>7 DEF AmbientConnects, To, Unlinked, LspTypeOK, Locals, Servers, Stage,
         Before, After
<1>8. CASE AmbientMissing
  BY <1>8 DEF AmbientMissing, To, Failing, MayFallBack, LspTypeOK, Locals, Servers,
         Stage, Before, After
<1>9. CASE PortReserved
  BY <1>9 DEF PortReserved, To, LspTypeOK, Locals, Servers, Stage, Before, After
<1>10. CASE Started BY <1>10 DEF Started, LspTypeOK, Locals, Servers, Stage, Before, After
<1>11. CASE StartFails
  BY <1>11 DEF StartFails, Failing, LspTypeOK, Locals, Servers, Stage, Before,
         After
<1>12. CASE OwnedConnects
  BY <1>12 DEF OwnedConnects, To, Unlinked, LspTypeOK, Locals, Servers, Stage,
         Before, After
<1>13. CASE Identified
  BY <1>13 DEF Identified, To, LspTypeOK, Locals, Servers, Stage, Before, After
<1>14. CASE Initialized
  BY <1>14 DEF Initialized, To, LspTypeOK, Locals, Servers, Stage, Before, After
<1>15. CASE WorkspaceVerified
  BY <1>15 DEF WorkspaceVerified, To, LspTypeOK, Locals, Servers, Stage, Before,
         After
<1>16. CASE FallsBack
  <2>1. /\ lsp' = [lsp EXCEPT !.step = "reserve"] /\ UNCHANGED <<server, ending>>
        /\ lsp.step \in {"initialize", "probe"} /\ ~lsp.spawned
    BY <1>16 DEF FallsBack, To, Handshake, MayFallBack
  <2>2. ~server.lease /\ ~lsp.debt /\ server.tree = "absent" BY <2>1 DEF Stage, After
  <2> QED BY <2>1, <2>2 DEF LspTypeOK, Locals, Stage, Before, After
<1>17. CASE TryFails
  <2>1. /\ \E e \in {"failure", "interrupt"} :
             lsp' = [lsp EXCEPT !.step = "stop", !.error = e]
        /\ lsp.step \in InTry /\ UNCHANGED <<server, ending>>
    BY <1>17 DEF TryFails, Failing
  <2>2. lsp'.step = "stop" /\ lsp'.spawned = lsp.spawned /\ lsp'.debt = lsp.debt
    BY <2>1 DEF LspTypeOK, Locals
  <2> QED BY <2>1, <2>2 DEF Stage, Before, After, InTry, Handshake
<1>18. CASE ScriptOpened
  BY <1>18 DEF ScriptOpened, LspTypeOK, Locals, Servers, Stage, Before, After
<1>19. CASE MessageReceived
  <2>1. lsp' \in {lsp, To("close")} /\ lsp.step = "wait" /\ UNCHANGED <<server, ending>>
    BY <1>19 DEF MessageReceived
  <2> QED BY <2>1 DEF To, LspTypeOK, Locals, Stage, Before, After
<1>20. CASE FileTimesOut
  BY <1>20 DEF FileTimesOut, LspTypeOK, Locals, Servers, Stage, Before, After
<1>21. CASE ScriptClosed
  BY <1>21 DEF ScriptClosed, To, LspTypeOK, Locals, Servers, Stage, Before, After
<1>22. CASE Reported
  BY <1>22 DEF Reported, To, Closed, LspTypeOK, Locals, Servers, Stage, Before,
         After
<1>23. CASE NothingToStop
  BY <1>23 DEF NothingToStop, To, HasLease, LspTypeOK, Locals, Servers, Stage,
         Before, After
<1>24. CASE StopsQuietly
  <2>1. /\ server'.tree = "gone" /\ server'.lease = server.lease
        /\ server'.port # "own" /\ lsp.step = "stop" /\ server.lease
    BY <1>24 DEF StopsQuietly, HasLease, LspTypeOK, Servers
  <2>2. /\ lsp'.step \in {"decide", "ended"}
        /\ ending'.kind # "none" => lsp'.step = "ended"
        /\ lsp'.spawned = lsp.spawned /\ lsp'.error = lsp.error /\ lsp'.debt = lsp.debt
    <3>1. CASE lsp' = To("decide") /\ UNCHANGED ending
      BY <2>1, <3>1 DEF To, LspTypeOK, Locals, Stage
    <3>2. CASE lsp' = To("ended") /\ ending' = Raised(FALSE) BY <3>2 DEF To, LspTypeOK, Locals
    <3> QED BY <1>24, <3>1, <3>2 DEF StopsQuietly
  <2>3. /\ lsp.spawned => server.lease
        /\ server.lease /\ ~lsp.spawned => lsp.error # "none"
    BY DEF Stage
  <2>4. lsp'.step \in After /\ lsp'.step \notin Before BY <2>2 DEF Before, After
  <2>5. /\ server'.tree # "absent" => server'.lease \/ lsp'.debt
        /\ lsp'.step \in {"decide", "write"} /\ ~lsp'.debt => server'.tree \in {"absent", "gone"}
    BY <2>1, <2>2
  <2> QED BY <2>1, <2>2, <2>3, <2>4, <2>5 DEF Stage
<1>25. CASE StopOwesCleanup
  BY <1>25 DEF StopOwesCleanup, To, HasLease, LspTypeOK, Locals, Servers, Stage,
         Before, After
<1>26. CASE Settled
  <2>1. /\ lsp' = [lsp EXCEPT !.step = "ended"] /\ lsp.step = "settle"
        /\ server'.lease = server.lease
        /\ server'.tree \in {server.tree, "gone"}
        /\ server'.tree = "gone" => server'.port # "own"
        /\ server'.tree # "gone" => server'.port = server.port
    BY <1>26 DEF Settled, To, LspTypeOK, Servers, Stage
  <2>2. lsp'.step = "ended" /\ lsp'.spawned = lsp.spawned /\ lsp'.debt = lsp.debt
    BY <2>1 DEF LspTypeOK, Locals
  <2> QED BY <2>1, <2>2 DEF Stage, Before, After
<1>27. CASE Decided
  <2>1. /\ lsp.step = "decide" /\ UNCHANGED server
        /\ \/ lsp.debt /\ lsp' = [lsp EXCEPT !.step = "settle"] /\ UNCHANGED ending
           \/ /\ ~lsp.debt /\ lsp.error = "none" /\ UNCHANGED ending
              /\ lsp' = [lsp EXCEPT !.step = "write"]
           \/ lsp' = [lsp EXCEPT !.step = "ended"]
    BY <1>27 DEF Decided, To
  <2>2. /\ lsp'.spawned = lsp.spawned /\ lsp'.debt = lsp.debt /\ lsp'.error = lsp.error
        /\ \/ lsp.debt /\ lsp'.step = "settle" /\ UNCHANGED ending
           \/ ~lsp.debt /\ lsp.error = "none" /\ lsp'.step = "write" /\ UNCHANGED ending
           \/ lsp'.step = "ended"
    BY <2>1 DEF LspTypeOK, Locals
  <2>3. CASE lsp'.step = "write" BY <2>1, <2>2, <2>3 DEF Stage, Before, After
  <2>4. CASE lsp'.step # "write" BY <2>1, <2>2, <2>4 DEF Stage, Before, After
  <2> QED BY <2>3, <2>4
<1>28. CASE ReportWritten
  BY <1>28 DEF ReportWritten, To, Raised, Verdict, LspTypeOK, Locals, Servers,
         Stage, Before, After
<1>29. ASSUME NEW n \in DOMAIN opened, Publishes(n) PROVE Stage'
  BY <1>29 DEF Publishes, LspTypeOK, Locals, Servers, Stage, Before, After
<1>30. ASSUME NEW s \in Scripts, ScriptEdited(s) PROVE Stage'
  BY <1>30 DEF ScriptEdited, LspTypeOK, Locals, Servers, Stage, Before, After
<1>31. CASE UNCHANGED lspVars
  BY <1>31 DEF lspVars, LspTypeOK, Locals, Servers, Stage, Before, After
<1>32. QED BY <1>1, <1>2, <1>3, <1>4, <1>5, <1>6, <1>7, <1>8, <1>9, <1>10, <1>11, <1>12, <1>13,
     <1>14, <1>15, <1>16, <1>17, <1>18, <1>19, <1>20, <1>21, <1>22, <1>23, <1>24, <1>25,
     <1>26, <1>27, <1>28, <1>29, <1>30, <1>31 DEF LspNext

\* Every step keeps the connection with the server that was identified.
LEMMA PeerStep ==
  ASSUME LspTypeOK, Stage, Peer, [LspNext]_lspVars
  PROVE  Peer'
<1>1. CASE OtherListens
  BY <1>1 DEF OtherListens, LspTypeOK, Locals, Servers, Stage, Before, After, Peer,
         Talking, Scanning
<1>2. CASE OtherLeaves
  BY <1>2 DEF OtherLeaves, Dropped, LspTypeOK, Locals, Servers, Stage, Before,
         After, Peer, Talking, Scanning
<1>3. CASE OwnListens
  BY <1>3 DEF OwnListens, LspTypeOK, Locals, Servers, Stage, Before, After, Peer,
         Talking, Scanning
<1>4. CASE OwnExits
  BY <1>4 DEF OwnExits, Dropped, LspTypeOK, Locals, Servers, Stage, Before, After,
         Peer, Talking, Scanning
<1>5. CASE OperationDeadlinePasses
  BY <1>5 DEF OperationDeadlinePasses, LspTypeOK, Locals, Servers, Stage, Before,
         After, Peer, Talking, Scanning
<1>6. CASE ConnectionBreaks
  BY <1>6 DEF ConnectionBreaks, LspTypeOK, Locals, Servers, Stage, Before, After,
         Peer, Talking, Scanning
<1>7. CASE AmbientConnects
  <2>1. /\ lsp' = [lsp EXCEPT !.step = "initialize"] /\ UNCHANGED server
        /\ link'.to = server.port /\ lsp.step = "ambient"
    BY <1>7 DEF AmbientConnects, To, Linked
  <2>2. ~lsp.spawned /\ server.port # "own" BY <2>1 DEF Stage, Before
  <2>3. lsp'.step = "initialize" /\ lsp'.spawned = lsp.spawned /\ lsp'.mode = lsp.mode
    BY <2>1 DEF LspTypeOK, Locals
  <2>4. lsp.mode # "spawn" BY <2>1, <2>2 DEF Peer
  <2> QED BY <2>1, <2>2, <2>3, <2>4 DEF Peer, Talking, Scanning
<1>8. CASE AmbientMissing
  <2>1. /\ lsp.step = "ambient" /\ UNCHANGED <<server, link>>
        /\ \/ MayFallBack /\ lsp' = [lsp EXCEPT !.step = "reserve"]
           \/ \E e \in {"failure", "interrupt"} : lsp' = [lsp EXCEPT !.step = "stop", !.error = e]
    BY <1>8 DEF AmbientMissing, To, Failing
  <2>2. \/ lsp'.step = "reserve"
        \/ lsp'.step = "stop" /\ lsp'.error # "none"
    BY <2>1 DEF LspTypeOK, Locals
  <2> QED BY <2>2 DEF Peer, Talking, Scanning
<1>9. CASE PortReserved
  BY <1>9 DEF PortReserved, To, LspTypeOK, Locals, Servers, Stage, Before, After,
         Peer, Talking, Scanning
<1>10. CASE Started
  BY <1>10 DEF Started, LspTypeOK, Locals, Servers, Stage, Before, After, Peer,
         Talking, Scanning
<1>11. CASE StartFails
  BY <1>11 DEF StartFails, Failing, LspTypeOK, Locals, Servers, Stage, Before,
         After, Peer, Talking, Scanning
<1>12. CASE OwnedConnects
  BY <1>12 DEF OwnedConnects, To, Unlinked, LspTypeOK, Locals, Servers, Stage,
         Before, After, Peer, Talking, Scanning
<1>13. CASE Identified
  BY <1>13 DEF Identified, To, LspTypeOK, Locals, Servers, Stage, Before, After,
         Peer, Talking, Scanning
<1>14. CASE Initialized
  BY <1>14 DEF Initialized, To, LspTypeOK, Locals, Servers, Stage, Before, After,
         Peer, Talking, Scanning
<1>15. CASE WorkspaceVerified
  BY <1>15 DEF WorkspaceVerified, To, LspTypeOK, Locals, Servers, Stage, Before,
         After, Peer, Talking, Scanning
<1>16. CASE FallsBack
  BY <1>16 DEF FallsBack, To, Unlinked, Handshake, LspTypeOK, Locals, Servers,
         Stage, Before, After, Peer, Talking, Scanning
<1>17. CASE TryFails
  <2>1. \E e \in {"failure", "interrupt"} : lsp' = [lsp EXCEPT !.step = "stop", !.error = e]
    BY <1>17 DEF TryFails, Failing
  <2> QED BY <2>1 DEF LspTypeOK, Locals, Peer, Talking, Scanning
<1>18. CASE ScriptOpened
  BY <1>18 DEF ScriptOpened, LspTypeOK, Locals, Servers, Stage, Before, After,
         Peer, Talking, Scanning
<1>19. CASE MessageReceived
  <2>1. /\ lsp' \in {lsp, [lsp EXCEPT !.step = "close"]} /\ lsp.step = "wait"
        /\ UNCHANGED server
    BY <1>19 DEF MessageReceived, To
  <2>2. link'.to = link.to BY <1>19 DEF MessageReceived, LspTypeOK, Links
  <2> QED BY <2>1, <2>2 DEF LspTypeOK, Locals, Peer, Talking, Scanning
<1>20. CASE FileTimesOut
  BY <1>20 DEF FileTimesOut, LspTypeOK, Locals, Servers, Stage, Before, After,
         Peer, Talking, Scanning
<1>21. CASE ScriptClosed
  BY <1>21 DEF ScriptClosed, To, LspTypeOK, Locals, Servers, Stage, Before, After,
         Peer, Talking, Scanning
<1>22. CASE Reported
  <2>1. /\ lsp' = [lsp EXCEPT !.step = "stop"] /\ lsp.step = "report"
        /\ UNCHANGED server /\ link'.to = link.to
    BY <1>22 DEF Reported, To, Closed, Linked
  <2> QED BY <2>1 DEF LspTypeOK, Locals, Peer, Talking, Scanning
<1>23. CASE NothingToStop
  BY <1>23 DEF NothingToStop, To, HasLease, LspTypeOK, Locals, Servers, Stage,
         Before, After, Peer, Talking, Scanning
<1>24. CASE StopsQuietly
  BY <1>24 DEF StopsQuietly, To, HasLease, Raised, LspTypeOK, Locals, Servers,
         Stage, Before, After, Peer, Talking, Scanning
<1>25. CASE StopOwesCleanup
  BY <1>25 DEF StopOwesCleanup, To, HasLease, LspTypeOK, Locals, Servers, Stage,
         Before, After, Peer, Talking, Scanning
<1>26. CASE Settled
  BY <1>26 DEF Settled, To, Raised, LspTypeOK, Locals, Servers, Stage, Before,
         After, Peer, Talking, Scanning
<1>27. CASE Decided
  BY <1>27 DEF Decided, To, Raised, LspTypeOK, Locals, Servers, Stage, Before,
         After, Peer, Talking, Scanning
<1>28. CASE ReportWritten
  BY <1>28 DEF ReportWritten, To, Raised, Verdict, LspTypeOK, Locals, Servers,
         Stage, Before, After, Peer, Talking, Scanning
<1>29. ASSUME NEW n \in DOMAIN opened, Publishes(n) PROVE Peer'
  BY <1>29 DEF Publishes, LspTypeOK, Locals, Servers, Stage, Before, After, Peer,
         Talking, Scanning
<1>30. ASSUME NEW s \in Scripts, ScriptEdited(s) PROVE Peer'
  BY <1>30 DEF ScriptEdited, LspTypeOK, Locals, Servers, Stage, Before, After,
         Peer, Talking, Scanning
<1>31. CASE UNCHANGED lspVars
  BY <1>31 DEF lspVars, LspTypeOK, Locals, Servers, Stage, Before, After, Peer,
         Talking, Scanning
<1>32. QED BY <1>1, <1>2, <1>3, <1>4, <1>5, <1>6, <1>7, <1>8, <1>9, <1>10, <1>11, <1>12, <1>13,
     <1>14, <1>15, <1>16, <1>17, <1>18, <1>19, <1>20, <1>21, <1>22, <1>23, <1>24, <1>25,
     <1>26, <1>27, <1>28, <1>29, <1>30, <1>31 DEF LspNext

\* Every step keeps the answers that were taken right.
LEMMA ScanStep ==
  ASSUME LspTypeOK, Stage, Scan, [LspNext]_lspVars
  PROVE  Scan'
<1>1. CASE OtherListens
  BY <1>1 DEF OtherListens, LspTypeOK, Locals, Servers, Stage, Before, After, Scan,
         Scanning, Answered, Pending
<1>2. CASE OtherLeaves
  BY <1>2 DEF OtherLeaves, Dropped, LspTypeOK, Locals, Servers, Stage, Before,
         After, Scan, Scanning, Answered, Pending
<1>3. CASE OwnListens
  BY <1>3 DEF OwnListens, LspTypeOK, Locals, Servers, Stage, Before, After, Scan,
         Scanning, Answered, Pending
<1>4. CASE OwnExits
  BY <1>4 DEF OwnExits, Dropped, LspTypeOK, Locals, Servers, Stage, Before, After,
         Scan, Scanning, Answered, Pending
<1>5. CASE OperationDeadlinePasses
  BY <1>5 DEF OperationDeadlinePasses, LspTypeOK, Locals, Servers, Stage, Before,
         After, Scan, Scanning, Answered, Pending
<1>6. CASE ConnectionBreaks
  BY <1>6 DEF ConnectionBreaks, LspTypeOK, Locals, Servers, Stage, Before, After,
         Scan, Scanning, Answered, Pending
<1>7. CASE AmbientConnects
  BY <1>7 DEF AmbientConnects, To, Unlinked, LspTypeOK, Locals, Servers, Stage,
         Before, After, Scan, Scanning, Answered, Pending
<1>8. CASE AmbientMissing
  <2>1. lsp.step = "ambient" /\ lsp.error = "none" /\ lsp.todo = Scripts /\ opened' = opened
    BY <1>8 DEF AmbientMissing, Stage, After, Scan, Scanning
  <2>2. /\ lsp'.todo = lsp.todo
        /\ \/ lsp'.step = "reserve" /\ lsp'.error = lsp.error
           \/ lsp'.step = "stop" /\ lsp'.error # "none"
    BY <1>8 DEF AmbientMissing, To, Failing, LspTypeOK, Locals
  <2> QED BY <2>1, <2>2 DEF Scan, Scanning, After
<1>9. CASE PortReserved
  BY <1>9 DEF PortReserved, To, LspTypeOK, Locals, Servers, Stage, Before, After,
         Scan, Scanning, Answered, Pending
<1>10. CASE Started
  BY <1>10 DEF Started, LspTypeOK, Locals, Servers, Stage, Before, After, Scan,
         Scanning, Answered, Pending
<1>11. CASE StartFails
  BY <1>11 DEF StartFails, Failing, LspTypeOK, Locals, Servers, Stage, Before,
         After, Scan, Scanning, Answered, Pending
<1>12. CASE OwnedConnects
  BY <1>12 DEF OwnedConnects, To, Unlinked, LspTypeOK, Locals, Servers, Stage,
         Before, After, Scan, Scanning, Answered, Pending
<1>13. CASE Identified
  BY <1>13 DEF Identified, To, LspTypeOK, Locals, Servers, Stage, Before, After,
         Scan, Scanning, Answered, Pending
<1>14. CASE Initialized
  BY <1>14 DEF Initialized, To, LspTypeOK, Locals, Servers, Stage, Before, After,
         Scan, Scanning, Answered, Pending
<1>15. CASE WorkspaceVerified
  BY <1>15 DEF WorkspaceVerified, To, LspTypeOK, Locals, Servers, Stage, Before,
         After, Scan, Scanning, Answered, Pending
<1>16. CASE FallsBack
  BY <1>16 DEF FallsBack, To, Unlinked, Handshake, LspTypeOK, Locals, Servers,
         Stage, Before, After, Scan, Scanning, Answered, Pending
<1>17. CASE TryFails
  BY <1>17 DEF TryFails, Failing, Closed, InTry, Handshake, LspTypeOK, Locals,
         Servers, Stage, Before, After, Scan, Scanning, Answered, Pending
<1>18. CASE ScriptOpened
  <2> PICK s \in lsp.todo :
        /\ opened' = Append(opened, [script |-> s, version |-> NextVersion(s),
                                     text |-> texts.now[s]])
        /\ lsp' = [lsp EXCEPT !.step = "wait", !.script = s]
    BY <1>18 DEF ScriptOpened
  <2>1. lsp.step = "open" /\ UNCHANGED <<answers, server>> /\ s \in Scripts
    BY <1>18 DEF ScriptOpened, LspTypeOK, Locals
  <2>2. /\ lsp'.step = "wait" /\ lsp'.script = s
        /\ lsp'.todo = lsp.todo /\ lsp'.timedOut = lsp.timedOut /\ lsp'.error = lsp.error
    BY DEF LspTypeOK, Locals
  <2>3. /\ Len(opened) \in Nat /\ DOMAIN opened = 1 .. Len(opened)
        /\ DOMAIN opened' = 1 .. Len(opened) + 1
        /\ \A n \in DOMAIN opened : opened'[n] = opened[n]
        /\ opened'[Len(opened) + 1].script = s
        /\ opened'[Len(opened) + 1].version = Len(opened) + 1
    BY DEF NextVersion, LspTypeOK
  <2>4. \A n \in DOMAIN opened' : opened'[n].version = n BY <2>3 DEF Scan
  <2>5. ASSUME lsp.error = "none", NEW t \in Scripts \ (lsp.todo \cup lsp.timedOut)
        PROVE  Answered(t)'
    <3>1. Answered(t) /\ t # s BY <2>1, <2>5 DEF Scan, Scanning, Pending
    <3>2. answers'[t] = answers[t] /\ answers[t] \in DOMAIN opened BY <2>1, <3>1 DEF Answered
    <3>3. ASSUME server.versions, NEW n \in DOMAIN opened', opened'[n].script = t
          PROVE  n <= answers[t]
      <4>1. n \in DOMAIN opened BY <2>3, <3>1, <3>3
      <4> QED BY <2>3, <3>1, <3>3, <4>1 DEF Answered
    <3> QED BY <2>1, <2>3, <3>1, <3>2, <3>3 DEF Answered
  <2>6. opened' # <<>> BY <2>3
  <2> QED BY <2>1, <2>2, <2>4, <2>5, <2>6 DEF Scan, Scanning, Pending, LspTypeOK
<1>19. CASE MessageReceived
  <2> DEFINE n == Head(link.wire)
  <2>1. lsp.step = "wait" /\ UNCHANGED <<server, opened>> /\ n \in DOMAIN opened
    BY <1>19 DEF MessageReceived, LspTypeOK, Links
  <2>2. CASE ~Answers(n)
    BY <1>19, <2>1, <2>2 DEF MessageReceived, LspTypeOK, Scan, Pending, Answered
  <2>3. CASE Answers(n)
    <3>1. answers' = [answers EXCEPT ![lsp.script] = n] /\ lsp' = [lsp EXCEPT !.step = "close"]
      BY <1>19, <2>3 DEF MessageReceived, To
    <3>2. /\ lsp'.step = "close" /\ lsp'.script = lsp.script /\ lsp'.todo = lsp.todo
          /\ lsp'.timedOut = lsp.timedOut /\ lsp'.error = lsp.error
          /\ lsp.script \in Scripts
      BY <3>1 DEF LspTypeOK, Locals
    <3>3. answers'[lsp.script] = n BY <3>1, <3>2 DEF LspTypeOK
    <3>4. server.versions => n = Len(opened) BY <2>1, <2>3 DEF Answers, Scan, LspTypeOK
    <3>5. Answered(lsp.script)' BY <2>1, <2>3, <3>2, <3>3, <3>4 DEF Answered, Answers, LspTypeOK
    <3>6. ASSUME lsp.error = "none", NEW t \in Scripts \ (lsp.todo \cup lsp.timedOut),
                 t # lsp.script
          PROVE  Answered(t)'
      <4>1. Answered(t) BY <2>1, <3>6 DEF Scan, Scanning, Pending
      <4>2. answers'[t] = answers[t] BY <3>1, <3>6 DEF LspTypeOK
      <4> QED BY <2>1, <4>1, <4>2 DEF Answered
    <3>7. lsp'.error = "none" =>
            \A t \in Scripts \ (Pending' \cup lsp'.timedOut) : Answered(t)'
      <4> SUFFICES ASSUME lsp.error = "none",
                          NEW t \in Scripts \ (Pending' \cup lsp.timedOut)
                   PROVE  Answered(t)'
        BY <3>2
      <4>1. Pending' = lsp.todo \ {lsp.script} BY <3>2 DEF Pending
      <4>2. CASE t = lsp.script BY <2>1, <3>2, <3>5, <4>2 DEF Answered
      <4>3. CASE t # lsp.script BY <3>6, <4>1, <4>3
      <4> QED BY <4>2, <4>3
    <3> QED BY <2>1, <3>2, <3>7 DEF Scan, Scanning
  <2> QED BY <2>2, <2>3
<1>20. CASE FileTimesOut
  BY <1>20 DEF FileTimesOut, LspTypeOK, Locals, Servers, Stage, Before, After,
         Scan, Scanning, Answered, Pending
<1>21. CASE ScriptClosed
  BY <1>21 DEF ScriptClosed, To, LspTypeOK, Locals, Servers, Stage, Before, After,
         Scan, Scanning, Answered, Pending
<1>22. CASE Reported
  BY <1>22 DEF Reported, To, Closed, LspTypeOK, Locals, Servers, Stage, Before,
         After, Scan, Scanning, Answered, Pending
<1>23. CASE NothingToStop
  BY <1>23 DEF NothingToStop, To, HasLease, LspTypeOK, Locals, Servers, Stage,
         Before, After, Scan, Scanning, Answered, Pending
<1>24. CASE StopsQuietly
  <2>1. /\ lsp.step = "stop" /\ UNCHANGED <<opened, answers>>
        /\ server'.versions = server.versions
        /\ \/ lsp' = [lsp EXCEPT !.step = "decide"]
           \/ lsp' = [lsp EXCEPT !.step = "ended"]
    BY <1>24 DEF StopsQuietly, To, LspTypeOK, Servers
  <2>2. /\ lsp'.step \in {"decide", "ended"} /\ lsp'.error = lsp.error
        /\ lsp'.timedOut = lsp.timedOut
    BY <2>1 DEF LspTypeOK, Locals
  <2>3. lsp.error = "none" => \A s \in Scripts \ lsp.timedOut : Answered(s)
    BY <2>1 DEF Scan, Scanning, Pending
  <2>4. Pending' = {} /\ \A s : Answered(s) => Answered(s)' BY <2>1, <2>2 DEF Pending, Answered
  <2> QED BY <2>1, <2>2, <2>3, <2>4 DEF Scan, Scanning, After
<1>25. CASE StopOwesCleanup
  BY <1>25 DEF StopOwesCleanup, To, HasLease, LspTypeOK, Locals, Servers, Stage,
         Before, After, Scan, Scanning, Answered, Pending
<1>26. CASE Settled
  BY <1>26 DEF Settled, To, Raised, LspTypeOK, Locals, Servers, Stage, Before,
         After, Scan, Scanning, Answered, Pending
<1>27. CASE Decided
  BY <1>27 DEF Decided, To, Raised, LspTypeOK, Locals, Servers, Stage, Before,
         After, Scan, Scanning, Answered, Pending
<1>28. CASE ReportWritten
  BY <1>28 DEF ReportWritten, To, Raised, Verdict, LspTypeOK, Locals, Servers,
         Stage, Before, After, Scan, Scanning, Answered, Pending
<1>29. ASSUME NEW n \in DOMAIN opened, Publishes(n) PROVE Scan'
  BY <1>29 DEF Publishes, LspTypeOK, Locals, Servers, Stage, Before, After, Scan,
         Scanning, Answered, Pending
<1>30. ASSUME NEW s \in Scripts, ScriptEdited(s) PROVE Scan'
  BY <1>30 DEF ScriptEdited, LspTypeOK, Locals, Servers, Stage, Before, After,
         Scan, Scanning, Answered, Pending
<1>31. CASE UNCHANGED lspVars
  BY <1>31 DEF lspVars, LspTypeOK, Locals, Servers, Stage, Before, After, Scan,
         Scanning, Answered, Pending
<1>32. QED BY <1>1, <1>2, <1>3, <1>4, <1>5, <1>6, <1>7, <1>8, <1>9, <1>10, <1>11, <1>12, <1>13,
     <1>14, <1>15, <1>16, <1>17, <1>18, <1>19, <1>20, <1>21, <1>22, <1>23, <1>24, <1>25,
     <1>26, <1>27, <1>28, <1>29, <1>30, <1>31 DEF LspNext

\* No step ends the call with a process tree nobody was told of.
LEMMA SettledStep ==
  ASSUME LspTypeOK, Stage, ServerSettled, [LspNext]_lspVars
  PROVE  ServerSettled'
<1>1. CASE OtherListens
  BY <1>1 DEF OtherListens, LspTypeOK, Locals, Servers, Stage, Before, After,
         ServerSettled, LspOver
<1>2. CASE OtherLeaves
  BY <1>2 DEF OtherLeaves, Dropped, LspTypeOK, Locals, Servers, Stage, Before,
         After, ServerSettled, LspOver
<1>3. CASE OwnListens
  BY <1>3 DEF OwnListens, LspTypeOK, Locals, Servers, Stage, Before, After,
         ServerSettled, LspOver
<1>4. CASE OwnExits
  BY <1>4 DEF OwnExits, Dropped, LspTypeOK, Locals, Servers, Stage, Before, After,
         ServerSettled, LspOver
<1>5. CASE OperationDeadlinePasses
  BY <1>5 DEF OperationDeadlinePasses, LspTypeOK, Locals, Servers, Stage, Before,
         After, ServerSettled, LspOver
<1>6. CASE ConnectionBreaks
  BY <1>6 DEF ConnectionBreaks, LspTypeOK, Locals, Servers, Stage, Before, After,
         ServerSettled, LspOver
<1>7. CASE AmbientConnects
  BY <1>7 DEF AmbientConnects, To, Unlinked, LspTypeOK, Locals, Servers, Stage,
         Before, After, ServerSettled, LspOver
<1>8. CASE AmbientMissing
  BY <1>8 DEF AmbientMissing, To, Failing, MayFallBack, LspTypeOK, Locals, Servers,
         Stage, Before, After, ServerSettled, LspOver
<1>9. CASE PortReserved
  BY <1>9 DEF PortReserved, To, LspTypeOK, Locals, Servers, Stage, Before, After,
         ServerSettled, LspOver
<1>10. CASE Started
  BY <1>10 DEF Started, LspTypeOK, Locals, Servers, Stage, Before, After,
         ServerSettled, LspOver
<1>11. CASE StartFails
  BY <1>11 DEF StartFails, Failing, LspTypeOK, Locals, Servers, Stage, Before,
         After, ServerSettled, LspOver
<1>12. CASE OwnedConnects
  BY <1>12 DEF OwnedConnects, To, Unlinked, LspTypeOK, Locals, Servers, Stage,
         Before, After, ServerSettled, LspOver
<1>13. CASE Identified
  BY <1>13 DEF Identified, To, LspTypeOK, Locals, Servers, Stage, Before, After,
         ServerSettled, LspOver
<1>14. CASE Initialized
  BY <1>14 DEF Initialized, To, LspTypeOK, Locals, Servers, Stage, Before, After,
         ServerSettled, LspOver
<1>15. CASE WorkspaceVerified
  BY <1>15 DEF WorkspaceVerified, To, LspTypeOK, Locals, Servers, Stage, Before,
         After, ServerSettled, LspOver
<1>16. CASE FallsBack
  BY <1>16 DEF FallsBack, To, Unlinked, Handshake, LspTypeOK, Locals, Servers,
         Stage, Before, After, ServerSettled, LspOver
<1>17. CASE TryFails
  BY <1>17 DEF TryFails, Failing, Closed, InTry, Handshake, LspTypeOK, Locals,
         Servers, Stage, Before, After, ServerSettled, LspOver
<1>18. CASE ScriptOpened
  BY <1>18 DEF ScriptOpened, LspTypeOK, Locals, Servers, Stage, Before, After,
         ServerSettled, LspOver
<1>19. CASE MessageReceived
  BY <1>19 DEF MessageReceived, To, Answers, LspTypeOK, Locals, Servers, Stage,
         Before, After, ServerSettled, LspOver
<1>20. CASE FileTimesOut
  BY <1>20 DEF FileTimesOut, LspTypeOK, Locals, Servers, Stage, Before, After,
         ServerSettled, LspOver
<1>21. CASE ScriptClosed
  BY <1>21 DEF ScriptClosed, To, LspTypeOK, Locals, Servers, Stage, Before, After,
         ServerSettled, LspOver
<1>22. CASE Reported
  BY <1>22 DEF Reported, To, Closed, LspTypeOK, Locals, Servers, Stage, Before,
         After, ServerSettled, LspOver
<1>23. CASE NothingToStop
  BY <1>23 DEF NothingToStop, To, HasLease, LspTypeOK, Locals, Servers, Stage,
         Before, After, ServerSettled, LspOver
<1>24. CASE StopsQuietly
  BY <1>24 DEF StopsQuietly, To, HasLease, Raised, LspTypeOK, Locals, Servers,
         Stage, Before, After, ServerSettled, LspOver
<1>25. CASE StopOwesCleanup
  BY <1>25 DEF StopOwesCleanup, To, HasLease, LspTypeOK, Locals, Servers, Stage,
         Before, After, ServerSettled, LspOver
<1>26. CASE Settled
  BY <1>26 DEF Settled, To, Raised, LspTypeOK, Locals, Servers, Stage, Before,
         After, ServerSettled, LspOver
<1>27. CASE Decided
  BY <1>27 DEF Decided, To, Raised, LspTypeOK, Locals, Servers, Stage, Before,
         After, ServerSettled, LspOver
<1>28. CASE ReportWritten
  BY <1>28 DEF ReportWritten, To, Raised, Verdict, LspTypeOK, Locals, Servers,
         Stage, Before, After, ServerSettled, LspOver
<1>29. ASSUME NEW n \in DOMAIN opened, Publishes(n) PROVE ServerSettled'
  BY <1>29 DEF Publishes, LspTypeOK, Locals, Servers, Stage, Before, After,
         ServerSettled, LspOver
<1>30. ASSUME NEW s \in Scripts, ScriptEdited(s) PROVE ServerSettled'
  BY <1>30 DEF ScriptEdited, LspTypeOK, Locals, Servers, Stage, Before, After,
         ServerSettled, LspOver
<1>31. CASE UNCHANGED lspVars
  BY <1>31 DEF lspVars, LspTypeOK, Locals, Servers, Stage, Before, After,
         ServerSettled, LspOver
<1>32. QED BY <1>1, <1>2, <1>3, <1>4, <1>5, <1>6, <1>7, <1>8, <1>9, <1>10, <1>11, <1>12, <1>13,
     <1>14, <1>15, <1>16, <1>17, <1>18, <1>19, <1>20, <1>21, <1>22, <1>23, <1>24, <1>25,
     <1>26, <1>27, <1>28, <1>29, <1>30, <1>31 DEF LspNext

\* No step makes a verdict that is not earned.
LEMMA VerdictStep ==
  ASSUME LspTypeOK, Stage, Peer, Scan, VerdictEarned, [LspNext]_lspVars
  PROVE  VerdictEarned'
<1>1. CASE OtherListens BY <1>1 DEF OtherListens, LspTypeOK, Stage, VerdictEarned
<1>2. CASE OtherLeaves BY <1>2 DEF OtherLeaves, Dropped, LspTypeOK, Stage, VerdictEarned
<1>3. CASE OwnListens BY <1>3 DEF OwnListens, LspTypeOK, Stage, VerdictEarned
<1>4. CASE OwnExits BY <1>4 DEF OwnExits, Dropped, LspTypeOK, Stage, VerdictEarned
<1>5. CASE OperationDeadlinePasses
  BY <1>5 DEF OperationDeadlinePasses, LspTypeOK, Stage, VerdictEarned
<1>6. CASE ConnectionBreaks BY <1>6 DEF ConnectionBreaks, LspTypeOK, Stage, VerdictEarned
<1>7. CASE AmbientConnects
  BY <1>7 DEF AmbientConnects, To, Unlinked, LspTypeOK, Stage, VerdictEarned
<1>8. CASE AmbientMissing
  BY <1>8 DEF AmbientMissing, To, Failing, MayFallBack, LspTypeOK, Stage,
         VerdictEarned
<1>9. CASE PortReserved BY <1>9 DEF PortReserved, To, LspTypeOK, Stage, VerdictEarned
<1>10. CASE Started BY <1>10 DEF Started, LspTypeOK, Stage, VerdictEarned
<1>11. CASE StartFails BY <1>11 DEF StartFails, Failing, LspTypeOK, Stage, VerdictEarned
<1>12. CASE OwnedConnects
  BY <1>12 DEF OwnedConnects, To, Unlinked, LspTypeOK, Stage, VerdictEarned
<1>13. CASE Identified BY <1>13 DEF Identified, To, LspTypeOK, Stage, VerdictEarned
<1>14. CASE Initialized BY <1>14 DEF Initialized, To, LspTypeOK, Stage, VerdictEarned
<1>15. CASE WorkspaceVerified
  BY <1>15 DEF WorkspaceVerified, To, LspTypeOK, Stage, VerdictEarned
<1>16. CASE FallsBack
  BY <1>16 DEF FallsBack, To, Unlinked, Handshake, LspTypeOK, Stage, VerdictEarned
<1>17. CASE TryFails
  BY <1>17 DEF TryFails, Failing, Closed, InTry, Handshake, LspTypeOK, Stage,
         VerdictEarned
<1>18. CASE ScriptOpened BY <1>18 DEF ScriptOpened, LspTypeOK, Stage, VerdictEarned
<1>19. CASE MessageReceived
  BY <1>19 DEF MessageReceived, To, Answers, LspTypeOK, Stage, VerdictEarned
<1>20. CASE FileTimesOut BY <1>20 DEF FileTimesOut, LspTypeOK, Stage, VerdictEarned
<1>21. CASE ScriptClosed BY <1>21 DEF ScriptClosed, To, LspTypeOK, Stage, VerdictEarned
<1>22. CASE Reported BY <1>22 DEF Reported, To, Closed, LspTypeOK, Stage, VerdictEarned
<1>23. CASE NothingToStop
  BY <1>23 DEF NothingToStop, To, HasLease, LspTypeOK, Stage, VerdictEarned
<1>24. CASE StopsQuietly
  BY <1>24 DEF StopsQuietly, To, HasLease, Raised, LspTypeOK, Stage, VerdictEarned
<1>25. CASE StopOwesCleanup
  BY <1>25 DEF StopOwesCleanup, To, HasLease, LspTypeOK, Stage, VerdictEarned
<1>26. CASE Settled BY <1>26 DEF Settled, To, Raised, LspTypeOK, Stage, VerdictEarned
<1>27. CASE Decided
  <2>1. ending'.kind # "ok" BY <1>27 DEF Decided, Raised, Stage, LspTypeOK, Endings
  <2> QED BY <2>1 DEF VerdictEarned
<1>28. CASE ReportWritten
  <2>1. CASE ending'.kind = "ok"
    <3>9. /\ lsp.step = "write" /\ lsp' = [lsp EXCEPT !.step = "ended"]
          /\ UNCHANGED <<server, link, opened, answers>>
          /\ \/ ending' = [ending EXCEPT !.kind = Verdict, !.owned = lsp.spawned]
             \/ ending' = [ending EXCEPT !.kind = "tool_error"]
             \/ ending' = Raised(FALSE)
      BY <1>28 DEF ReportWritten, To
    <3>10. ending' = [ending EXCEPT !.kind = Verdict, !.owned = lsp.spawned]
      BY <2>1, <3>9 DEF Raised, LspTypeOK, Endings
    <3>1. Verdict = "ok" /\ ending'.owned = lsp.spawned BY <2>1, <3>10 DEF LspTypeOK, Endings
    <3>2. /\ lsp.error = "none" /\ lsp.timedOut = {}
          /\ \A s \in Scripts : opened[answers[s]].text # "failing"
      BY <3>1, <3>9 DEF Verdict, Stage, After
    <3>3. \A s \in Scripts : Answered(s) BY <3>9, <3>2 DEF Scan, Scanning, Pending
    <3>11. \A i \in DOMAIN opened : opened[i].text \in Texts
      <4>1. \A i \in DOMAIN opened : opened[i] \in Openings BY DEF LspTypeOK
      <4> QED BY <4>1 DEF Openings
    <3>4. \A s \in Scripts : opened[answers[s]].text \in Texts BY <3>3, <3>11 DEF Answered
    <3>5. \A s \in Scripts :
            /\ answers[s] # 0 /\ opened[answers[s]].script = s
            /\ opened[answers[s]].text = "clean"
      BY <3>2, <3>3, <3>4 DEF Answered, Texts, LspTypeOK
    <3>6. /\ lsp.spawned <=> link.to = "own"
          /\ link.to = "own" \/ server.project
          /\ lsp.mode = "spawn" => lsp.spawned
      BY <3>9, <3>2 DEF Peer, Scanning
    <3>7. lsp.spawned => server.tree = "gone" BY <3>9 DEF Stage
    <3>8. server.versions =>
            \A s \in Scripts : \A n \in DOMAIN opened : opened[n].script = s => n <= answers[s]
      BY <3>3 DEF Answered
    <3> QED BY <3>1, <3>9, <3>5, <3>6, <3>7, <3>8 DEF VerdictEarned, LspTypeOK, Locals
  <2>2. CASE ending'.kind # "ok" BY <2>2 DEF VerdictEarned
  <2> QED BY <2>1, <2>2
<1>29. ASSUME NEW n \in DOMAIN opened, Publishes(n) PROVE VerdictEarned'
  BY <1>29 DEF Publishes, LspTypeOK, Stage, VerdictEarned
<1>30. ASSUME NEW s \in Scripts, ScriptEdited(s) PROVE VerdictEarned'
  BY <1>30 DEF ScriptEdited, LspTypeOK, Stage, VerdictEarned
<1>31. CASE UNCHANGED lspVars BY <1>31 DEF lspVars, LspTypeOK, Stage, VerdictEarned
<1>32. QED BY <1>1, <1>2, <1>3, <1>4, <1>5, <1>6, <1>7, <1>8, <1>9, <1>10, <1>11, <1>12, <1>13,
     <1>14, <1>15, <1>16, <1>17, <1>18, <1>19, <1>20, <1>21, <1>22, <1>23, <1>24, <1>25,
     <1>26, <1>27, <1>28, <1>29, <1>30, <1>31 DEF LspNext

\* The call starts as the invariant says: nothing is spawned, sent or answered.
LEMMA LspInitial ==
  ASSUME LspInit
  PROVE  LspInv
<1>1. LspTypeOK
  <2>1. lsp \in Locals /\ server \in Servers
    BY LspAssumption DEF LspInit, Locals, Servers, Steps, InTry, Scripts
  <2>2. link \in Links /\ link.wire = <<>> BY LinksMade DEF LspInit, Unlinked
  <2>3. ending \in Endings /\ opened \in Seq(Openings) /\ answers \in [Scripts -> {0} \cup DOMAIN opened]
    BY DEF LspInit, Endings
  <2>4. texts \in [now : [Scripts -> Texts], edits : 0 .. MaxTextEdits]
    BY LspAssumption DEF LspInit
  <2> QED BY <2>1, <2>2, <2>3, <2>4, LspAssumption DEF LspTypeOK
<1>2. /\ lsp.step \in {"reserve", "ambient"} /\ (lsp.mode = "spawn" => lsp.step = "reserve")
      /\ lsp.spawned = FALSE /\ lsp.todo = Scripts /\ lsp.error = "none" /\ lsp.debt = FALSE
      /\ server.lease = FALSE /\ server.tree = "absent" /\ server.port = "nobody"
      /\ opened = <<>> /\ ending.kind = "none"
  BY DEF LspInit
<1>3. Stage BY <1>2 DEF Stage, Before
<1>4. Peer BY <1>2 DEF Peer, Talking, Scanning
<1>5. Scan BY <1>2 DEF Scan, Scanning
<1>6. VerdictEarned /\ ServerSettled BY <1>2 DEF VerdictEarned, ServerSettled
<1> QED BY <1>1, <1>3, <1>4, <1>5, <1>6 DEF LspInv

\* In every state of the call the steps, the server, the connection and the answers
\* fit together, whatever the server, other programs and interrupts do.
THEOREM LspInvariant == LspSpec => []LspInv
<1>1. LspInit => LspInv BY LspInitial
<1>2. LspInv /\ [LspNext]_lspVars => LspInv'
  BY TypeStep, StageStep, PeerStep, ScanStep, VerdictStep, SettledStep DEF LspInv
<1> QED BY <1>1, <1>2, PTL DEF LspSpec

\* The types of main()'s variables.
THEOREM LspTypesHold == LspSpec => []LspTypeOK
<1>1. LspInv => LspTypeOK BY DEF LspInv
<1> QED BY <1>1, LspInvariant, PTL

\* Exit code 0 of the diagnostics is earned: for any number of scripts and retry
\* passes, whatever is published, however late, by whoever listens at the port.
THEOREM VerdictIsEarned == LspSpec => []VerdictEarned
<1>1. LspInv => VerdictEarned BY DEF LspInv
<1> QED BY <1>1, LspInvariant, PTL

\* However main() of the diagnostics ends, the language server it started is gone or
\* the raised error owns up to its cleanup.
THEOREM ServerIsSettled == LspSpec => []ServerSettled
<1>1. LspInv => ServerSettled BY DEF LspInv
<1> QED BY <1>1, LspInvariant, PTL

-----------------------------------------------------------------------------
(***************************************************************************)
(* ParallelFull: what a full run deletes, aggregates and calls ok, for any *)
(* number of jobs, whatever fails, is interrupted, or takes too long.      *)
(***************************************************************************)

\* The plan holds the four shards of the repository, each once.
LEMMA PlanIs ==
  /\ Len(Plan) = 4 /\ Plan[1] = "framework-static" /\ Plan[2] = "framework-integration"
  /\ Plan[3] = "framework-gut" /\ Plan[4] = "framework-lsp"
  /\ Shards = {"framework-static", "framework-integration", "framework-gut", "framework-lsp"}
<1>1. /\ Len(Plan) = 4 /\ Plan[1] = "framework-static" /\ Plan[2] = "framework-integration"
      /\ Plan[3] = "framework-gut" /\ Plan[4] = "framework-lsp" /\ DOMAIN Plan = 1 .. 4
  BY DEF Plan
<1>2. Shards = {Plan[i] : i \in 1 .. 4} BY <1>1 DEF Shards, Range
<1> QED BY <1>1, <1>2

\* What is appended to a tuple of known length.
LEMMA TupleOfOne ==
  ASSUME NEW a
  PROVE  Append(<<>>, a) = <<a>>
OBVIOUS

LEMMA TupleOfTwo ==
  ASSUME NEW a, NEW b
  PROVE  Append(<<a>>, b) = <<a, b>>
<1> DEFINE S == {a, b}
<1>1. a \in S /\ b \in S OBVIOUS
<1> HIDE DEF S
<1>2. /\ <<a>> \in Seq(S) /\ <<a, b>> \in Seq(S)
      /\ Len(<<a>>) = 1 /\ Len(<<a, b>>) = 2
      /\ <<a>>[1] = a
  BY <1>1
<1>3. /\ Append(<<a>>, b) \in Seq(S) /\ Len(Append(<<a>>, b)) = 2
      /\ Append(<<a>>, b)[1] = a /\ Append(<<a>>, b)[2] = b
  BY <1>1, <1>2, AppendProperties
<1>4. \A i \in 1 .. 2 : Append(<<a>>, b)[i] = <<a, b>>[i] BY <1>3
<1> QED BY <1>2, <1>3, <1>4, SeqEqual

LEMMA TupleOfThree ==
  ASSUME NEW a, NEW b, NEW c
  PROVE  Append(<<a, b>>, c) = <<a, b, c>>
<1> DEFINE S == {a, b, c}
<1>1. a \in S /\ b \in S /\ c \in S OBVIOUS
<1> HIDE DEF S
<1>2. /\ <<a, b>> \in Seq(S) /\ <<a, b, c>> \in Seq(S)
      /\ Len(<<a, b>>) = 2 /\ Len(<<a, b, c>>) = 3
      /\ <<a, b>>[1] = a /\ <<a, b>>[2] = b
  BY <1>1
<1>3. /\ Append(<<a, b>>, c) \in Seq(S) /\ Len(Append(<<a, b>>, c)) = 3
      /\ Append(<<a, b>>, c)[1] = a /\ Append(<<a, b>>, c)[2] = b /\ Append(<<a, b>>, c)[3] = c
  BY <1>1, <1>2, AppendProperties
<1>4. \A i \in 1 .. 3 : Append(<<a, b>>, c)[i] = <<a, b, c>>[i] BY <1>3
<1> QED BY <1>2, <1>3, <1>4, SeqEqual

LEMMA TupleOfFour ==
  ASSUME NEW a, NEW b, NEW c, NEW d
  PROVE  Append(<<a, b, c>>, d) = <<a, b, c, d>>
<1> DEFINE S == {a, b, c, d}
<1>1. a \in S /\ b \in S /\ c \in S /\ d \in S OBVIOUS
<1> HIDE DEF S
<1>2. /\ <<a, b, c>> \in Seq(S) /\ <<a, b, c, d>> \in Seq(S)
      /\ Len(<<a, b, c>>) = 3 /\ Len(<<a, b, c, d>>) = 4
      /\ <<a, b, c>>[1] = a /\ <<a, b, c>>[2] = b /\ <<a, b, c>>[3] = c
  BY <1>1
<1>3. /\ Append(<<a, b, c>>, d) \in Seq(S) /\ Len(Append(<<a, b, c>>, d)) = 4
      /\ Append(<<a, b, c>>, d)[1] = a /\ Append(<<a, b, c>>, d)[2] = b
      /\ Append(<<a, b, c>>, d)[3] = c /\ Append(<<a, b, c>>, d)[4] = d
  BY <1>1, <1>2, AppendProperties
<1>4. \A i \in 1 .. 4 : Append(<<a, b, c>>, d)[i] = <<a, b, c, d>>[i] BY <1>3
<1> QED BY <1>2, <1>3, <1>4, SeqEqual

\* Batches computed for any number of jobs: one job takes the shards one by one, two
\* take the first two together, three take all that may run beside others, and the
\* shards that must run alone always do.
LEMMA BatchesAre ==
  Batches = IF FullJobs = 1
            THEN <<<<"framework-static">>, <<"framework-integration">>, <<"framework-gut">>,
                   <<"framework-lsp">>>>
            ELSE <<<<"framework-static", "framework-integration">>, <<"framework-gut">>,
                   <<"framework-lsp">>>>
<1> DEFINE flush(acc) == IF acc.pending = <<>> THEN acc.batches
                         ELSE Append(acc.batches, acc.pending)
           extend(acc, shard) ==
             IF shard \in Singletons
               THEN [batches |-> Append(flush(acc), <<shard>>), pending |-> <<>>]
             ELSE IF Len(acc.pending) + 1 = FullJobs
               THEN [batches |-> Append(acc.batches, Append(acc.pending, shard)),
                     pending |-> <<>>]
             ELSE [acc EXCEPT !.pending = Append(@, shard)]
           r0 == [batches |-> <<>>, pending |-> <<>>]
           r1 == extend(r0, Plan[1])
           r2 == extend(r1, Plan[2])
           r3 == extend(r2, Plan[3])
           r4 == extend(r3, Plan[4])
           upTo == CHOOSE f : f = [k \in 0 .. Len(Plan) |->
                                     IF k = 0 THEN r0 ELSE extend(f[k - 1], Plan[k])]
           known == [k \in 0 .. 4 |-> IF k = 0 THEN r0 ELSE IF k = 1 THEN r1
                                      ELSE IF k = 2 THEN r2 ELSE IF k = 3 THEN r3 ELSE r4]
<1>1. Batches = flush(upTo[Len(Plan)]) BY DEF Batches
<1> HIDE DEF r0, r1, r2, r3, r4, extend
<1>2. /\ r1 = extend(r0, Plan[1]) /\ r2 = extend(r1, Plan[2])
      /\ r3 = extend(r2, Plan[3]) /\ r4 = extend(r3, Plan[4])
  BY DEF r1, r2, r3, r4
<1>3. known = [k \in 0 .. Len(Plan) |->
                 IF k = 0 THEN r0 ELSE extend(known[k - 1], Plan[k])]
  <2>1. \A k \in 0 .. 4 : known[k] = IF k = 0 THEN r0 ELSE extend(known[k - 1], Plan[k]) BY <1>2
  <2> HIDE DEF known
  <2>2. known = [k \in 0 .. 4 |-> known[k]] BY DEF known
  <2> QED BY <2>1, <2>2, PlanIs
<1> HIDE DEF known
<1>4. upTo = [k \in 0 .. Len(Plan) |->
                IF k = 0 THEN r0 ELSE extend(upTo[k - 1], Plan[k])]
  BY <1>3
<1> HIDE DEF upTo
<1>5. upTo[4] = r4
  <2>1. /\ upTo[0] = r0 /\ upTo[1] = extend(upTo[0], Plan[1])
        /\ upTo[2] = extend(upTo[1], Plan[2]) /\ upTo[3] = extend(upTo[2], Plan[3])
        /\ upTo[4] = extend(upTo[3], Plan[4])
    BY <1>4, PlanIs
  <2> QED BY <1>2, <2>1
<1> DEFINE acc(batches, pending) == [batches |-> batches, pending |-> pending]
           static == "framework-static"
           integration == "framework-integration"
           gut == "framework-gut"
           last == "framework-lsp"
<1>6. /\ r0 = acc(<<>>, <<>>)
      /\ r1 = extend(r0, static) /\ r2 = extend(r1, integration)
      /\ r3 = extend(r2, gut) /\ r4 = extend(r3, last)
  BY <1>2, PlanIs DEF r0
<1>7. ASSUME NEW batches, NEW shard, shard # gut
      PROVE  extend(acc(batches, <<>>), shard) =
               IF FullJobs = 1 THEN acc(Append(batches, <<shard>>), <<>>)
               ELSE acc(batches, <<shard>>)
  <2>1. Len(<<>>) + 1 = 1 /\ Append(<<>>, shard) = <<shard>> BY TupleOfOne, TupleOfTwo
  <2>2. [acc(batches, <<>>) EXCEPT !.pending = Append(@, shard)] =
          acc(batches, Append(<<>>, shard))
    OBVIOUS
  <2> QED BY <1>7, <2>1, <2>2 DEF extend, Singletons
<1>8. ASSUME NEW batches, FullJobs # 1
      PROVE  extend(acc(batches, <<static>>), integration) =
               IF FullJobs = 2 THEN acc(Append(batches, <<static, integration>>), <<>>)
               ELSE acc(batches, <<static, integration>>)
  <2>1. Append(<<static>>, integration) = <<static, integration>> BY TupleOfTwo
  <2>2. [acc(batches, <<static>>) EXCEPT !.pending = Append(@, integration)] =
          acc(batches, Append(<<static>>, integration))
    OBVIOUS
  <2>3. Len(<<static>>) + 1 = 2 OBVIOUS
  <2> QED BY <2>1, <2>2, <2>3 DEF extend, Singletons
<1>9. /\ \A batches : extend(acc(batches, <<>>), gut) = acc(Append(batches, <<gut>>), <<>>)
      /\ \A batches, pending : pending # <<>> =>
           extend(acc(batches, pending), gut) =
             acc(Append(Append(batches, pending), <<gut>>), <<>>)
  BY DEF extend, Singletons
<1>10. /\ \A batches : flush(acc(batches, <<>>)) = batches
       /\ \A batches, pending : pending # <<>> =>
            flush(acc(batches, pending)) = Append(batches, pending)
  OBVIOUS
<1>11. static # gut /\ integration # gut /\ last # gut OBVIOUS
<1>12. Batches = flush(r4) BY <1>1, <1>5, PlanIs
<1> HIDE DEF extend, flush, acc, static, integration, gut, last
<1>13. <<static>> # <<>> /\ <<last>> # <<>> /\ <<static, integration>> # <<>> OBVIOUS
<1>14. CASE FullJobs = 1
  <2>1. r1 = acc(<<<<static>>>>, <<>>)
    <3>1. r1 = acc(Append(<<>>, <<static>>), <<>>) BY <1>6, <1>7, <1>11, <1>14
    <3> QED BY <3>1, TupleOfOne
  <2>2. r2 = acc(<<<<static>>, <<integration>>>>, <<>>)
    <3>1. r2 = acc(Append(<<<<static>>>>, <<integration>>), <<>>)
      BY <1>6, <1>7, <1>11, <1>14, <2>1
    <3>2. Append(<<<<static>>>>, <<integration>>) = <<<<static>>, <<integration>>>>
      BY TupleOfOne, TupleOfTwo
    <3> QED BY <3>1, <3>2
  <2>3. r3 = acc(<<<<static>>, <<integration>>, <<gut>>>>, <<>>)
    <3>1. r3 = acc(Append(<<<<static>>, <<integration>>>>, <<gut>>), <<>>) BY <1>6, <1>9, <2>2
    <3>2. Append(<<<<static>>, <<integration>>>>, <<gut>>) =
            <<<<static>>, <<integration>>, <<gut>>>>
      BY TupleOfOne, TupleOfTwo, TupleOfThree, TupleOfFour
    <3> QED BY <3>1, <3>2
  <2>4. r4 = acc(<<<<static>>, <<integration>>, <<gut>>, <<last>>>>, <<>>)
    <3>1. r4 = acc(Append(<<<<static>>, <<integration>>, <<gut>>>>, <<last>>), <<>>)
      BY <1>6, <1>7, <1>11, <1>14, <2>3
    <3>2. Append(<<<<static>>, <<integration>>, <<gut>>>>, <<last>>) =
            <<<<static>>, <<integration>>, <<gut>>, <<last>>>>
      BY TupleOfOne, TupleOfTwo, TupleOfThree, TupleOfFour
    <3> QED BY <3>1, <3>2
  <2> QED BY <1>10, <1>12, <1>14, <2>4 DEF static, integration, gut, last
<1>15. CASE FullJobs # 1
  <2>1. r1 = acc(<<>>, <<static>>) BY <1>6, <1>7, <1>11, <1>15
  <2>2. r3 = acc(<<<<static, integration>>, <<gut>>>>, <<>>)
    <3>1. r2 = IF FullJobs = 2 THEN acc(Append(<<>>, <<static, integration>>), <<>>)
               ELSE acc(<<>>, <<static, integration>>)
      BY <1>6, <1>8, <1>15, <2>1
    <3>2. r3 = acc(Append(Append(<<>>, <<static, integration>>), <<gut>>), <<>>)
      BY <1>6, <1>9, <1>13, <3>1
    <3>3. Append(<<>>, <<static, integration>>) = <<<<static, integration>>>>
      BY TupleOfOne, TupleOfTwo
    <3>4. Append(<<<<static, integration>>>>, <<gut>>) = <<<<static, integration>>, <<gut>>>>
      BY TupleOfOne, TupleOfTwo
    <3> QED BY <3>2, <3>3, <3>4
  <2>3. r4 = acc(<<<<static, integration>>, <<gut>>>>, <<last>>)
    BY <1>6, <1>7, <1>11, <1>15, <2>2
  <2>4. Batches = Append(<<<<static, integration>>, <<gut>>>>, <<last>>)
    BY <1>10, <1>12, <1>13, <2>3
  <2>5. Append(<<<<static, integration>>, <<gut>>>>, <<last>>) =
          <<<<static, integration>>, <<gut>>, <<last>>>>
    BY TupleOfOne, TupleOfTwo, TupleOfThree, TupleOfFour
  <2> QED BY <1>15, <2>4, <2>5 DEF static, integration, gut, last
<1> QED BY <1>14, <1>15
\* The batches partition the shards of the plan, and each lists its own once.
\* Each shard is in one batch, and a batch holds no shard twice.
LEMMA BatchesPartition ==
  /\ Len(Batches) \in 1 .. 4 /\ BatchIds = 1 .. Len(Batches)
  /\ \A b \in BatchIds :
       /\ Batches[b] \in Seq(Shards) /\ Len(Batches[b]) \in 1 .. 4
       /\ Batch(b) \subseteq Shards
       /\ \A p, q \in DOMAIN Batches[b] : Batches[b][p] = Batches[b][q] => p = q
  /\ \A i \in Shards : \E b \in BatchIds : i \in Batch(b)
  /\ \A b, c \in BatchIds : \A i \in Batch(b) \cap Batch(c) : b = c
<1> DEFINE static == "framework-static"
           integration == "framework-integration"
           gut == "framework-gut"
           last == "framework-lsp"
<1>1. /\ Shards = {static, integration, gut, last}
      /\ static # integration /\ static # gut /\ static # last
      /\ integration # gut /\ integration # last /\ gut # last
  BY PlanIs
<1>2. Batches = IF FullJobs = 1 THEN <<<<static>>, <<integration>>, <<gut>>, <<last>>>>
                ELSE <<<<static, integration>>, <<gut>>, <<last>>>>
  BY BatchesAre
<1> HIDE DEF static, integration, gut, last
<1>3. ASSUME NEW a \in Shards
      PROVE  /\ <<a>> \in Seq(Shards) /\ Len(<<a>>) = 1 /\ Range(<<a>>) = {a}
             /\ \A p, q \in DOMAIN <<a>> : <<a>>[p] = <<a>>[q] => p = q
  BY DEF Range
<1>4. ASSUME NEW a \in Shards, NEW b \in Shards, a # b
      PROVE  /\ <<a, b>> \in Seq(Shards) /\ Len(<<a, b>>) = 2 /\ Range(<<a, b>>) = {a, b}
             /\ \A p, q \in DOMAIN <<a, b>> : <<a, b>>[p] = <<a, b>>[q] => p = q
  <2>1. DOMAIN <<a, b>> = 1 .. 2 /\ <<a, b>>[1] = a /\ <<a, b>>[2] = b OBVIOUS
  <2>2. Range(<<a, b>>) = {a, b} BY <2>1 DEF Range
  <2>3. \A p, q \in DOMAIN <<a, b>> : <<a, b>>[p] = <<a, b>>[q] => p = q BY <1>4, <2>1
  <2> QED BY <2>2, <2>3
<1> DEFINE Whole(s) == /\ s \in Seq(Shards) /\ Len(s) \in 1 .. 4
                       /\ \A p, q \in DOMAIN s : s[p] = s[q] => p = q
<1>5. \A a \in Shards : Whole(<<a>>) /\ Range(<<a>>) = {a} BY <1>3
<1>6. Whole(<<static, integration>>) /\ Range(<<static, integration>>) = {static, integration}
  BY <1>1, <1>4
<1> HIDE DEF Whole
<1>7. CASE FullJobs = 1
  <2>1. /\ Len(Batches) = 4 /\ BatchIds = 1 .. 4
        /\ Batches[1] = <<static>> /\ Batches[2] = <<integration>> /\ Batches[3] = <<gut>>
        /\ Batches[4] = <<last>>
    BY <1>2, <1>7 DEF BatchIds
  <2>2. \A b \in BatchIds : Whole(Batches[b]) BY <1>1, <1>5, <2>1
  <2>3. /\ Batch(1) = {static} /\ Batch(2) = {integration} /\ Batch(3) = {gut}
        /\ Batch(4) = {last}
    BY <1>1, <1>5, <2>1
  <2> QED BY <1>1, <2>1, <2>2, <2>3 DEF Whole
<1>8. CASE FullJobs # 1
  <2>1. /\ Len(Batches) = 3 /\ BatchIds = 1 .. 3
        /\ Batches[1] = <<static, integration>> /\ Batches[2] = <<gut>>
        /\ Batches[3] = <<last>>
    BY <1>2, <1>8 DEF BatchIds
  <2>2. \A b \in BatchIds : Whole(Batches[b]) BY <1>1, <1>5
  <2>3. /\ Batch(1) = {static, integration} /\ Batch(2) = {gut} /\ Batch(3) = {last}
    BY <1>1, <1>5, <1>6, <2>1
  <2> QED BY <1>1, <2>1, <2>2, <2>3 DEF Whole
<1> QED BY <1>7, <1>8

LEMMA LanesAre ==
  /\ Shards \cap Probes = {} /\ Lanes = Shards \cup Probes /\ Probes = {"a", "b"}
BY PlanIs DEF Lanes, Probes

\* Of some batches one is the last.
\* The batch that is released next is one of those left to release.
LEMMA LastBatch ==
  ASSUME NEW S \in SUBSET BatchIds, S # {}
  PROVE  Max(S) \in S /\ \A b \in S : b <= Max(S)
<1>1. \E x \in S : \A b \in S : x >= b
  <2>1. S \subseteq {1, 2, 3, 4}
    <3>1. \A n \in 1 .. 4 : 1 .. n \subseteq {1, 2, 3, 4} OBVIOUS
    <3>2. Len(Batches) \in 1 .. 4 /\ BatchIds = 1 .. Len(Batches) BY BatchesPartition
    <3> QED BY <3>1, <3>2
  <2>2. CASE 4 \in S BY <2>1, <2>2
  <2>3. CASE 3 \in S /\ 4 \notin S BY <2>1, <2>3
  <2>4. CASE 2 \in S /\ 3 \notin S /\ 4 \notin S BY <2>1, <2>4
  <2>5. CASE S = {1} BY <2>5
  <2> QED BY <2>1, <2>2, <2>3, <2>4, <2>5
<1>2. S \subseteq Int BY BatchesPartition
<1>3. \A b \in S : Max(S) >= b BY <1>1 DEF Max
<1>4. Max(S) \in S BY <1>1 DEF Max
<1> QED BY <1>2, <1>3, <1>4
LEMMA BatchNumbers == Len(Batches) \in 1 .. 4 /\ BatchIds = 1 .. Len(Batches) /\ 1 \in BatchIds
BY BatchesPartition

\* Nothing of i runs, nor is anything of it to start.
Quiet(i) == ~lane[i].alive /\ lane[i].future \notin {"queued", "running"}
\* i was not given to a worker.
Unrun(i) == lane[i].future = "none" /\ lane[i].runs = 0
\* The logs of a shard that ran and failed were saved.
LogsKept(i) == lane[i].runs = 1 /\ ~Outcome(i).ok => lane[i].logs
\* i passed, or its failure is on the list.
Judged(i) == Outcome(i).ok \/ i \in full.failed

Preparations ==
  {"begin", "source", "prepare", "materialize", "freeze", "preflight", "probe", "probing"}
Executing == {"dispatch", "running", "accept", "logs", "drift", "proving"}
Releases == {"release", "removing"}
Ended == {"unroot", "done", "raised"}

\* As ParallelFullTypeOK, in parts, with what is counted bounded by the plan.
PoolShape ==
  /\ pool \in [at : {"off", "submit", "wait", "take", "over", "unwind", "raised"},
               roster : Seq(Lanes), limit : 1 .. 4, failFast : BOOLEAN, next : 1 .. 5,
               flight : SUBSET Lanes, done : SUBSET Lanes, cancelled : BOOLEAN]
  /\ late \in BOOLEAN
LaneRecords ==
  [future : {"none", "queued", "running", "finished", "cancelled"}, out : WorkerResults,
   runs : 0 .. 1, alive : BOOLEAN, tree : {"none", "present", "removed"}, reports : 0 .. 1,
   logs : BOOLEAN]
LaneShape == lane \in [Lanes -> LaneRecords]
FullLocals ==
  [stage : FullStages, batch : BatchIds, permitted : BOOLEAN, failFast : BOOLEAN,
   pending : Seq(Shards), failed : SUBSET Shards, logsLost : BOOLEAN, was : BOOLEAN,
   then : {"next", "finish", "environment"}, error : {"none", "error", "interrupt"},
   aggregated : BOOLEAN, ok : BOOLEAN]
FullShape ==
  /\ full \in FullLocals
  /\ lease \in [BatchIds -> {"none", "held", "removed", "retained"}]
  /\ place \in [root : {"owned", "removed", "retained"}, edited : BOOLEAN]

\* What the future of a lane says of its worker and of what is left of it.
FutureKnown == \A i \in Lanes :
  /\ lane[i].future \in {"none", "queued", "cancelled"} => lane[i].runs = 0
  /\ lane[i].future \in {"none", "queued", "cancelled", "running"} => lane[i].out = NotStarted
  /\ lane[i].future = "running" => lane[i].runs = 1
  /\ lane[i].out.ok => lane[i].runs = 1
  /\ lane[i].alive => \/ lane[i].future = "running"
                      \/ lane[i].future = "finished" /\ ~lane[i].out.quiet
                      \/ full.stage \in Ended /\ ~full.permitted

Rostered == Range(pool.roster)
\* The pool runs the lanes of its roster, each at most once, and while it has not
\* raised it knows every lane that is queued or runs.
PoolKnown ==
  /\ pool.flight \cup pool.done \subseteq Rostered
  /\ Len(pool.roster) <= 4 /\ pool.next <= Len(pool.roster) + 1
  /\ \A p, q \in DOMAIN pool.roster : pool.roster[p] = pool.roster[q] => p = q
  /\ pool.at = "over" => pool.flight = {}
  /\ \A i \in Lanes : lane[i].future \in {"queued", "running"} =>
       /\ pool.at # "off" /\ i \in Rostered
       /\ pool.at \in {"submit", "wait", "take", "over"} => i \in pool.flight
  /\ pool.at \in {"submit", "wait", "take"} =>
       \A k \in pool.next .. Len(pool.roster) : Unrun(pool.roster[k])

\* A pool is open in the two stages that own one, or has raised out of them.
StageOfPool ==
  /\ pool.at # "off" => full.stage \in {"probing", "running"} \cup Ended
  /\ pool.at \in {"submit", "wait", "take", "unwind"} => full.stage \notin Ended
  /\ full.stage = "probing" => pool.at # "off" /\ Rostered = Probes
  /\ full.stage = "running" => pool.at # "off" /\ Rostered = Batch(full.batch)

\* Permission to remove is withdrawn before anything starts and before what it rests on
\* changes; wherever it may stand, nothing runs.
QuietWhenAllowed ==
  /\ full.stage \in {"source", "materialize", "probing", "running", "logs", "proving",
                    "removing"} => ~full.permitted
  /\ full.stage \notin {"probing", "running"} \cup Ended => \A i \in Lanes : Quiet(i)
  /\ full.stage \in {"probing", "running"} => \A i \in Lanes \ Rostered : Quiet(i)
  /\ full.stage \in Ended /\ full.permitted => \A i \in Lanes : Quiet(i)

\* The leases follow the batches: taken in their order, removed in their order.
LeasesKnown ==
  /\ full.stage \in {"begin", "source", "prepare"} =>
       \A b \in BatchIds : lease[b] = IF b < full.batch THEN "held" ELSE "none"
  /\ full.stage \in {"materialize", "freeze"} =>
       \A b \in BatchIds : lease[b] = IF b <= full.batch THEN "held" ELSE "none"
  /\ full.stage \in {"begin", "source", "preflight", "probe", "probing"} => full.batch = 1
  /\ full.stage \in {"preflight", "probe", "probing"} \cup Executing =>
       \A b \in BatchIds : lease[b] = IF b < full.batch THEN "removed" ELSE "held"
  /\ full.stage \in Releases /\ full.then = "next" =>
       /\ \A b \in BatchIds : b < full.batch => lease[b] = "removed"
       /\ \A b \in BatchIds : b > full.batch => lease[b] = "held"
       /\ lease[full.batch] # "none"
  /\ full.stage \in Releases /\ full.then = "finish" => \A b \in BatchIds : lease[b] # "none"
  /\ full.stage \in Releases /\ full.permitted => ~CleanupOwed
  /\ full.stage = "removing" => ~CleanupOwed /\ ToRelease # {}
  /\ full.stage = "final" => ~CleanupOwed
  /\ full.stage \in {"final"} \cup Ended => Held = {}
  /\ full.stage \notin Releases \cup {"final"} \cup Ended => full.then = "next"

\* The trees follow the leases.
TreesKnown ==
  /\ \A b \in BatchIds : lease[b] = "removed" => \A i \in Batch(b) : lane[i].tree = "removed"
  /\ \A b \in Held :
       /\ ~(full.stage = "materialize" /\ b = full.batch)
       /\ ~(full.stage = "removing" /\ b = Max(ToRelease))
       => \A i \in Batch(b) : lane[i].tree = "present"
  /\ full.stage = "removing" => \A i \in Batch(Max(ToRelease)) : lane[i].tree = "removed"
  /\ full.stage = "probing" => \A i \in Probes : lane[i].tree = "present"

\* A tree is removed when nothing runs in it and its logs are saved.
RemovedIsSafe == \A i \in Lanes : lane[i].tree = "removed" =>
  Quiet(i) /\ (i \in Shards => LogsKept(i))

\* Where the logs of a failed shard are saved.
LogsKnown ==
  /\ full.stage \in Executing \cup Releases /\ full.then = "next" =>
       \A i \in Shards \ Batch(full.batch) : LogsKept(i)
  /\ \/ full.stage \in Preparations \cup {"dispatch", "removing", "final"}
     \/ full.stage \in {"drift", "release"} \cup Ended /\ full.permitted
     \/ full.stage = "proving" /\ full.was
     => \A i \in Shards : LogsKept(i)

\* After a failure that stops the run, the shards of the batches left are reported as
\* failures without having run.
Stopped == StopsEarly /\ full.stage \in {"proving"} \cup Releases
\* A shard of a batch that is over was reported once and judged; one of a batch to come
\* was neither run nor reported.
ShardsKnown ==
  /\ full.stage \in Preparations \/ (full.stage \in Releases /\ full.then = "environment") =>
       /\ full.failed = {}
       /\ \A i \in Shards : Unrun(i) /\ lane[i].reports = 0
  /\ full.stage \in Executing \cup Releases /\ full.then = "next" =>
       \A b \in BatchIds : \A i \in Batch(b) :
         /\ b < full.batch => lane[i].reports = 1 /\ Judged(i)
         /\ b > full.batch =>
              /\ Unrun(i)
              /\ ~Stopped => lane[i].reports = 0 /\ i \notin full.failed
              /\ Stopped => lane[i].reports = 1 /\ i \in full.failed
  /\ full.stage \in Preparations \ {"probing"} => \A i \in Lanes : Unrun(i)
  /\ full.stage = "dispatch" => \A i \in Batch(full.batch) : Unrun(i)
  /\ full.stage \in {"dispatch", "running"} =>
       \A i \in Batch(full.batch) : lane[i].reports = 0 /\ i \notin full.failed
  /\ full.stage = "accept" =>
       /\ \A p, q \in DOMAIN full.pending : full.pending[p] = full.pending[q] => p = q
       /\ Range(full.pending) \subseteq Batch(full.batch)
       /\ \A i \in Batch(full.batch) :
            IF i \in Range(full.pending) THEN lane[i].reports = 0
            ELSE lane[i].reports = 1 /\ Judged(i)
  /\ (full.stage \in {"logs", "drift", "proving"} \cup Releases) /\ full.then = "next" =>
       \A i \in Batch(full.batch) : lane[i].reports = 1 /\ Judged(i)
  /\ full.stage \in Releases /\ full.then = "finish" =>
       /\ \A i \in Shards : lane[i].reports = 1 /\ Judged(i)

\* The aggregate comes last, and an ok is the ok of all.
VerdictKnown ==
  /\ full.aggregated =>
       full.stage \in {"final"} \cup Ended /\ \A i \in Shards : lane[i].reports = 1
  /\ full.stage \notin Ended => full.error = "none"
  /\ full.ok =>
       /\ full.aggregated /\ full.error \in {"none", "interrupt"}
       /\ \A b \in BatchIds : lease[b] = "removed"
       /\ \A i \in Shards : Outcome(i).ok
       /\ full.stage \in {"unroot", "done"} /\ full.error = "none" => ~place.edited
       /\ full.stage = "done" => full.error = "none" /\ place.root = "removed"

FullRunInv ==
  /\ PoolShape /\ LaneShape /\ FullShape
  /\ FutureKnown /\ PoolKnown /\ StageOfPool /\ QuietWhenAllowed
  /\ LeasesKnown /\ TreesKnown /\ RemovedIsSafe /\ LogsKnown /\ ShardsKnown /\ VerdictKnown

judgement == <<full.failFast, full.failed, full.logsLost, full.error, full.aggregated, full.ok>>

\* What does not change as long as neither the pool nor a lane moves.
SameLanes == \A i :
  /\ Outcome(i)' = Outcome(i) /\ (LogsKept(i)' <=> LogsKept(i))
  /\ (Unrun(i)' <=> Unrun(i)) /\ (Quiet(i)' <=> Quiet(i))
  /\ (Judged(i)' <=> Judged(i))

\* A step of the caller that moves neither the pool nor a lane.
LEMMA LanesStay ==
  ASSUME PoolShape, LaneShape, PoolKnown, RemovedIsSafe, UNCHANGED <<pool, lane, full.failed>>,
         UNCHANGED late \/ late' \in BOOLEAN
  PROVE  PoolShape' /\ LaneShape' /\ PoolKnown' /\ RemovedIsSafe' /\ SameLanes
<1>1. SameLanes BY DEF SameLanes, Outcome, LogsKept, Unrun, Quiet, Judged
<1>2. PoolShape' /\ LaneShape' BY DEF PoolShape, LaneShape
<1>3. Rostered' = Rostered BY DEF Rostered
<1>4. PoolKnown' BY <1>1, <1>3 DEF PoolKnown, SameLanes
<1>5. RemovedIsSafe' BY <1>1 DEF RemovedIsSafe, SameLanes
<1> QED BY <1>1, <1>2, <1>4, <1>5

\* What a materialized batch and a deleted one are.
\* Removing the trees of some lanes leaves everything else of them.
LEMMA TreesAre ==
  ASSUME LaneShape, NEW S, NEW A
  PROVE  /\ WithTrees(S, A) \in [Lanes -> LaneRecords]
         /\ \A i \in Lanes :
              /\ WithTrees(S, A)[i].future = lane[i].future /\ WithTrees(S, A)[i].out = lane[i].out
              /\ WithTrees(S, A)[i].runs = lane[i].runs /\ WithTrees(S, A)[i].logs = lane[i].logs
              /\ WithTrees(S, A)[i].reports = lane[i].reports
              /\ i \in S => /\ WithTrees(S, A)[i].tree = "present"
                            /\ WithTrees(S, A)[i].alive <=> i \in A
              /\ i \notin S => WithTrees(S, A)[i] = lane[i]
<1> DEFINE with(i, alive) == [lane[i] EXCEPT !.tree = "present", !.alive = alive]
           new(i) == IF i \in S THEN with(i, i \in A) ELSE lane[i]
<1>1. \A i \in Lanes, alive \in BOOLEAN :
        /\ with(i, alive) \in LaneRecords
        /\ with(i, alive).future = lane[i].future /\ with(i, alive).out = lane[i].out
        /\ with(i, alive).runs = lane[i].runs /\ with(i, alive).logs = lane[i].logs
        /\ with(i, alive).reports = lane[i].reports
        /\ with(i, alive).tree = "present" /\ with(i, alive).alive = alive
  BY DEF LaneShape, LaneRecords
<1>2. \A i \in Lanes : (i \in A) \in BOOLEAN /\ lane[i] \in LaneRecords BY DEF LaneShape
<1>3. WithTrees(S, A) = [i \in Lanes |-> new(i)] BY DEF WithTrees
<1> HIDE DEF with
<1>4. \A i \in Lanes :
        /\ new(i) \in LaneRecords
        /\ new(i).future = lane[i].future /\ new(i).out = lane[i].out
        /\ new(i).runs = lane[i].runs /\ new(i).logs = lane[i].logs
        /\ new(i).reports = lane[i].reports
        /\ i \in S => new(i).tree = "present" /\ (new(i).alive <=> i \in A)
        /\ i \notin S => new(i) = lane[i]
  BY <1>1, <1>2
<1> HIDE DEF new
<1> QED BY <1>3, <1>4

LEMMA GoneAre ==
  ASSUME LaneShape, NEW S
  PROVE  /\ Gone(S) \in [Lanes -> LaneRecords]
         /\ \A i \in Lanes :
              /\ Gone(S)[i].future = lane[i].future /\ Gone(S)[i].out = lane[i].out
              /\ Gone(S)[i].runs = lane[i].runs /\ Gone(S)[i].logs = lane[i].logs
              /\ Gone(S)[i].reports = lane[i].reports /\ Gone(S)[i].alive = lane[i].alive
              /\ Gone(S)[i].tree =
                   IF i \in S /\ lane[i].tree = "present" THEN "removed" ELSE lane[i].tree
<1> DEFINE gone(i) == [lane[i] EXCEPT !.tree = "removed"]
           new(i) == IF i \in S /\ lane[i].tree = "present" THEN gone(i) ELSE lane[i]
<1>1. \A i \in Lanes :
        /\ lane[i] \in LaneRecords /\ gone(i) \in LaneRecords
        /\ gone(i).future = lane[i].future /\ gone(i).out = lane[i].out
        /\ gone(i).runs = lane[i].runs /\ gone(i).logs = lane[i].logs
        /\ gone(i).reports = lane[i].reports /\ gone(i).alive = lane[i].alive
        /\ gone(i).tree = "removed"
  BY DEF LaneShape, LaneRecords
<1>2. Gone(S) = [i \in Lanes |-> new(i)] BY DEF Gone
<1> HIDE DEF gone
<1>3. \A i \in Lanes :
        /\ new(i) \in LaneRecords
        /\ new(i).future = lane[i].future /\ new(i).out = lane[i].out
        /\ new(i).runs = lane[i].runs /\ new(i).logs = lane[i].logs
        /\ new(i).reports = lane[i].reports /\ new(i).alive = lane[i].alive
        /\ new(i).tree = IF i \in S /\ lane[i].tree = "present" THEN "removed" ELSE lane[i].tree
  BY <1>1
<1> HIDE DEF new
<1> QED BY <1>2, <1>3

LEMMA ProbeRoster ==
  /\ <<"a", "b">> \in Seq(Lanes) /\ Len(<<"a", "b">>) = 2 /\ Range(<<"a", "b">>) = Probes
  /\ \A p, q \in DOMAIN <<"a", "b">> : <<"a", "b">>[p] = <<"a", "b">>[q] => p = q
<1>1. "a" \in Lanes /\ "b" \in Lanes /\ Probes = {"a", "b"} BY DEF Lanes, Probes
<1>2. /\ <<"a", "b">> \in Seq(Lanes) /\ Len(<<"a", "b">>) = 2 /\ DOMAIN <<"a", "b">> = 1 .. 2
      /\ <<"a", "b">>[1] = "a" /\ <<"a", "b">>[2] = "b"
  BY <1>1
<1> QED BY <1>1, <1>2 DEF Range

\* One field of a lane changes.
LEMMA ReportedLane ==
  ASSUME NEW r \in LaneRecords, r.reports = 0
  PROVE  LET new == [r EXCEPT !.reports = @ + 1]
         IN  /\ new \in LaneRecords /\ new.reports = 1
             /\ new.future = r.future /\ new.out = r.out /\ new.runs = r.runs
             /\ new.alive = r.alive /\ new.tree = r.tree /\ new.logs = r.logs
BY DEF LaneRecords

LEMMA LoggedLane ==
  ASSUME NEW r \in LaneRecords
  PROVE  LET new == [r EXCEPT !.logs = TRUE]
         IN  /\ new \in LaneRecords /\ new.logs = TRUE
             /\ new.future = r.future /\ new.out = r.out /\ new.runs = r.runs
             /\ new.alive = r.alive /\ new.tree = r.tree /\ new.reports = r.reports
BY DEF LaneRecords

LEMMA TailOfDistinct ==
  ASSUME NEW S, NEW s \in Seq(S), s # <<>>,
         \A p, q \in DOMAIN s : s[p] = s[q] => p = q
  PROVE  /\ Head(s) \in S /\ Head(s) \in Range(s)
         /\ Tail(s) \in Seq(S) /\ Range(Tail(s)) = Range(s) \ {Head(s)}
         /\ \A p, q \in DOMAIN Tail(s) : Tail(s)[p] = Tail(s)[q] => p = q
<1>1. /\ Len(s) \in Nat \ {0} /\ DOMAIN s = 1 .. Len(s) /\ Head(s) = s[1]
      /\ Tail(s) \in Seq(S) /\ DOMAIN Tail(s) = 1 .. Len(s) - 1
      /\ \A p \in 1 .. Len(s) - 1 : Tail(s)[p] = s[p + 1]
  BY HeadTailProperties, EmptySeq
<1>2. Range(Tail(s)) = Range(s) \ {Head(s)}
  <2>1. \A p \in 2 .. Len(s) : p - 1 \in DOMAIN Tail(s) /\ Tail(s)[p - 1] = s[p] /\ s[p] # s[1]
    BY <1>1
  <2>2. \A p \in 1 .. Len(s) - 1 : p + 1 \in DOMAIN s /\ s[p + 1] # s[1] BY <1>1
  <2>3. \A x \in Range(Tail(s)) : x \in Range(s) \ {Head(s)} BY <1>1, <2>2 DEF Range
  <2>4. ASSUME NEW p \in DOMAIN s, s[p] # s[1] PROVE s[p] \in Range(Tail(s))
    <3>1. p \in 2 .. Len(s) BY <1>1, <2>4
    <3> QED BY <2>1, <3>1 DEF Range
  <2> QED BY <1>1, <2>3, <2>4 DEF Range
<1>3. Head(s) \in S /\ Head(s) \in Range(s) BY <1>1 DEF Range
<1>4. ASSUME NEW p \in DOMAIN Tail(s), NEW q \in DOMAIN Tail(s), Tail(s)[p] = Tail(s)[q]
      PROVE  p = q
  <2>1. p + 1 \in DOMAIN s /\ q + 1 \in DOMAIN s /\ s[p + 1] = s[q + 1] BY <1>1, <1>4
  <2> QED BY <1>1, <2>1
<1> QED BY <1>1, <1>2, <1>3, <1>4

USE DEF FullRunInv, Executing, Releases, Ended, Preparations, SameLanes, judgement, Rostered

\* One lemma for each step of the caller, down to FullConcludesKeeps: what it moves
\* first, then each part of the invariant it can disturb.
LEMMA FullBeginsKeeps ==
  ASSUME FullRunInv, FullBegins
  PROVE  FullRunInv'
<1>a. /\ full.stage = "begin"
      /\ full.batch \in BatchIds
      /\ full' \in FullLocals
      /\ full'.stage = "source"
      /\ full'.permitted = FALSE
      /\ UNCHANGED <<full.batch, full.pending, full.was, full.then>>
      /\ UNCHANGED <<judgement, pool, lane, late, lease, place>>
  BY BatchNumbers DEF FullBegins, Forbidding, FullShape, FullLocals, FullStages, poolVars
<1> USE <1>a
<1>b. SameLanes /\ (CleanupOwed' <=> CleanupOwed) /\ Held' = Held
  BY LanesStay DEF CleanupOwed, Held
<1> USE <1>b
<1>1. PoolShape' /\ LaneShape' /\ PoolKnown' /\ RemovedIsSafe' BY LanesStay
<1>2. FullShape' /\ FutureKnown' /\ StageOfPool' /\ QuietWhenAllowed'
  BY DEF FullShape, FutureKnown, QuietWhenAllowed, StageOfPool
<1>3. LeasesKnown' BY BatchNumbers DEF LeasesKnown, ToRelease
<1>4. TreesKnown' /\ LogsKnown'
  BY BatchesPartition, LanesAre DEF TreesKnown, ToRelease, LeasesKnown, LogsKnown,
     QuietWhenAllowed
<1>5. ShardsKnown'
  BY BatchesPartition, LanesAre DEF ShardsKnown, Stopped, StopsEarly, FailedInBatch,
     FullShape
<1>6. VerdictKnown' BY LanesAre DEF VerdictKnown, LeasesKnown
<1> QED BY <1>1, <1>2, <1>3, <1>4, <1>5, <1>6

LEMMA CapturedSourceMatchesKeeps ==
  ASSUME FullRunInv, CapturedSourceMatches
  PROVE  FullRunInv'
<1>a. /\ full.stage = "source"
      /\ full.batch \in BatchIds
      /\ full' \in FullLocals
      /\ full'.stage = "prepare"
      /\ full'.permitted = TRUE
      /\ UNCHANGED <<full.batch, full.pending, full.was, full.then>>
      /\ UNCHANGED <<judgement, pool, lane, late, lease, place>>
  BY BatchNumbers DEF CapturedSourceMatches, Allow, FullShape, FullLocals, FullStages,
     poolVars
<1> USE <1>a
<1>b. SameLanes /\ (CleanupOwed' <=> CleanupOwed) /\ Held' = Held
  BY LanesStay DEF CleanupOwed, Held
<1> USE <1>b
<1>1. PoolShape' /\ LaneShape' /\ PoolKnown' /\ RemovedIsSafe' BY LanesStay
<1>2. FullShape' /\ FutureKnown' /\ StageOfPool' /\ QuietWhenAllowed'
  BY DEF FullShape, FutureKnown, QuietWhenAllowed, StageOfPool
<1>3. LeasesKnown'
  BY SMTT(20), BatchNumbers DEF LeasesKnown, ToRelease, FullShape, CleanupOwed, Held
<1>4. TreesKnown' BY BatchesPartition, LanesAre DEF TreesKnown, ToRelease, LeasesKnown
<1>5. LogsKnown' BY SMTT(20), BatchesPartition, LanesAre DEF LogsKnown, QuietWhenAllowed
<1>6. ShardsKnown'
  BY SMTT(20), BatchesPartition, LanesAre DEF ShardsKnown, Stopped, StopsEarly,
     FailedInBatch, FullShape
<1>7. VerdictKnown' BY LanesAre DEF VerdictKnown, LeasesKnown
<1> QED BY <1>1, <1>2, <1>3, <1>4, <1>5, <1>6, <1>7

LEMMA PreflightCompleteKeeps ==
  ASSUME FullRunInv, PreflightComplete
  PROVE  FullRunInv'
<1>a. /\ full.stage = "preflight"
      /\ full.batch \in BatchIds
      /\ full' \in FullLocals
      /\ full'.stage = "probe"
      /\ UNCHANGED <<full.batch, full.permitted, full.pending, full.was, full.then>>
      /\ UNCHANGED <<judgement, pool, lane, late, lease, place>>
  BY BatchNumbers DEF PreflightComplete, At, FullShape, FullLocals, FullStages, poolVars
<1> USE <1>a
<1>b. SameLanes /\ (CleanupOwed' <=> CleanupOwed) /\ Held' = Held
  BY LanesStay DEF CleanupOwed, Held
<1> USE <1>b
<1>1. PoolShape' /\ LaneShape' /\ PoolKnown' /\ RemovedIsSafe' BY LanesStay
<1>2. FullShape' /\ FutureKnown' /\ StageOfPool' /\ QuietWhenAllowed'
  BY DEF FullShape, FutureKnown, QuietWhenAllowed, StageOfPool
<1>3. LeasesKnown' BY BatchNumbers DEF LeasesKnown, ToRelease
<1>4. TreesKnown' /\ LogsKnown'
  BY BatchesPartition, LanesAre DEF TreesKnown, ToRelease, LeasesKnown, LogsKnown,
     QuietWhenAllowed
<1>5. ShardsKnown'
  BY BatchesPartition, LanesAre DEF ShardsKnown, Stopped, StopsEarly, FailedInBatch,
     FullShape
<1>6. VerdictKnown' BY LanesAre DEF VerdictKnown, LeasesKnown
<1> QED BY <1>1, <1>2, <1>3, <1>4, <1>5, <1>6

LEMMA DeadlineAtStartKeeps ==
  ASSUME FullRunInv, DeadlineAtStart
  PROVE  FullRunInv'
<1>a. /\ full.stage = "begin"
      /\ full.batch \in BatchIds
      /\ full' \in FullLocals
      /\ full'.stage = "final"
      /\ UNCHANGED <<full.batch, full.permitted, full.pending, full.was, full.then>>
      /\ UNCHANGED <<judgement, pool, lane, late, lease, place>>
  BY BatchNumbers DEF DeadlineAtStart, At, FullShape, FullLocals, FullStages, poolVars
<1> USE <1>a
<1>b. SameLanes /\ (CleanupOwed' <=> CleanupOwed) /\ Held' = Held
  BY LanesStay DEF CleanupOwed, Held
<1> USE <1>b
<1>1. PoolShape' /\ LaneShape' /\ PoolKnown' /\ RemovedIsSafe' BY LanesStay
<1>2. FullShape' /\ FutureKnown' /\ StageOfPool' /\ QuietWhenAllowed'
  BY DEF FullShape, FutureKnown, QuietWhenAllowed, StageOfPool
<1>3. LeasesKnown'
  BY SMTT(20), BatchNumbers DEF LeasesKnown, ToRelease, FullShape, CleanupOwed, Held
<1>4. TreesKnown' BY BatchesPartition, LanesAre DEF TreesKnown, ToRelease, LeasesKnown
<1>5. LogsKnown' BY SMTT(20), BatchesPartition, LanesAre DEF LogsKnown, QuietWhenAllowed
<1>6. ShardsKnown'
  BY SMTT(20), BatchesPartition, LanesAre DEF ShardsKnown, Stopped, StopsEarly,
     FailedInBatch, FullShape
<1>7. VerdictKnown' BY LanesAre DEF VerdictKnown, LeasesKnown
<1> QED BY <1>1, <1>2, <1>3, <1>4, <1>5, <1>6, <1>7

LEMMA LastBatchFrozenKeeps ==
  ASSUME FullRunInv, BatchFrozen, full.batch = Len(Batches)
  PROVE  FullRunInv'
<1>a. /\ full.stage = "freeze"
      /\ full.batch \in BatchIds
      /\ full' \in FullLocals
      /\ full'.stage = "preflight"
      /\ full'.batch = 1
      /\ UNCHANGED <<full.permitted, full.pending, full.was, full.then>>
      /\ UNCHANGED <<judgement, pool, lane, late, lease, place>>
  BY BatchNumbers DEF BatchFrozen, At, FullShape, FullLocals, FullStages, poolVars
<1> USE <1>a
<1>b. SameLanes /\ (CleanupOwed' <=> CleanupOwed) /\ Held' = Held
  BY LanesStay DEF CleanupOwed, Held
<1> USE <1>b
<1>1. PoolShape' /\ LaneShape' /\ PoolKnown' /\ RemovedIsSafe' BY LanesStay
<1>2. FullShape' /\ FutureKnown' /\ StageOfPool' /\ QuietWhenAllowed'
  BY DEF FullShape, FutureKnown, QuietWhenAllowed, StageOfPool
<1>3. LeasesKnown'
  BY SMTT(20), BatchNumbers DEF LeasesKnown, ToRelease, FullShape, CleanupOwed, Held
<1>4. TreesKnown' BY BatchesPartition, LanesAre DEF TreesKnown, ToRelease, LeasesKnown
<1>5. LogsKnown' BY SMTT(20), BatchesPartition, LanesAre DEF LogsKnown, QuietWhenAllowed
<1>6. ShardsKnown'
  BY SMTT(20), BatchesPartition, LanesAre DEF ShardsKnown, Stopped, StopsEarly,
     FailedInBatch, FullShape
<1>7. VerdictKnown' BY LanesAre DEF VerdictKnown, LeasesKnown
<1> QED BY <1>1, <1>2, <1>3, <1>4, <1>5, <1>6, <1>7

LEMMA OneBatchFrozenKeeps ==
  ASSUME FullRunInv, BatchFrozen, full.batch # Len(Batches)
  PROVE  FullRunInv'
<1>p. full.batch + 1 \in BatchIds BY BatchNumbers DEF FullShape, FullLocals
<1> USE <1>p
<1>a. /\ full.stage = "freeze"
      /\ full.batch \in BatchIds
      /\ full' \in FullLocals
      /\ full'.stage = "prepare"
      /\ full'.batch = full.batch + 1
      /\ UNCHANGED <<full.permitted, full.pending, full.was, full.then>>
      /\ UNCHANGED <<judgement, pool, lane, late, lease, place>>
  BY BatchNumbers DEF BatchFrozen, At, FullShape, FullLocals, FullStages, poolVars
<1> USE <1>a
<1>b. SameLanes /\ (CleanupOwed' <=> CleanupOwed) /\ Held' = Held
  BY LanesStay DEF CleanupOwed, Held
<1> USE <1>b
<1>1. PoolShape' /\ LaneShape' /\ PoolKnown' /\ RemovedIsSafe' BY LanesStay
<1>2. FullShape' /\ FutureKnown' /\ StageOfPool' /\ QuietWhenAllowed'
  BY DEF FullShape, FutureKnown, QuietWhenAllowed, StageOfPool
<1>3. LeasesKnown'
  BY SMTT(20), BatchNumbers DEF LeasesKnown, ToRelease, FullShape, CleanupOwed, Held
<1>4. TreesKnown' BY BatchesPartition, LanesAre DEF TreesKnown, ToRelease, LeasesKnown
<1>5. LogsKnown' BY SMTT(20), BatchesPartition, LanesAre DEF LogsKnown, QuietWhenAllowed
<1>6. ShardsKnown'
  BY SMTT(20), BatchesPartition, LanesAre DEF ShardsKnown, Stopped, StopsEarly,
     FailedInBatch, FullShape
<1>7. VerdictKnown' BY LanesAre DEF VerdictKnown, LeasesKnown
<1> QED BY <1>1, <1>2, <1>3, <1>4, <1>5, <1>6, <1>7

LEMMA CommandUnresolvedKeeps ==
  ASSUME FullRunInv, CommandUnresolved
  PROVE  FullRunInv'
<1>a. /\ full.stage = "freeze"
      /\ full.batch \in BatchIds
      /\ full' \in FullLocals
      /\ full'.stage = "release"
      /\ full'.then = "environment"
      /\ UNCHANGED <<full.batch, full.permitted, full.pending, full.was>>
      /\ UNCHANGED <<judgement, pool, lane, late, lease, place>>
  BY BatchNumbers DEF CommandUnresolved, At, FullShape, FullLocals, FullStages, poolVars
<1> USE <1>a
<1>b. SameLanes /\ (CleanupOwed' <=> CleanupOwed) /\ Held' = Held
  BY LanesStay DEF CleanupOwed, Held
<1> USE <1>b
<1>1. PoolShape' /\ LaneShape' /\ PoolKnown' /\ RemovedIsSafe' BY LanesStay
<1>2. FullShape' /\ FutureKnown' /\ StageOfPool' /\ QuietWhenAllowed'
  BY DEF FullShape, FutureKnown, QuietWhenAllowed, StageOfPool
<1>3. LeasesKnown'
  BY SMTT(20), BatchNumbers DEF LeasesKnown, ToRelease, FullShape, CleanupOwed, Held
<1>4. TreesKnown' BY BatchesPartition, LanesAre DEF TreesKnown, ToRelease, LeasesKnown
<1>5. LogsKnown' BY SMTT(20), BatchesPartition, LanesAre DEF LogsKnown, QuietWhenAllowed
<1>6. ShardsKnown'
  BY SMTT(20), BatchesPartition, LanesAre DEF ShardsKnown, Stopped, StopsEarly,
     FailedInBatch, FullShape
<1>7. VerdictKnown' BY LanesAre DEF VerdictKnown, LeasesKnown
<1> QED BY <1>1, <1>2, <1>3, <1>4, <1>5, <1>6, <1>7

LEMMA LogsNotCollectedKeeps ==
  ASSUME FullRunInv, LogsNotCollected
  PROVE  FullRunInv'
<1>a. /\ full.stage = "logs"
      /\ full.batch \in BatchIds
      /\ full' \in FullLocals
      /\ full'.logsLost = TRUE
      /\ full'.stage = "drift"
      /\ UNCHANGED <<full.batch, full.permitted, full.pending, full.was, full.then>>
      /\ UNCHANGED <<full.failFast, full.failed, full.error, full.aggregated, full.ok, pool,
                     lane, late, lease, place>>
  BY BatchNumbers DEF LogsNotCollected, At, FullShape, FullLocals, FullStages, poolVars
<1> USE <1>a
<1>b. SameLanes /\ (CleanupOwed' <=> CleanupOwed) /\ Held' = Held
  BY LanesStay DEF CleanupOwed, Held
<1> USE <1>b
<1>1. PoolShape' /\ LaneShape' /\ PoolKnown' /\ RemovedIsSafe' BY LanesStay
<1>2. FullShape' /\ FutureKnown' /\ StageOfPool' /\ QuietWhenAllowed'
  BY DEF FullShape, FutureKnown, QuietWhenAllowed, StageOfPool
<1>3. LeasesKnown' BY BatchNumbers DEF LeasesKnown, ToRelease
<1>4. TreesKnown' /\ LogsKnown'
  BY BatchesPartition, LanesAre DEF TreesKnown, ToRelease, LeasesKnown, LogsKnown,
     QuietWhenAllowed
<1>5. ShardsKnown'
  BY BatchesPartition, LanesAre DEF ShardsKnown, Stopped, StopsEarly, FailedInBatch,
     FullShape
<1>6. VerdictKnown' BY LanesAre DEF VerdictKnown, LeasesKnown
<1> QED BY <1>1, <1>2, <1>3, <1>4, <1>5, <1>6

LEMMA GoodBatchReportedKeeps ==
  ASSUME FullRunInv, BatchReported, FailedInBatch = {}
  PROVE  FullRunInv'
<1>o. full.stage = "accept" /\ full.then = "next" /\ Range(full.pending) = {}
  BY DEF BatchReported, Range, LeasesKnown
<1>p. /\ \A i \in Shards : LogsKept(i)
      /\ \A i \in Batch(full.batch) : lane[i].reports = 1 /\ Judged(i)
  <2>1. \A i \in Batch(full.batch) : LogsKept(i) /\ lane[i].reports = 1 /\ Judged(i)
    BY <1>o DEF ShardsKnown, Judged, LogsKept, FailedInBatch
  <2> QED BY <1>o, <2>1 DEF LogsKnown
<1> USE <1>p
<1>a. /\ full.stage = "accept" /\ full.pending = <<>>
      /\ full.batch \in BatchIds
      /\ full' \in FullLocals
      /\ full'.stage = "drift"
      /\ UNCHANGED <<full.batch, full.permitted, full.pending, full.was, full.then>>
      /\ UNCHANGED <<judgement, pool, lane, late, lease, place>>
  BY BatchNumbers DEF BatchReported, At, Forbidding, FullShape, FullLocals, FullStages,
     poolVars
<1> USE <1>a
<1>b. SameLanes /\ (CleanupOwed' <=> CleanupOwed) /\ Held' = Held
  BY LanesStay DEF CleanupOwed, Held
<1> USE <1>b
<1>1. PoolShape' /\ LaneShape' /\ PoolKnown' /\ RemovedIsSafe' BY LanesStay
<1>2. FullShape' /\ FutureKnown' /\ StageOfPool' /\ QuietWhenAllowed'
  BY DEF FullShape, FutureKnown, QuietWhenAllowed, StageOfPool
<1>3. LeasesKnown'
  BY SMTT(20), BatchNumbers DEF LeasesKnown, ToRelease, FullShape, CleanupOwed, Held
<1>4. TreesKnown' BY BatchesPartition, LanesAre DEF TreesKnown, ToRelease, LeasesKnown
<1>5. LogsKnown' BY SMTT(20), BatchesPartition, LanesAre DEF LogsKnown, QuietWhenAllowed
<1>6. ShardsKnown'
  <2>1. /\ \A b \in BatchIds : \A i \in Batch(b) : /\ lane'[i] = lane[i] /\ i \in Lanes
                                                  /\ (Judged(i)' <=> Judged(i))
                                                  /\ (Unrun(i)' <=> Unrun(i))
        /\ (Stopped' <=> Stopped) /\ full'.failed = full.failed
    BY BatchesPartition, LanesAre DEF Stopped, StopsEarly, FailedInBatch, FullShape
  <2> QED BY SMTT(20), <2>1, BatchesPartition DEF ShardsKnown
<1>7. VerdictKnown' BY LanesAre DEF VerdictKnown, LeasesKnown
<1> QED BY <1>1, <1>2, <1>3, <1>4, <1>5, <1>6, <1>7

LEMMA FailedBatchReportedKeeps ==
  ASSUME FullRunInv, BatchReported, FailedInBatch # {}
  PROVE  FullRunInv'
<1>p. /\ full.stage = "accept" /\ full.pending = <<>> /\ Range(full.pending) = {}
      /\ full' = Forbidding("logs")
  BY DEF BatchReported, Range
<1> USE <1>p
<1>a. /\ full.stage = "accept" /\ full.pending = <<>>
      /\ full.batch \in BatchIds
      /\ full' \in FullLocals
      /\ full'.stage = "logs"
      /\ full'.permitted = FALSE
      /\ UNCHANGED <<full.batch, full.pending, full.was, full.then>>
      /\ UNCHANGED <<judgement, pool, lane, late, lease, place>>
  BY BatchNumbers DEF BatchReported, At, Forbidding, FullShape, FullLocals, FullStages,
     poolVars
<1> USE <1>a
<1>b. SameLanes /\ (CleanupOwed' <=> CleanupOwed) /\ Held' = Held
  BY LanesStay DEF CleanupOwed, Held
<1> USE <1>b
<1>1. PoolShape' /\ LaneShape' /\ PoolKnown' /\ RemovedIsSafe' BY LanesStay
<1>2. FullShape' /\ FutureKnown' /\ StageOfPool' /\ QuietWhenAllowed'
  BY DEF FullShape, FutureKnown, QuietWhenAllowed, StageOfPool
<1>3. LeasesKnown'
  BY SMTT(20), BatchNumbers DEF LeasesKnown, ToRelease, FullShape, CleanupOwed, Held
<1>4. TreesKnown' BY BatchesPartition, LanesAre DEF TreesKnown, ToRelease, LeasesKnown
<1>5. LogsKnown' BY SMTT(20), BatchesPartition, LanesAre DEF LogsKnown, QuietWhenAllowed
<1>6. ShardsKnown'
  BY SMTT(20), BatchesPartition, LanesAre DEF ShardsKnown, Stopped, StopsEarly,
     FailedInBatch, FullShape
<1>7. VerdictKnown' BY LanesAre DEF VerdictKnown, LeasesKnown
<1> QED BY <1>1, <1>2, <1>3, <1>4, <1>5, <1>6, <1>7

LEMMA SourceStillMatchesKeeps ==
  ASSUME FullRunInv, SourceStillMatches
  PROVE  FullRunInv'
<1>a. /\ full.stage = "proving" /\ full.then = "next"
      /\ full.batch \in BatchIds
      /\ full' \in FullLocals
      /\ full'.stage = "release"
      /\ full'.permitted = full.was
      /\ UNCHANGED <<full.batch, full.pending, full.was, full.then>>
      /\ UNCHANGED <<judgement, pool, lane, late, lease, place>>
  BY BatchNumbers DEF SourceStillMatches, At, LeasesKnown, FullShape, FullLocals,
     FullStages, poolVars
<1> USE <1>a
<1>b. SameLanes /\ (CleanupOwed' <=> CleanupOwed) /\ Held' = Held
  BY LanesStay DEF CleanupOwed, Held
<1> USE <1>b
<1>1. PoolShape' /\ LaneShape' /\ PoolKnown' /\ RemovedIsSafe' BY LanesStay
<1>2. FullShape' /\ FutureKnown' /\ StageOfPool' /\ QuietWhenAllowed'
  BY DEF FullShape, FutureKnown, QuietWhenAllowed, StageOfPool
<1>3. LeasesKnown'
  BY SMTT(20), BatchNumbers DEF LeasesKnown, ToRelease, FullShape, CleanupOwed, Held
<1>4. TreesKnown' BY BatchesPartition, LanesAre DEF TreesKnown, ToRelease, LeasesKnown
<1>5. LogsKnown' BY SMTT(20), BatchesPartition, LanesAre DEF LogsKnown, QuietWhenAllowed
<1>6. ShardsKnown'
  BY SMTT(20), BatchesPartition, LanesAre DEF ShardsKnown, Stopped, StopsEarly,
     FailedInBatch, FullShape
<1>7. VerdictKnown' BY LanesAre DEF VerdictKnown, LeasesKnown
<1> QED BY <1>1, <1>2, <1>3, <1>4, <1>5, <1>6, <1>7

LEMMA NoBatchLeftKeeps ==
  ASSUME FullRunInv, NextBatch, StopsEarly \/ full.batch = Len(Batches)
  PROVE  FullRunInv'
<1>o. full.stage = "release" /\ full.then = "next" /\ full.batch \in BatchIds
  BY BatchNumbers DEF NextBatch, Released, FullShape, FullLocals
<1> USE <1>o
<1>p. \A i \in Shards : lane[i].reports = 1 /\ Judged(i)
  <2>1. \A b \in BatchIds : b > full.batch => Stopped BY BatchNumbers DEF Stopped
  <2>2. SUFFICES ASSUME NEW i \in Shards, NEW b \in BatchIds, i \in Batch(b)
                 PROVE  lane[i].reports = 1 /\ Judged(i)
    BY BatchesPartition
  <2>3. CASE b < full.batch BY <2>2, <2>3 DEF ShardsKnown
  <2>4. CASE b = full.batch BY <2>2, <2>4 DEF ShardsKnown
  <2>5. CASE b > full.batch BY <2>1, <2>2, <2>5 DEF ShardsKnown, Judged
  <2> QED BY <2>3, <2>4, <2>5, BatchNumbers
<1> USE <1>p
<1>a. /\ full.stage = "release" /\ ToRelease = {} /\ ~CleanupOwed /\ full.then = "next"
      /\ full.batch \in BatchIds
      /\ full' \in FullLocals
      /\ full'.then = "finish"
      /\ UNCHANGED <<full.stage, full.batch, full.permitted, full.pending, full.was>>
      /\ UNCHANGED <<judgement, pool, lane, late, lease, place>>
  BY BatchNumbers DEF NextBatch, At, Released, FullShape, FullLocals, FullStages, poolVars
<1> USE <1>a
<1>b. SameLanes /\ (CleanupOwed' <=> CleanupOwed) /\ Held' = Held
  BY LanesStay DEF CleanupOwed, Held
<1> USE <1>b
<1>1. PoolShape' /\ LaneShape' /\ PoolKnown' /\ RemovedIsSafe' BY LanesStay
<1>2. FullShape' /\ FutureKnown' /\ StageOfPool' /\ QuietWhenAllowed'
  BY DEF FullShape, FutureKnown, QuietWhenAllowed, StageOfPool
<1>3. LeasesKnown'
  BY SMTT(20), BatchNumbers DEF LeasesKnown, ToRelease, FullShape, CleanupOwed, Held
<1>4. TreesKnown' BY BatchesPartition, LanesAre DEF TreesKnown, ToRelease, LeasesKnown
<1>5. LogsKnown' BY SMTT(20), BatchesPartition, LanesAre DEF LogsKnown, QuietWhenAllowed
<1>6. ShardsKnown'
  BY SMTT(20), BatchesPartition, LanesAre DEF ShardsKnown, Stopped, StopsEarly,
     FailedInBatch, FullShape
<1>7. VerdictKnown' BY LanesAre DEF VerdictKnown, LeasesKnown
<1> QED BY <1>1, <1>2, <1>3, <1>4, <1>5, <1>6, <1>7

LEMMA BatchLeftKeeps ==
  ASSUME FullRunInv, NextBatch, ~(StopsEarly \/ full.batch = Len(Batches))
  PROVE  FullRunInv'
<1>o. /\ full.stage = "release" /\ full.then = "next" /\ ToRelease = {} /\ ~CleanupOwed
      /\ full.batch \in BatchIds /\ full.batch + 1 \in BatchIds /\ ~Stopped
  BY BatchNumbers DEF NextBatch, Released, FullShape, FullLocals, Stopped
<1> USE <1>o
<1>e. full' = [At("dispatch") EXCEPT !.batch = @ + 1] BY DEF NextBatch
<1>l. lease[full.batch] = "removed" BY DEF LeasesKnown, ToRelease, Held, CleanupOwed, FullShape
<1>p. \A i \in Shards : LogsKept(i)
  <2>1. \A i \in Batch(full.batch) : LogsKept(i)
    BY <1>l, BatchesPartition, LanesAre DEF TreesKnown, RemovedIsSafe
  <2> QED BY <2>1 DEF LogsKnown
<1> USE <1>p
<1>r. \A i \in Batch(full.batch + 1) : Unrun(i) /\ lane[i].reports = 0 /\ i \notin full.failed
  BY BatchNumbers DEF ShardsKnown
<1>a. /\ full.stage = "release" /\ ToRelease = {} /\ ~CleanupOwed /\ full.then = "next"
      /\ full.batch \in BatchIds
      /\ full' \in FullLocals
      /\ full'.stage = "dispatch"
      /\ full'.batch = full.batch + 1
      /\ UNCHANGED <<full.permitted, full.pending, full.was, full.then>>
      /\ UNCHANGED <<judgement, pool, lane, late, lease, place>>
  BY <1>e, <1>r, BatchNumbers DEF NextBatch, At, Released, FullShape, FullLocals,
     FullStages, poolVars
<1> USE <1>a
<1>b. SameLanes /\ (CleanupOwed' <=> CleanupOwed) /\ Held' = Held
  BY LanesStay DEF CleanupOwed, Held
<1> USE <1>b
<1>1. PoolShape' /\ LaneShape' /\ PoolKnown' /\ RemovedIsSafe' BY LanesStay
<1>2. FullShape' /\ FutureKnown' /\ StageOfPool' /\ QuietWhenAllowed'
  BY <1>e, <1>r DEF FullShape, FutureKnown, QuietWhenAllowed, StageOfPool
<1>3. LeasesKnown'
  BY SMTT(20), <1>e, <1>r, BatchNumbers DEF LeasesKnown, ToRelease, FullShape, CleanupOwed,
     Held
<1>4. TreesKnown'
  BY <1>e, <1>r, BatchesPartition, LanesAre DEF TreesKnown, ToRelease, LeasesKnown
<1>5. LogsKnown'
  BY SMTT(20), <1>e, <1>r, BatchesPartition, LanesAre DEF LogsKnown, QuietWhenAllowed
<1>6. ShardsKnown'
  BY SMTT(20), <1>e, <1>r, BatchesPartition, LanesAre DEF ShardsKnown, Stopped, StopsEarly,
     FailedInBatch, FullShape
<1>7. VerdictKnown' BY <1>e, <1>r, LanesAre DEF VerdictKnown, LeasesKnown
<1> QED BY <1>1, <1>2, <1>3, <1>4, <1>5, <1>6, <1>7

LEMMA AggregatedKeeps ==
  ASSUME FullRunInv, Aggregated
  PROVE  FullRunInv'
<1>o. /\ full.stage = "release" /\ full.then = "finish" /\ Held = {} /\ ~CleanupOwed
  BY DEF Aggregated, Released, ToRelease
<1>l. \A b \in BatchIds : lease[b] = "removed"
  BY <1>o DEF LeasesKnown, Held, CleanupOwed, FullShape
<1>p. /\ \A i \in Shards :
           LogsKept(i) /\ lane[i].reports = 1 /\ (Outcome(i).ok \/ i \in full.failed)
      /\ \A b \in BatchIds : lease[b] = "removed"
  BY <1>o, <1>l, BatchesPartition, LanesAre DEF TreesKnown, RemovedIsSafe, ShardsKnown,
     Judged
<1> USE <1>p
<1>a. /\ full.stage = "release" /\ ToRelease = {} /\ ~CleanupOwed /\ full.then = "finish"
      /\ full.batch \in BatchIds
      /\ full' \in FullLocals
      /\ full'.aggregated = TRUE /\ full'.ok = (full.failed = {} /\ ~full.logsLost)
      /\ full'.stage = "final"
      /\ UNCHANGED <<full.batch, full.permitted, full.pending, full.was, full.then>>
      /\ UNCHANGED <<full.failFast, full.failed, full.logsLost, full.error, pool, lane,
                     late, lease, place>>
  BY BatchNumbers DEF Aggregated, At, Released, FullShape, FullLocals, FullStages, poolVars
<1> USE <1>a
<1>b. SameLanes /\ (CleanupOwed' <=> CleanupOwed) /\ Held' = Held
  BY LanesStay DEF CleanupOwed, Held
<1> USE <1>b
<1>1. PoolShape' /\ LaneShape' /\ PoolKnown' /\ RemovedIsSafe' BY LanesStay
<1>2. FullShape' /\ FutureKnown' /\ StageOfPool' /\ QuietWhenAllowed'
  BY DEF FullShape, FutureKnown, QuietWhenAllowed, StageOfPool
<1>3. LeasesKnown'
  BY SMTT(20), BatchNumbers DEF LeasesKnown, ToRelease, FullShape, CleanupOwed, Held
<1>4. TreesKnown' BY BatchesPartition, LanesAre DEF TreesKnown, ToRelease, LeasesKnown
<1>5. LogsKnown' BY SMTT(20), BatchesPartition, LanesAre DEF LogsKnown, QuietWhenAllowed
<1>6. ShardsKnown'
  BY SMTT(20), BatchesPartition, LanesAre DEF ShardsKnown, Stopped, StopsEarly,
     FailedInBatch, FullShape
<1>7. VerdictKnown' BY LanesAre DEF VerdictKnown, LeasesKnown
<1> QED BY <1>1, <1>2, <1>3, <1>4, <1>5, <1>6, <1>7

LEMMA FinalProofKeeps ==
  ASSUME FullRunInv, FinalProof
  PROVE  FullRunInv'
<1>a. /\ full.stage = "final"
      /\ full.batch \in BatchIds
      /\ full' \in FullLocals
      /\ full'.ok = (full.ok /\ ~late /\ ~place.edited)
      /\ full'.stage = "unroot"
      /\ UNCHANGED <<full.batch, full.permitted, full.pending, full.was, full.then>>
      /\ UNCHANGED <<full.failFast, full.failed, full.logsLost, full.error, full.aggregated,
                     pool, lane, late, lease, place>>
  BY BatchNumbers DEF FinalProof, At, FullShape, FullLocals, FullStages, poolVars
<1> USE <1>a
<1>b. SameLanes /\ (CleanupOwed' <=> CleanupOwed) /\ Held' = Held
  BY LanesStay DEF CleanupOwed, Held
<1> USE <1>b
<1>1. PoolShape' /\ LaneShape' /\ PoolKnown' /\ RemovedIsSafe' BY LanesStay
<1>2. FullShape' /\ FutureKnown' /\ StageOfPool' /\ QuietWhenAllowed'
  BY DEF FullShape, FutureKnown, QuietWhenAllowed, StageOfPool
<1>3. LeasesKnown' BY BatchNumbers DEF LeasesKnown, ToRelease
<1>4. TreesKnown' /\ LogsKnown' /\ ShardsKnown'
  BY BatchesPartition, LanesAre DEF TreesKnown, ToRelease, LeasesKnown, LogsKnown,
     QuietWhenAllowed, ShardsKnown, Stopped
<1>5. VerdictKnown' BY LanesAre DEF VerdictKnown, LeasesKnown
<1> QED BY <1>1, <1>2, <1>3, <1>4, <1>5

LEMMA FinalProofFailsKeeps ==
  ASSUME FullRunInv, FinalProofFails
  PROVE  FullRunInv'
<1>a. /\ full.stage = "final"
      /\ full.batch \in BatchIds
      /\ full' \in FullLocals
      /\ full'.ok = FALSE
      /\ full'.stage = "unroot"
      /\ UNCHANGED <<full.batch, full.permitted, full.pending, full.was, full.then>>
      /\ UNCHANGED <<full.failFast, full.failed, full.logsLost, full.error, full.aggregated,
                     pool, lane, late, lease, place>>
  BY BatchNumbers DEF FinalProofFails, At, FullShape, FullLocals, FullStages, poolVars
<1> USE <1>a
<1>b. SameLanes /\ (CleanupOwed' <=> CleanupOwed) /\ Held' = Held
  BY LanesStay DEF CleanupOwed, Held
<1> USE <1>b
<1>1. PoolShape' /\ LaneShape' /\ PoolKnown' /\ RemovedIsSafe' BY LanesStay
<1>2. FullShape' /\ FutureKnown' /\ StageOfPool' /\ QuietWhenAllowed'
  BY DEF FullShape, FutureKnown, QuietWhenAllowed, StageOfPool
<1>3. LeasesKnown' BY BatchNumbers DEF LeasesKnown, ToRelease
<1>4. TreesKnown' /\ LogsKnown' /\ ShardsKnown'
  BY BatchesPartition, LanesAre DEF TreesKnown, ToRelease, LeasesKnown, LogsKnown,
     QuietWhenAllowed, ShardsKnown, Stopped
<1>5. VerdictKnown' BY LanesAre DEF VerdictKnown, LeasesKnown
<1> QED BY <1>1, <1>2, <1>3, <1>4, <1>5

LEMMA FailingKeeps ==
  ASSUME FullRunInv, NEW error \in {"error", "interrupt"}, FailsWith(error),
         UNCHANGED <<poolVars, place>>,
         \/ full.stage \in Fragile \cup Releases
         \/ full.stage = "final" /\ error = "interrupt"
         \/ full.stage \in {"probing", "running"} /\ pool.at \in {"over", "raised"}
  PROVE  FullRunInv'
<1>a. /\ full' \in FullLocals
      /\ full'.stage = "unroot" /\ full'.error = error
      /\ full'.permitted = (full.permitted /\ Held = {})
      /\ UNCHANGED <<full.failFast, full.failed, full.logsLost, full.aggregated, full.ok,
                     full.batch, full.pending, full.was, full.then>>
      /\ UNCHANGED <<pool, lane, late, place>>
      /\ full.batch \in BatchIds
  BY DEF FailsWith, FullShape, FullLocals, FullStages, poolVars
<1> USE <1>a
<1>c. /\ lease' = [b \in BatchIds |-> IF b \in Held THEN "retained" ELSE lease[b]]
      /\ \A b \in BatchIds : lease'[b] = IF b \in Held THEN "retained" ELSE lease[b]
      /\ Held' = {}
  BY DEF FailsWith, FullShape, Held
<1> USE <1>c
<1>d. /\ full.stage \notin Ended /\ (full.stage = "final" => error = "interrupt")
      /\ full.stage \in {"probing", "running"} => pool.at \in {"over", "raised"}
  BY DEF Fragile
<1>k. full'.permitted => \A i \in Shards : LogsKept(i)
  <2>1. ASSUME full'.permitted PROVE full.permitted /\ Held = {} BY <2>1
  <2>2. ASSUME Held = {}, full.stage \in Executing PROVE FALSE
    BY <2>2, BatchNumbers DEF LeasesKnown, Held
  <2>3. ASSUME full.permitted, full.stage \notin Executing PROVE \A i \in Shards : LogsKept(i)
    BY <1>d, <2>3 DEF LogsKnown, QuietWhenAllowed, Fragile
  <2> QED BY <2>1, <2>2, <2>3
<1>b. SameLanes BY LanesStay
<1> USE <1>b
<1>1. PoolShape' /\ LaneShape' /\ PoolKnown' /\ RemovedIsSafe' BY LanesStay
<1>2. FullShape' /\ FutureKnown' /\ StageOfPool' /\ QuietWhenAllowed'
  BY <1>d, <1>k DEF FullShape, FutureKnown, QuietWhenAllowed, StageOfPool
<1>3. LeasesKnown'
  BY SMTT(20), <1>d, <1>k, BatchNumbers DEF LeasesKnown, ToRelease, FullShape, CleanupOwed,
     Held
<1>4. TreesKnown'
  BY <1>d, <1>k, BatchesPartition, LanesAre DEF TreesKnown, ToRelease, LeasesKnown
<1>5. LogsKnown'
  BY SMTT(20), <1>d, <1>k, BatchesPartition, LanesAre DEF LogsKnown, QuietWhenAllowed
<1>6. ShardsKnown'
  BY SMTT(20), <1>d, <1>k, BatchesPartition, LanesAre DEF ShardsKnown, Stopped, StopsEarly,
     FailedInBatch, FullShape
<1>7. VerdictKnown' BY <1>d, <1>k, LanesAre DEF VerdictKnown, LeasesKnown
<1> QED BY <1>1, <1>2, <1>3, <1>4, <1>5, <1>6, <1>7

LEMMA MaterializersFailKeeps ==
  ASSUME FullRunInv, MaterializersFail
  PROVE  FullRunInv'
<1>o. full.stage = "materialize" /\ full.batch \in BatchIds /\ ~full.permitted /\ pool.at = "off"
  BY DEF MaterializersFail, FullShape, FullLocals, QuietWhenAllowed, StageOfPool, PoolShape
<1> USE <1>o
<1>h. PICK alive \in SUBSET Batch(full.batch), error \in {"error", "interrupt"} :
        lane' = WithTrees(Batch(full.batch), alive) /\ FailsWith(error)
  BY DEF MaterializersFail
<1>a. /\ full' \in FullLocals
      /\ full'.stage = "unroot" /\ full'.error = error /\ full'.permitted = FALSE
      /\ UNCHANGED <<full.failFast, full.failed, full.logsLost, full.aggregated, full.ok,
                     full.batch, full.pending, full.was, full.then>>
      /\ UNCHANGED <<pool, late, place>>
  BY <1>h DEF MaterializersFail, FailsWith, FullShape, FullLocals, FullStages
<1> USE <1>a
<1>c. /\ lease' = [b \in BatchIds |-> IF b \in Held THEN "retained" ELSE lease[b]]
      /\ \A b \in BatchIds : lease'[b] = IF b \in Held THEN "retained" ELSE lease[b]
      /\ Held' = {} /\ \A b \in BatchIds : lease'[b] # "removed"
  <2>1. \A b \in BatchIds : lease[b] \in {"none", "held"} BY DEF LeasesKnown
  <2> QED BY <1>h, <2>1 DEF FailsWith, FullShape, Held
<1> USE <1>c
<1>l. /\ lane' \in [Lanes -> LaneRecords]
      /\ \A i \in Lanes :
           /\ lane'[i].future = lane[i].future /\ lane'[i].out = lane[i].out
           /\ lane'[i].runs = lane[i].runs /\ lane'[i].reports = lane[i].reports
           /\ lane'[i].logs = lane[i].logs
           /\ lane'[i].tree = "removed" =>
                lane[i].tree = "removed" /\ (lane'[i].alive <=> lane[i].alive)
  BY <1>h, TreesAre
<1> USE <1>l
<1>b. \A i \in Lanes :
        /\ Outcome(i)' = Outcome(i) /\ (LogsKept(i)' <=> LogsKept(i))
        /\ (Unrun(i)' <=> Unrun(i)) /\ (Judged(i)' <=> Judged(i))
        /\ lane'[i].tree = "removed" => lane[i].tree = "removed" /\ (Quiet(i)' <=> Quiet(i))
  BY DEF Outcome, LogsKept, Unrun, Judged, Quiet
<1> USE <1>b
<1>1. PoolShape' /\ LaneShape' /\ FutureKnown' /\ PoolKnown'
  BY DEF PoolShape, LaneShape, FutureKnown, QuietWhenAllowed, PoolKnown
<1>2. FullShape' BY DEF FullShape
<1>3. StageOfPool' /\ QuietWhenAllowed' /\ RemovedIsSafe'
  BY DEF StageOfPool, QuietWhenAllowed, RemovedIsSafe
<1>4. LeasesKnown'
  BY SMTT(20), BatchNumbers DEF LeasesKnown, ToRelease, FullShape, CleanupOwed, Held
<1>5. TreesKnown' BY BatchesPartition, LanesAre DEF TreesKnown, ToRelease, LeasesKnown
<1>6. LogsKnown' BY SMTT(20), BatchesPartition, LanesAre DEF LogsKnown, QuietWhenAllowed
<1>7. ShardsKnown'
  BY SMTT(20), BatchesPartition, LanesAre DEF ShardsKnown, Stopped, StopsEarly,
     FailedInBatch, FullShape
<1>8. VerdictKnown' BY LanesAre DEF VerdictKnown
<1> QED BY <1>1, <1>2, <1>3, <1>4, <1>5, <1>6, <1>7, <1>8

LEMMA BatchMaterializedKeeps ==
  ASSUME FullRunInv, BatchMaterialized
  PROVE  FullRunInv'
<1>o. /\ full.stage = "materialize" /\ full.batch \in BatchIds /\ pool.at = "off"
      /\ \A i \in Lanes : Quiet(i) /\ Unrun(i)
  BY DEF BatchMaterialized, FullShape, FullLocals, QuietWhenAllowed, StageOfPool, PoolShape,
     ShardsKnown
<1> USE <1>o
<1>a. /\ full' \in FullLocals
      /\ full'.stage = "freeze" /\ full'.permitted = TRUE
      /\ UNCHANGED <<full.failFast, full.failed, full.logsLost, full.error, full.aggregated,
                     full.ok, full.batch, full.pending, full.was, full.then>>
      /\ UNCHANGED <<pool, late, lease, place>>
  BY DEF BatchMaterialized, Allow, FullShape, FullLocals, FullStages
<1> USE <1>a
<1>l. /\ lane' \in [Lanes -> LaneRecords]
      /\ \A i \in Lanes :
           /\ lane'[i].future = lane[i].future
           /\ lane'[i].out = lane[i].out
           /\ lane'[i].runs = lane[i].runs
           /\ lane'[i].reports = lane[i].reports
           /\ lane'[i].logs = lane[i].logs
           /\ lane'[i].alive = FALSE
           /\ lane'[i].tree = IF i \in Batch(full.batch) THEN "present" ELSE lane[i].tree
  BY TreesAre DEF BatchMaterialized, Quiet
<1> USE <1>l
<1>b. \A i \in Lanes :
        /\ Outcome(i)' = Outcome(i)
        /\ (LogsKept(i)' <=> LogsKept(i))
        /\ (Unrun(i)' <=> Unrun(i))
        /\ (Quiet(i)' <=> Quiet(i))
        /\ (Judged(i)' <=> Judged(i))
  BY DEF Outcome, LogsKept, Unrun, Quiet, Judged
<1> USE <1>b
<1>c. Held' = Held /\ (CleanupOwed' <=> CleanupOwed) BY DEF Held, CleanupOwed
<1> USE <1>c
<1>1. PoolShape' /\ LaneShape' /\ FullShape' /\ FutureKnown'
  BY DEF PoolShape, LaneShape, FullShape, FutureKnown, QuietWhenAllowed
<1>2. PoolKnown' /\ StageOfPool' /\ QuietWhenAllowed' /\ RemovedIsSafe'
  BY DEF PoolKnown, StageOfPool, QuietWhenAllowed, RemovedIsSafe
<1>3. LeasesKnown'
  BY SMTT(20), BatchNumbers DEF LeasesKnown, ToRelease, FullShape, CleanupOwed, Held
<1>4. TreesKnown'
  <2>1. (\A b \in BatchIds : lease[b] = "removed" => \A i \in Batch(b) : lane[i].tree = "removed")'
    BY BatchesPartition, LanesAre DEF TreesKnown, ToRelease, LeasesKnown
  <2>2. (\A b \in Held :
           /\ ~(full.stage = "materialize" /\ b = full.batch)
           /\ ~(full.stage = "removing" /\ b = Max(ToRelease))
           => \A i \in Batch(b) : lane[i].tree = "present")'
    <3>1. ASSUME NEW b \in Held, NEW i \in Batch(b), i \notin Batch(full.batch)
          PROVE  lane[i].tree = "present"
      BY <3>1 DEF TreesKnown
    <3>2. \A b \in Held : Batch(b) \subseteq Lanes BY BatchesPartition, LanesAre DEF Held
    <3>3. ASSUME NEW b \in Held, NEW i \in Batch(b) PROVE lane'[i].tree = "present"
      BY <3>1, <3>2
    <3> QED BY <3>3
  <2>3. (full.stage = "removing" => \A i \in Batch(Max(ToRelease)) : lane[i].tree = "removed")'
    BY BatchesPartition, LanesAre DEF TreesKnown, ToRelease, LeasesKnown
  <2>4. (full.stage = "probing" => \A i \in Probes : lane[i].tree = "present")'
    BY BatchesPartition, LanesAre DEF TreesKnown, ToRelease, LeasesKnown
  <2> QED BY <2>1, <2>2, <2>3, <2>4 DEF TreesKnown
<1>5. LogsKnown' BY SMTT(20), BatchesPartition, LanesAre DEF LogsKnown, QuietWhenAllowed
<1>6. ShardsKnown'
  BY SMTT(20), BatchesPartition, LanesAre DEF ShardsKnown, Stopped, StopsEarly,
     FailedInBatch, FullShape
<1>7. VerdictKnown' BY LanesAre DEF VerdictKnown
<1> QED BY <1>1, <1>2, <1>3, <1>4, <1>5, <1>6, <1>7

LEMMA LeaseTakenKeeps ==
  ASSUME FullRunInv, LeaseTaken
  PROVE  FullRunInv'
<1>a. /\ full.stage = "prepare" /\ full.batch \in BatchIds
      /\ full' \in FullLocals
      /\ full'.stage = "materialize" /\ full'.permitted = FALSE
      /\ UNCHANGED <<full.failFast, full.failed, full.logsLost, full.error, full.aggregated,
                     full.ok, full.batch, full.pending, full.was, full.then>>
      /\ UNCHANGED <<pool, lane, late, place>>
  BY DEF LeaseTaken, Forbidding, poolVars, FullShape, FullLocals, FullStages
<1> USE <1>a
<1>c. /\ lease' \in [BatchIds -> {"none", "held", "removed", "retained"}]
      /\ \A b \in BatchIds : lease'[b] = IF b = full.batch THEN "held" ELSE lease[b]
      /\ Held' = Held \cup {full.batch} /\ (CleanupOwed' => CleanupOwed)
  BY DEF LeaseTaken, FullShape, Held, CleanupOwed
<1> USE <1>c
<1>b. SameLanes BY LanesStay
<1> USE <1>b
<1>1. PoolShape' /\ LaneShape' /\ PoolKnown' /\ RemovedIsSafe' BY LanesStay
<1>2. FullShape' /\ FutureKnown' /\ StageOfPool' /\ QuietWhenAllowed'
  BY DEF FullShape, FutureKnown, QuietWhenAllowed, StageOfPool
<1>3. LeasesKnown'
  BY SMTT(20), BatchNumbers DEF LeasesKnown, ToRelease, FullShape, CleanupOwed, Held
<1>4. TreesKnown' BY BatchesPartition, LanesAre DEF TreesKnown, ToRelease, LeasesKnown
<1>5. LogsKnown' BY SMTT(20), BatchesPartition, LanesAre DEF LogsKnown, QuietWhenAllowed
<1>6. ShardsKnown'
  BY SMTT(20), BatchesPartition, LanesAre DEF ShardsKnown, Stopped, StopsEarly,
     FailedInBatch, FullShape
<1>7. VerdictKnown' BY LanesAre DEF VerdictKnown, LeasesKnown
<1> QED BY <1>1, <1>2, <1>3, <1>4, <1>5, <1>6, <1>7

LEMMA ProbesStartKeeps ==
  ASSUME FullRunInv, ProbesStart
  PROVE  FullRunInv'
<1>o. /\ full.stage = "probe" /\ full.batch \in BatchIds /\ pool.at = "off"
      /\ \A i \in Lanes : Quiet(i) /\ Unrun(i)
  BY DEF ProbesStart, FullShape, FullLocals, QuietWhenAllowed, StageOfPool, PoolShape,
     ShardsKnown
<1> USE <1>o
<1>a. /\ full' \in FullLocals
      /\ full'.stage = "probing" /\ full'.permitted = FALSE
      /\ UNCHANGED <<full.failFast, full.failed, full.logsLost, full.error, full.aggregated,
                     full.ok, full.batch, full.pending, full.was, full.then>>
      /\ UNCHANGED <<late, lease, place>>
  BY DEF ProbesStart, Forbidding, FullShape, FullLocals, FullStages
<1> USE <1>a
<1>p. /\ pool' = [at |-> "submit", roster |-> <<"a", "b">>, limit |-> 2, failFast |-> TRUE,
                  next |-> 1, flight |-> {}, done |-> {}, cancelled |-> late]
      /\ pool'.roster = <<"a", "b">> /\ pool'.at = "submit" /\ pool'.next = 1
      /\ pool'.flight = {} /\ pool'.done = {}
  BY DEF ProbesStart, PoolStarted, NoPool
<1> USE <1>p
<1>l. /\ lane' \in [Lanes -> LaneRecords]
      /\ \A i \in Lanes :
           /\ lane'[i].future = lane[i].future
           /\ lane'[i].out = lane[i].out
           /\ lane'[i].runs = lane[i].runs
           /\ lane'[i].reports = lane[i].reports
           /\ lane'[i].logs = lane[i].logs
           /\ lane'[i].alive = FALSE
           /\ i \notin Probes => lane'[i].tree = lane[i].tree
           /\ i \in Probes => lane'[i].tree = "present"
           /\ lane'[i].tree = "removed" => lane[i].tree = "removed"
  BY TreesAre DEF ProbesStart, Quiet
<1> USE <1>l
<1>b. \A i \in Lanes :
        /\ Outcome(i)' = Outcome(i)
        /\ (LogsKept(i)' <=> LogsKept(i))
        /\ (Unrun(i)' <=> Unrun(i))
        /\ (Quiet(i)' <=> Quiet(i))
        /\ (Judged(i)' <=> Judged(i))
  BY DEF Outcome, LogsKept, Unrun, Quiet, Judged
<1> USE <1>b
<1>c. Held' = Held /\ (CleanupOwed' <=> CleanupOwed) BY DEF Held, CleanupOwed
<1> USE <1>c
<1>1. PoolShape' /\ LaneShape' /\ FullShape' /\ FutureKnown'
  BY ProbeRoster, LanesAre DEF PoolShape, LaneShape, FullShape, FutureKnown,
     QuietWhenAllowed
<1>2. PoolKnown' /\ StageOfPool' /\ QuietWhenAllowed' /\ RemovedIsSafe'
  BY ProbeRoster, LanesAre DEF PoolKnown, StageOfPool, QuietWhenAllowed, RemovedIsSafe
<1>3. LeasesKnown'
  BY SMTT(20), ProbeRoster, LanesAre, BatchNumbers DEF LeasesKnown, ToRelease, FullShape,
     CleanupOwed, Held
<1>4. TreesKnown'
  <2>1. (\A b \in BatchIds : lease[b] = "removed" => \A i \in Batch(b) : lane[i].tree = "removed")'
    BY ProbeRoster, LanesAre, BatchesPartition, LanesAre DEF TreesKnown, ToRelease,
       LeasesKnown
  <2>2. (\A b \in Held :
           /\ ~(full.stage = "materialize" /\ b = full.batch)
           /\ ~(full.stage = "removing" /\ b = Max(ToRelease))
           => \A i \in Batch(b) : lane[i].tree = "present")'
    <3>1. ASSUME NEW b \in Held, NEW i \in Batch(b)
          PROVE  lane[i].tree = "present" /\ i \in Lanes \ Probes
      BY BatchesPartition, LanesAre DEF TreesKnown, Held
    <3>2. ASSUME NEW b \in Held, NEW i \in Batch(b) PROVE lane'[i].tree = "present" BY <3>1
    <3> QED BY <3>2
  <2>3. (full.stage = "removing" => \A i \in Batch(Max(ToRelease)) : lane[i].tree = "removed")'
    BY ProbeRoster, LanesAre, BatchesPartition, LanesAre DEF TreesKnown, ToRelease,
       LeasesKnown
  <2>4. (full.stage = "probing" => \A i \in Probes : lane[i].tree = "present")'
    BY ProbeRoster, LanesAre, BatchesPartition, LanesAre DEF TreesKnown, ToRelease,
       LeasesKnown
  <2> QED BY <2>1, <2>2, <2>3, <2>4 DEF TreesKnown
<1>5. LogsKnown'
  BY SMTT(20), ProbeRoster, LanesAre, BatchesPartition, LanesAre DEF LogsKnown,
     QuietWhenAllowed
<1>6. ShardsKnown'
  <2>1. (full.stage \in Preparations \/ (full.stage \in Releases /\ full.then = "environment") =>
           /\ full.failed = {}
           /\ \A i \in Shards : Unrun(i) /\ lane[i].reports = 0)'
    BY LanesAre DEF ShardsKnown
  <2>2. (full.stage \in Executing \cup Releases /\ full.then = "next" =>
           \A b \in BatchIds : \A i \in Batch(b) :
             /\ b < full.batch => lane[i].reports = 1 /\ Judged(i)
             /\ b > full.batch =>
                  /\ Unrun(i)
                  /\ ~Stopped => lane[i].reports = 0 /\ i \notin full.failed
                  /\ Stopped => lane[i].reports = 1 /\ i \in full.failed)'
    BY ProbeRoster, LanesAre, BatchesPartition, LanesAre DEF ShardsKnown, Stopped
  <2>3. (full.stage \in Preparations \ {"probing"} => \A i \in Lanes : Unrun(i))'
    BY ProbeRoster, LanesAre, BatchesPartition, LanesAre DEF ShardsKnown, Stopped
  <2>4. (full.stage = "dispatch" => \A i \in Batch(full.batch) : Unrun(i))'
    BY ProbeRoster, LanesAre, BatchesPartition, LanesAre DEF ShardsKnown, Stopped
  <2>5. (full.stage \in {"dispatch", "running"} =>
           \A i \in Batch(full.batch) : lane[i].reports = 0 /\ i \notin full.failed)'
    BY ProbeRoster, LanesAre, BatchesPartition, LanesAre DEF ShardsKnown, Stopped
  <2>6. (full.stage = "accept" =>
           /\ \A p, q \in DOMAIN full.pending : full.pending[p] = full.pending[q] => p = q
           /\ Range(full.pending) \subseteq Batch(full.batch)
           /\ \A i \in Batch(full.batch) :
                IF i \in Range(full.pending) THEN lane[i].reports = 0
                ELSE lane[i].reports = 1 /\ Judged(i))'
    BY ProbeRoster, LanesAre, BatchesPartition, LanesAre DEF ShardsKnown, Stopped
  <2>7. ((full.stage \in {"logs", "drift", "proving"} \cup Releases) /\ full.then = "next" =>
           \A i \in Batch(full.batch) : lane[i].reports = 1 /\ Judged(i))'
    BY ProbeRoster, LanesAre, BatchesPartition, LanesAre DEF ShardsKnown, Stopped
  <2>8. (full.stage \in Releases /\ full.then = "finish" =>
           /\ \A i \in Shards : lane[i].reports = 1 /\ Judged(i))'
    BY ProbeRoster, LanesAre, BatchesPartition, LanesAre DEF ShardsKnown, Stopped
  <2> QED BY <2>1, <2>2, <2>3, <2>4, <2>5, <2>6, <2>7, <2>8 DEF ShardsKnown
<1>7. VerdictKnown' BY ProbeRoster, LanesAre, LanesAre DEF VerdictKnown
<1> QED BY <1>1, <1>2, <1>3, <1>4, <1>5, <1>6, <1>7

LEMMA ProbesPassKeeps ==
  ASSUME FullRunInv, ProbesPass
  PROVE  FullRunInv'
<1>o. /\ full.stage = "probing" /\ full.batch \in BatchIds /\ pool.at = "over"
      /\ \A i \in Lanes : Quiet(i)
  <2>1. /\ full.stage = "probing" /\ full.batch \in BatchIds /\ pool.at = "over"
        /\ \A i \in Probes : Outcome(i).quiet
    BY DEF ProbesPass, PoolReturns, AllQuiet, FullShape, FullLocals
  <2>2. \A i \in Lanes \ Probes : Quiet(i) BY <2>1 DEF QuietWhenAllowed, StageOfPool
  <2>3. \A i \in Lanes : lane[i].future \notin {"queued", "running"} BY <2>1 DEF PoolKnown
  <2>4. \A i \in Probes : Quiet(i) BY <2>1, <2>3, LanesAre DEF Quiet, FutureKnown, Outcome
  <2> QED BY <2>1, <2>2, <2>4, LanesAre
<1> USE <1>o
<1>a. /\ full' \in FullLocals
      /\ full'.stage = "dispatch" /\ full'.permitted = TRUE
      /\ UNCHANGED <<full.failFast, full.failed, full.logsLost, full.error, full.aggregated,
                     full.ok, full.batch, full.pending, full.was, full.then>>
      /\ UNCHANGED <<lane, late, lease, place>>
      /\ pool' = NoPool
  BY DEF ProbesPass, Allow, PoolReturns, FullShape, FullLocals, FullStages
<1> USE <1>a
<1>c. Held' = Held /\ (CleanupOwed' <=> CleanupOwed) BY DEF Held, CleanupOwed
<1> USE <1>c
<1>s. /\ full.failed = {} /\ full.batch = 1
      /\ \A b \in BatchIds : \A i \in Batch(b) : Unrun(i) /\ lane[i].reports = 0
  BY BatchesPartition DEF ShardsKnown, LeasesKnown
<1>b. \A i :
            /\ Outcome(i)' = Outcome(i) /\ (LogsKept(i)' <=> LogsKept(i))
            /\ (Unrun(i)' <=> Unrun(i)) /\ (Quiet(i)' <=> Quiet(i))
            /\ (Judged(i)' <=> Judged(i))
  BY DEF Outcome, LogsKept, Unrun, Quiet, Judged
<1> USE <1>b
<1>1. PoolShape' /\ LaneShape' /\ FullShape' /\ FutureKnown'
  BY DEF PoolShape, NoPool, LaneShape, FullShape, FutureKnown, QuietWhenAllowed
<1>2. PoolKnown' /\ StageOfPool' /\ QuietWhenAllowed' /\ RemovedIsSafe'
  BY DEF PoolKnown, NoPool, Range, Quiet, StageOfPool, QuietWhenAllowed, RemovedIsSafe
<1>3. LeasesKnown'
  BY SMTT(20), BatchNumbers DEF LeasesKnown, ToRelease, FullShape, CleanupOwed, Held
<1>4. TreesKnown' BY SMTT(20), BatchesPartition, LanesAre DEF TreesKnown, ToRelease, LeasesKnown
<1>5. LogsKnown' BY SMTT(20), BatchesPartition, LanesAre DEF LogsKnown, QuietWhenAllowed
<1>6. ShardsKnown'
  <2>1. (full.stage \in Preparations \/ (full.stage \in Releases /\ full.then = "environment") =>
           /\ full.failed = {}
           /\ \A i \in Shards : Unrun(i) /\ lane[i].reports = 0)'
    BY BatchesPartition, LanesAre DEF ShardsKnown, Stopped
  <2>2. (full.stage \in Executing \cup Releases /\ full.then = "next" =>
           \A b \in BatchIds : \A i \in Batch(b) :
             /\ b < full.batch => lane[i].reports = 1 /\ Judged(i)
             /\ b > full.batch =>
                  /\ Unrun(i)
                  /\ ~Stopped => lane[i].reports = 0 /\ i \notin full.failed
                  /\ Stopped => lane[i].reports = 1 /\ i \in full.failed)'
    BY <1>s, BatchNumbers DEF Stopped
  <2>3. (full.stage \in Preparations \ {"probing"} => \A i \in Lanes : Unrun(i))'
    BY BatchesPartition, LanesAre DEF ShardsKnown, Stopped
  <2>4. (full.stage = "dispatch" => \A i \in Batch(full.batch) : Unrun(i))'
    BY BatchesPartition, LanesAre DEF ShardsKnown, Stopped
  <2>5. (full.stage \in {"dispatch", "running"} =>
           \A i \in Batch(full.batch) : lane[i].reports = 0 /\ i \notin full.failed)'
    BY BatchesPartition, LanesAre DEF ShardsKnown, Stopped
  <2>6. (full.stage = "accept" =>
           /\ \A p, q \in DOMAIN full.pending : full.pending[p] = full.pending[q] => p = q
           /\ Range(full.pending) \subseteq Batch(full.batch)
           /\ \A i \in Batch(full.batch) :
                IF i \in Range(full.pending) THEN lane[i].reports = 0
                ELSE lane[i].reports = 1 /\ Judged(i))'
    BY BatchesPartition, LanesAre DEF ShardsKnown, Stopped
  <2>7. ((full.stage \in {"logs", "drift", "proving"} \cup Releases) /\ full.then = "next" =>
           \A i \in Batch(full.batch) : lane[i].reports = 1 /\ Judged(i))'
    BY BatchesPartition, LanesAre DEF ShardsKnown, Stopped
  <2>8. (full.stage \in Releases /\ full.then = "finish" =>
           /\ \A i \in Shards : lane[i].reports = 1 /\ Judged(i))'
    BY BatchesPartition, LanesAre DEF ShardsKnown, Stopped
  <2> QED BY <2>1, <2>2, <2>3, <2>4, <2>5, <2>6, <2>7, <2>8 DEF ShardsKnown
<1>7. VerdictKnown' BY LanesAre DEF VerdictKnown
<1> QED BY <1>1, <1>2, <1>3, <1>4, <1>5, <1>6, <1>7

LEMMA BatchDispatchedKeeps ==
  ASSUME FullRunInv, BatchDispatched
  PROVE  FullRunInv'
<1>o. /\ full.stage = "dispatch" /\ full.batch \in BatchIds /\ pool.at = "off"
      /\ \A i \in Lanes : Quiet(i)
  BY DEF BatchDispatched, FullShape, FullLocals, QuietWhenAllowed, StageOfPool, PoolShape
<1> USE <1>o
<1>a. /\ full' \in FullLocals
      /\ full'.stage = "running" /\ full'.permitted = FALSE
      /\ UNCHANGED <<full.failFast, full.failed, full.logsLost, full.error, full.aggregated,
                     full.ok, full.batch, full.pending, full.was, full.then>>
      /\ UNCHANGED <<lane, late, lease, place>>
  BY DEF BatchDispatched, Forbidding, FullShape, FullLocals, FullStages
<1> USE <1>a
<1>r. /\ Batches[full.batch] \in Seq(Lanes) /\ Len(Batches[full.batch]) \in 1 .. 4
      /\ \A p, q \in DOMAIN Batches[full.batch] :
           Batches[full.batch][p] = Batches[full.batch][q] => p = q
      /\ \A k \in 1 .. Len(Batches[full.batch]) : Unrun(Batches[full.batch][k])
  <2>1. \A k \in 1 .. Len(Batches[full.batch]) : Batches[full.batch][k] \in Batch(full.batch)
    BY BatchesPartition DEF Batch, Range
  <2> QED BY <2>1, BatchesPartition, LanesAre DEF ShardsKnown
<1>p. /\ pool' \in [at : {"submit"}, roster : {Batches[full.batch]}, limit : 1 .. 4,
                    failFast : BOOLEAN, next : {1}, flight : {{}}, done : {{}},
                    cancelled : BOOLEAN]
      /\ pool'.roster = Batches[full.batch] /\ pool'.at = "submit" /\ pool'.next = 1
      /\ pool'.flight = {} /\ pool'.done = {}
  <2>1. (IF Len(Batches[full.batch]) < FullJobs THEN Len(Batches[full.batch]) ELSE FullJobs)
          \in 1 .. 4
    BY <1>r, FullJobsAssumption
  <2>2. late \in BOOLEAN /\ full.failFast \in BOOLEAN BY DEF PoolShape, FullShape, FullLocals
  <2> QED BY <2>1, <2>2 DEF BatchDispatched, PoolStarted, NoPool
<1> USE <1>p
<1>c. Held' = Held /\ (CleanupOwed' <=> CleanupOwed) BY DEF Held, CleanupOwed
<1> USE <1>c
<1>b. \A i :
            /\ Outcome(i)' = Outcome(i) /\ (LogsKept(i)' <=> LogsKept(i))
            /\ (Unrun(i)' <=> Unrun(i)) /\ (Quiet(i)' <=> Quiet(i))
            /\ (Judged(i)' <=> Judged(i))
  BY DEF Outcome, LogsKept, Unrun, Quiet, Judged
<1> USE <1>b
<1>1. PoolShape' /\ LaneShape' /\ FullShape' /\ FutureKnown'
  BY <1>r DEF PoolShape, LaneShape, FullShape, FutureKnown, QuietWhenAllowed
<1>2. PoolKnown'
  <2>1. (pool.flight \cup pool.done \subseteq Rostered)' BY <1>r DEF PoolKnown
  <2>2. (Len(pool.roster) <= 4 /\ pool.next <= Len(pool.roster) + 1)'
  <3>1. pool'.roster = Batches[full.batch] /\ pool'.next = 1 OBVIOUS
      <3>2. Len(Batches[full.batch]) <= 4 /\ 1 <= Len(Batches[full.batch]) + 1 BY <1>r
      <3> QED BY <3>1, <3>2
  <2>3. (\A p, q \in DOMAIN pool.roster : pool.roster[p] = pool.roster[q] => p = q)'
    BY <1>r DEF PoolKnown
  <2>4. (pool.at = "over" => pool.flight = {})' BY <1>r DEF PoolKnown
  <2>5. (\A i \in Lanes : lane[i].future \in {"queued", "running"} =>
           /\ pool.at # "off" /\ i \in Rostered
           /\ pool.at \in {"submit", "wait", "take", "over"} => i \in pool.flight)'
    BY <1>r DEF PoolKnown
  <2>6. (pool.at \in {"submit", "wait", "take"} =>
           \A k \in pool.next .. Len(pool.roster) : Unrun(pool.roster[k]))'
    BY <1>r DEF PoolKnown
  <2> QED BY <2>1, <2>2, <2>3, <2>4, <2>5, <2>6 DEF PoolKnown
<1>3. StageOfPool' BY DEF StageOfPool, Batch
<1>4. QuietWhenAllowed' /\ RemovedIsSafe' BY <1>r DEF QuietWhenAllowed, RemovedIsSafe
<1>5. LeasesKnown'
  BY SMTT(20), <1>r, BatchNumbers DEF LeasesKnown, ToRelease, FullShape, CleanupOwed, Held
<1>6. TreesKnown'
  BY SMTT(20), <1>r, BatchesPartition, LanesAre DEF TreesKnown, ToRelease, LeasesKnown
<1>7. LogsKnown' BY SMTT(20), <1>r, BatchesPartition, LanesAre DEF LogsKnown, QuietWhenAllowed
<1>8. ShardsKnown'
  BY SMTT(20), <1>r, BatchesPartition, LanesAre DEF ShardsKnown, Stopped, StopsEarly,
     FailedInBatch, FullShape
<1>9. VerdictKnown' BY <1>r, LanesAre DEF VerdictKnown
<1> QED BY <1>1, <1>2, <1>3, <1>4, <1>5, <1>6, <1>7, <1>8, <1>9

LEMMA BatchReturnsKeeps ==
  ASSUME FullRunInv, BatchReturns
  PROVE  FullRunInv'
<1>o. /\ full.stage = "running" /\ full.batch \in BatchIds /\ pool.at = "over"
      /\ \A i \in Lanes : Quiet(i)
  <2>1. /\ full.stage = "running" /\ full.batch \in BatchIds /\ pool.at = "over"
        /\ \A i \in Batch(full.batch) : Outcome(i).quiet
    BY DEF BatchReturns, PoolReturns, AllQuiet, FullShape, FullLocals
  <2>2. \A i \in Lanes \ Batch(full.batch) : Quiet(i) BY <2>1 DEF QuietWhenAllowed, StageOfPool
  <2>3. \A i \in Lanes : lane[i].future \notin {"queued", "running"} BY <2>1 DEF PoolKnown
  <2>4. \A i \in Batch(full.batch) : Quiet(i)
    BY <2>1, <2>3, BatchesPartition, LanesAre DEF Quiet, FutureKnown, Outcome
  <2> QED BY <2>1, <2>2, <2>4
<1> USE <1>o
<1>r. /\ Batches[full.batch] \in Seq(Shards) /\ Range(Batches[full.batch]) = Batch(full.batch)
      /\ \A p, q \in DOMAIN Batches[full.batch] :
           Batches[full.batch][p] = Batches[full.batch][q] => p = q
  BY BatchesPartition DEF Batch
<1>a. /\ full' \in FullLocals
      /\ full'.stage = "accept" /\ full'.permitted = TRUE
      /\ full'.pending = Batches[full.batch]
      /\ UNCHANGED <<full.failFast, full.failed, full.logsLost, full.error, full.aggregated,
                     full.ok, full.batch, full.was, full.then>>
      /\ UNCHANGED <<lane, late, lease, place>>
      /\ pool' = NoPool
  BY <1>r DEF BatchReturns, Allow, PoolReturns, FullShape, FullLocals, FullStages
<1> USE <1>a
<1>c. Held' = Held /\ (CleanupOwed' <=> CleanupOwed) BY DEF Held, CleanupOwed
<1> USE <1>c
<1>b. \A i :
            /\ Outcome(i)' = Outcome(i) /\ (LogsKept(i)' <=> LogsKept(i))
            /\ (Unrun(i)' <=> Unrun(i)) /\ (Quiet(i)' <=> Quiet(i))
            /\ (Judged(i)' <=> Judged(i))
  BY DEF Outcome, LogsKept, Unrun, Quiet, Judged
<1> USE <1>b
<1>1. PoolShape' /\ PoolKnown' /\ StageOfPool'
  BY DEF PoolShape, NoPool, PoolKnown, Range, Quiet, StageOfPool
<1>2. LaneShape' /\ FullShape' /\ FutureKnown' /\ QuietWhenAllowed'
  BY <1>r DEF LaneShape, FullShape, FutureKnown, QuietWhenAllowed
<1>3. LeasesKnown'
  BY SMTT(20), <1>r, BatchNumbers DEF LeasesKnown, ToRelease, FullShape, CleanupOwed, Held
<1>4. TreesKnown' BY <1>r, BatchesPartition, LanesAre DEF TreesKnown, ToRelease, LeasesKnown
<1>5. RemovedIsSafe' BY <1>r DEF RemovedIsSafe
<1>6. LogsKnown' BY SMTT(20), <1>r, BatchesPartition, LanesAre DEF LogsKnown, QuietWhenAllowed
<1>7. ShardsKnown'
  BY SMTT(20), <1>r, BatchesPartition, LanesAre DEF ShardsKnown, Stopped, StopsEarly,
     FailedInBatch, FullShape
<1>8. VerdictKnown' BY <1>r, LanesAre DEF VerdictKnown
<1> QED BY <1>1, <1>2, <1>3, <1>4, <1>5, <1>6, <1>7, <1>8

LEMMA ShardReportedKeeps ==
  ASSUME FullRunInv, ShardReported
  PROVE  FullRunInv'
<1> DEFINE i == Head(full.pending)
<1>o. /\ full.stage = "accept" /\ full.batch \in BatchIds /\ pool.at = "off"
      /\ full.then = "next" /\ ~full.aggregated
  BY DEF ShardReported, FullShape, FullLocals, StageOfPool, PoolShape, LeasesKnown,
     VerdictKnown
<1> USE <1>o
<1>t. /\ i \in Shards /\ i \in Range(full.pending)
      /\ Tail(full.pending) \in Seq(Shards)
      /\ Range(Tail(full.pending)) = Range(full.pending) \ {i}
      /\ \A p, q \in DOMAIN Tail(full.pending) :
           Tail(full.pending)[p] = Tail(full.pending)[q] => p = q
  <2>1. /\ full.pending \in Seq(Shards) /\ full.pending # <<>>
        /\ \A p, q \in DOMAIN full.pending : full.pending[p] = full.pending[q] => p = q
    BY DEF ShardReported, FullShape, FullLocals, ShardsKnown
  <2> QED BY <2>1, TailOfDistinct
<1>i. /\ i \in Lanes /\ i \in Batch(full.batch) /\ lane[i].reports = 0 /\ lane[i] \in LaneRecords
      /\ \A b \in BatchIds : b # full.batch => i \notin Batch(b)
  BY <1>t, LanesAre, BatchesPartition DEF ShardsKnown, LaneShape
<1>g. PICK good \in {FALSE, Outcome(i).ok /\ ~late} :
        full' = [full EXCEPT !.pending = Tail(@), !.failed = IF good THEN @ ELSE @ \cup {i}]
  BY DEF ShardReported
<1> HIDE DEF i
<1>f. /\ full.failed \subseteq Shards
      /\ (IF good THEN full.failed ELSE full.failed \cup {i}) \subseteq Shards
  BY <1>t DEF FullShape, FullLocals
<1>a. /\ full' \in FullLocals
      /\ full'.pending = Tail(full.pending)
      /\ UNCHANGED <<full.failFast, full.logsLost, full.error, full.aggregated, full.ok,
                     full.batch, full.permitted, full.was, full.then, full.stage>>
      /\ full'.failed \subseteq full.failed \cup {i} /\ full.failed \subseteq full'.failed
      /\ Outcome(i).ok \/ i \in full'.failed
      /\ UNCHANGED <<pool, late, lease, place>>
  <2>1. full'.failed = IF good THEN full.failed ELSE full.failed \cup {i} BY <1>g DEF FullShape
  <2>2. full' = [full EXCEPT !.pending = Tail(full.pending), !.failed = full'.failed]
    BY <1>g, <2>1 DEF FullShape
  <2> HIDE <1>g
  <2>3. /\ full' \in FullLocals /\ full'.pending = Tail(full.pending)
        /\ UNCHANGED <<full.failFast, full.logsLost, full.error, full.aggregated, full.ok,
                       full.batch, full.permitted, full.was, full.then, full.stage>>
    BY <1>t, <1>f, <2>1, <2>2 DEF FullShape, FullLocals
  <2>4. UNCHANGED <<pool, late, lease, place>> BY DEF ShardReported
  <2>5. good => Outcome(i).ok OBVIOUS
  <2> QED BY <2>1, <2>3, <2>4, <2>5
<1> USE <1>a
<1>l. /\ lane' \in [Lanes -> LaneRecords]
      /\ \A j \in Lanes :
           /\ lane'[j].future = lane[j].future
           /\ lane'[j].out = lane[j].out
           /\ lane'[j].runs = lane[j].runs
           /\ lane'[j].alive = lane[j].alive
           /\ lane'[j].tree = lane[j].tree
           /\ lane'[j].logs = lane[j].logs
      /\ lane'[i].reports = 1 /\ \A j \in Lanes : j # i => lane'[j] = lane[j]
  <2>1. lane' = [lane EXCEPT ![i].reports = @ + 1] /\ lane \in [Lanes -> LaneRecords]
    BY DEF ShardReported, i, LaneShape
  <2>2. /\ lane'[i] = [lane[i] EXCEPT !.reports = @ + 1]
        /\ \A j \in Lanes : j # i => lane'[j] = lane[j]
    BY <2>1, <1>i
  <2>3. /\ lane'[i] \in LaneRecords /\ lane'[i].reports = 1
        /\ lane'[i].future = lane[i].future /\ lane'[i].out = lane[i].out
        /\ lane'[i].runs = lane[i].runs /\ lane'[i].alive = lane[i].alive
        /\ lane'[i].tree = lane[i].tree /\ lane'[i].logs = lane[i].logs
    BY <2>2, <1>i, ReportedLane
  <2> QED BY <2>1, <2>2, <2>3
<1> USE <1>l
<1>b. \A j \in Lanes :
        /\ Outcome(j)' = Outcome(j)
        /\ (LogsKept(j)' <=> LogsKept(j))
        /\ (Unrun(j)' <=> Unrun(j))
        /\ (Quiet(j)' <=> Quiet(j))
        /\ (Judged(j) => Judged(j)') /\ (j = i => Judged(j)')
  BY <1>i DEF Outcome, LogsKept, Unrun, Quiet, Judged
<1> USE <1>b
<1>c. Held' = Held /\ (CleanupOwed' <=> CleanupOwed) BY DEF Held, CleanupOwed
<1> USE <1>c
<1>1. PoolShape' /\ LaneShape' /\ FullShape' /\ FutureKnown'
  BY <1>t, <1>i DEF PoolShape, LaneShape, FullShape, FutureKnown, QuietWhenAllowed
<1>2. PoolKnown' /\ StageOfPool' /\ QuietWhenAllowed' /\ RemovedIsSafe'
  BY <1>t, <1>i DEF PoolKnown, StageOfPool, QuietWhenAllowed, RemovedIsSafe
<1>3. LeasesKnown'
  BY SMTT(20), <1>t, <1>i, BatchNumbers DEF LeasesKnown, ToRelease, FullShape, CleanupOwed,
     Held
<1>4. TreesKnown'
  <2>1. (\A b \in BatchIds : lease[b] = "removed" => \A j \in Batch(b) : lane[j].tree = "removed")'
    BY BatchesPartition, LanesAre DEF TreesKnown
  <2>2. (\A b \in Held :
           /\ ~(full.stage = "materialize" /\ b = full.batch)
           /\ ~(full.stage = "removing" /\ b = Max(ToRelease))
           => \A j \in Batch(b) : lane[j].tree = "present")'
    <3>1. ASSUME NEW b \in Held, NEW j \in Batch(b)
          PROVE  lane[j].tree = "present" /\ j \in Lanes
      BY BatchesPartition, LanesAre DEF TreesKnown, Held
    <3>2. ASSUME NEW b \in Held, NEW j \in Batch(b) PROVE lane'[j].tree = "present" BY <3>1
    <3> QED BY <3>2
  <2>3. (full.stage = "removing" => \A j \in Batch(Max(ToRelease)) : lane[j].tree = "removed")'
    BY <1>t, <1>i, BatchesPartition, LanesAre DEF TreesKnown, ToRelease, LeasesKnown
  <2>4. (full.stage = "probing" => \A j \in Probes : lane[j].tree = "present")'
    BY <1>t, <1>i, BatchesPartition, LanesAre DEF TreesKnown, ToRelease, LeasesKnown
  <2> QED BY <2>1, <2>2, <2>3, <2>4 DEF TreesKnown
<1>5. LogsKnown'
  BY SMTT(20), <1>t, <1>i, BatchesPartition, LanesAre DEF LogsKnown, QuietWhenAllowed
<1>6. ShardsKnown'
  <2>1. (full.stage \in Preparations \/ (full.stage \in Releases /\ full.then = "environment") =>
           /\ full.failed = {}
           /\ \A j \in Shards : Unrun(j) /\ lane[j].reports = 0)'
    BY <1>t, <1>i, BatchesPartition, LanesAre DEF ShardsKnown, Stopped
  <2>2. (full.stage \in Executing \cup Releases /\ full.then = "next" =>
           \A b \in BatchIds : \A j \in Batch(b) :
             /\ b < full.batch => lane[j].reports = 1 /\ Judged(j)
             /\ b > full.batch =>
                  /\ Unrun(j)
                  /\ ~Stopped => lane[j].reports = 0 /\ j \notin full.failed
                  /\ Stopped => lane[j].reports = 1 /\ j \in full.failed)'
    <3>1. ASSUME NEW b \in BatchIds, NEW j \in Batch(b), b # full.batch
          PROVE  /\ j \in Lanes /\ j # i /\ lane'[j] = lane[j] /\ (Unrun(j)' <=> Unrun(j))
                 /\ (Judged(j) => Judged(j)') /\ (j \in full'.failed <=> j \in full.failed)
      BY <1>i, <3>1, BatchesPartition, LanesAre
    <3>2. ASSUME NEW b \in BatchIds, NEW j \in Batch(b)
          PROVE  /\ b < full.batch => lane[j].reports = 1 /\ Judged(j)
                 /\ b > full.batch => Unrun(j) /\ lane[j].reports = 0 /\ j \notin full.failed
      BY DEF ShardsKnown, Stopped
    <3>3. ~Stopped' /\ full'.batch = full.batch BY DEF Stopped
    <3> QED BY <3>1, <3>2, <3>3, BatchNumbers
  <2>3. (full.stage \in Preparations \ {"probing"} => \A j \in Lanes : Unrun(j))'
    BY <1>t, <1>i, BatchesPartition, LanesAre DEF ShardsKnown, Stopped
  <2>4. (full.stage = "dispatch" => \A j \in Batch(full.batch) : Unrun(j))'
    BY <1>t, <1>i, BatchesPartition, LanesAre DEF ShardsKnown, Stopped
  <2>5. (full.stage \in {"dispatch", "running"} =>
           \A j \in Batch(full.batch) : lane[j].reports = 0 /\ j \notin full.failed)'
    BY <1>t, <1>i, BatchesPartition, LanesAre DEF ShardsKnown, Stopped
  <2>6. (full.stage = "accept" =>
           /\ \A p, q \in DOMAIN full.pending : full.pending[p] = full.pending[q] => p = q
           /\ Range(full.pending) \subseteq Batch(full.batch)
           /\ \A j \in Batch(full.batch) :
                IF j \in Range(full.pending) THEN lane[j].reports = 0
                ELSE lane[j].reports = 1 /\ Judged(j))'
    <3>1. ASSUME NEW j \in Batch(full.batch)
          PROVE  IF j \in Range(full.pending) \ {i} THEN lane'[j].reports = 0
                 ELSE lane'[j].reports = 1 /\ Judged(j)'
      BY <1>i, <3>1, BatchesPartition, LanesAre DEF ShardsKnown
    <3>2. Range(full.pending) \subseteq Batch(full.batch) BY DEF ShardsKnown
    <3> QED BY <1>t, <3>1, <3>2
  <2>7. ((full.stage \in {"logs", "drift", "proving"} \cup Releases) /\ full.then = "next" =>
           \A j \in Batch(full.batch) : lane[j].reports = 1 /\ Judged(j))'
    BY <1>t, <1>i, BatchesPartition, LanesAre DEF ShardsKnown, Stopped
  <2>8. (full.stage \in Releases /\ full.then = "finish" =>
           /\ \A j \in Shards : lane[j].reports = 1 /\ Judged(j))'
    BY <1>t, <1>i, BatchesPartition, LanesAre DEF ShardsKnown, Stopped
  <2> QED BY <2>1, <2>2, <2>3, <2>4, <2>5, <2>6, <2>7, <2>8 DEF ShardsKnown
<1>7. VerdictKnown' BY <1>t, <1>i, LanesAre DEF VerdictKnown
<1> QED BY <1>1, <1>2, <1>3, <1>4, <1>5, <1>6, <1>7

LEMMA LogsCollectedKeeps ==
  ASSUME FullRunInv, LogsCollected
  PROVE  FullRunInv'
<1>o. /\ full.stage = "logs" /\ full.batch \in BatchIds /\ full.then = "next" /\ pool.at = "off"
  BY DEF LogsCollected, FullShape, FullLocals, LeasesKnown, StageOfPool
<1> USE <1>o
<1>a. /\ full' \in FullLocals
      /\ full'.stage = "drift" /\ full'.permitted = TRUE
      /\ UNCHANGED <<full.failFast, full.failed, full.logsLost, full.error, full.aggregated,
                     full.ok, full.batch, full.pending, full.was, full.then>>
      /\ UNCHANGED <<pool, late, lease, place>>
  BY DEF LogsCollected, Allow, FullShape, FullLocals, FullStages
<1> USE <1>a
<1>l. /\ lane' \in [Lanes -> LaneRecords]
      /\ \A i \in Lanes :
           /\ lane'[i].future = lane[i].future
           /\ lane'[i].out = lane[i].out
           /\ lane'[i].runs = lane[i].runs
           /\ lane'[i].alive = lane[i].alive
           /\ lane'[i].tree = lane[i].tree
           /\ lane'[i].reports = lane[i].reports
           /\ lane'[i].logs <=> i \in FailedInBatch \/ lane[i].logs
  <2>1. \A i \in Lanes : lane[i] \in LaneRecords BY DEF LaneShape
  <2>2. /\ lane' \in [Lanes -> LaneRecords]
        /\ \A i \in Lanes : lane'[i] = IF i \in FailedInBatch
                                    THEN [lane[i] EXCEPT !.logs = TRUE] ELSE lane[i]
    BY <2>1, LoggedLane DEF LogsCollected
  <2>3. ASSUME NEW i \in Lanes, i \in FailedInBatch
        PROVE  /\ lane'[i].logs = TRUE
               /\ lane'[i].future = lane[i].future /\ lane'[i].out = lane[i].out
               /\ lane'[i].runs = lane[i].runs /\ lane'[i].alive = lane[i].alive
               /\ lane'[i].tree = lane[i].tree /\ lane'[i].reports = lane[i].reports
    <3>1. lane[i] \in LaneRecords /\ lane'[i] = [lane[i] EXCEPT !.logs = TRUE] BY <2>1, <2>2, <2>3
    <3> HIDE <1>a
    <3> QED BY <3>1, LoggedLane
  <2>4. \A i \in Lanes : i \notin FailedInBatch => lane'[i] = lane[i] BY <2>2
  <2> QED BY <2>2, <2>3, <2>4
<1> USE <1>l
<1>b. \A i \in Lanes :
        /\ Outcome(i)' = Outcome(i)
        /\ (Unrun(i)' <=> Unrun(i))
        /\ (Quiet(i)' <=> Quiet(i))
        /\ (Judged(i)' <=> Judged(i))
        /\ (LogsKept(i) => LogsKept(i)')
  BY DEF Outcome, LogsKept, Unrun, Quiet, Judged
<1> USE <1>b
<1>k. \A i \in Shards : LogsKept(i)'
  <2>1. \A i \in Batch(full.batch) : Outcome(i).ok \/ i \in FailedInBatch
    BY DEF ShardsKnown, Judged, FailedInBatch
  <2>2. \A i \in Batch(full.batch) : LogsKept(i)'
    BY <2>1, BatchesPartition, LanesAre DEF LogsKept
  <2> QED BY <2>2, LanesAre DEF LogsKnown
<1>c. Held' = Held /\ (CleanupOwed' <=> CleanupOwed) BY DEF Held, CleanupOwed
<1> USE <1>c
<1>1. PoolShape' /\ LaneShape' /\ FullShape' /\ FutureKnown'
  BY <1>k DEF PoolShape, LaneShape, FullShape, FutureKnown, QuietWhenAllowed
<1>2. PoolKnown' /\ StageOfPool' /\ QuietWhenAllowed' /\ RemovedIsSafe'
  BY <1>k DEF PoolKnown, StageOfPool, QuietWhenAllowed, RemovedIsSafe
<1>3. LeasesKnown'
  BY SMTT(20), <1>k, BatchNumbers DEF LeasesKnown, ToRelease, FullShape, CleanupOwed, Held
<1>4. TreesKnown'
  <2>1. (\A b \in BatchIds : lease[b] = "removed" => \A i \in Batch(b) : lane[i].tree = "removed")'
    BY <1>k, BatchesPartition, LanesAre DEF TreesKnown, ToRelease, LeasesKnown
  <2>2. (\A b \in Held :
           /\ ~(full.stage = "materialize" /\ b = full.batch)
           /\ ~(full.stage = "removing" /\ b = Max(ToRelease))
           => \A i \in Batch(b) : lane[i].tree = "present")'
    <3>1. ASSUME NEW b \in Held, NEW j \in Batch(b)
          PROVE  lane[j].tree = "present" /\ j \in Lanes
      BY BatchesPartition, LanesAre DEF TreesKnown, Held
    <3>2. ASSUME NEW b \in Held, NEW j \in Batch(b) PROVE lane'[j].tree = "present" BY <3>1
    <3> QED BY <3>2
  <2>3. (full.stage = "removing" => \A i \in Batch(Max(ToRelease)) : lane[i].tree = "removed")'
    BY <1>k, BatchesPartition, LanesAre DEF TreesKnown, ToRelease, LeasesKnown
  <2>4. (full.stage = "probing" => \A i \in Probes : lane[i].tree = "present")'
    BY <1>k, BatchesPartition, LanesAre DEF TreesKnown, ToRelease, LeasesKnown
  <2> QED BY <2>1, <2>2, <2>3, <2>4 DEF TreesKnown
<1>5. LogsKnown' BY SMTT(20), <1>k, BatchesPartition, LanesAre DEF LogsKnown, QuietWhenAllowed
<1>6. ShardsKnown'
  <2>1. (full.stage \in Preparations \/ (full.stage \in Releases /\ full.then = "environment") =>
           /\ full.failed = {}
           /\ \A i \in Shards : Unrun(i) /\ lane[i].reports = 0)'
    BY <1>k, BatchesPartition, LanesAre DEF ShardsKnown, Stopped
  <2>2. (full.stage \in Executing \cup Releases /\ full.then = "next" =>
           \A b \in BatchIds : \A i \in Batch(b) :
             /\ b < full.batch => lane[i].reports = 1 /\ Judged(i)
             /\ b > full.batch =>
                  /\ Unrun(i)
                  /\ ~Stopped => lane[i].reports = 0 /\ i \notin full.failed
                  /\ Stopped => lane[i].reports = 1 /\ i \in full.failed)'
    <3>1. ASSUME NEW b \in BatchIds, NEW j \in Batch(b)
          PROVE  /\ j \in Lanes
                 /\ b < full.batch => lane[j].reports = 1 /\ Judged(j)
                 /\ b > full.batch => Unrun(j) /\ lane[j].reports = 0 /\ j \notin full.failed
      BY BatchesPartition, LanesAre DEF ShardsKnown, Stopped
    <3>2. ~Stopped' BY DEF Stopped
    <3> QED BY <3>1, <3>2
  <2>3. (full.stage \in Preparations \ {"probing"} => \A i \in Lanes : Unrun(i))'
    BY <1>k, BatchesPartition, LanesAre DEF ShardsKnown, Stopped
  <2>4. (full.stage = "dispatch" => \A i \in Batch(full.batch) : Unrun(i))'
    BY <1>k, BatchesPartition, LanesAre DEF ShardsKnown, Stopped
  <2>5. (full.stage \in {"dispatch", "running"} =>
           \A i \in Batch(full.batch) : lane[i].reports = 0 /\ i \notin full.failed)'
    BY <1>k, BatchesPartition, LanesAre DEF ShardsKnown, Stopped
  <2>6. (full.stage = "accept" =>
           /\ \A p, q \in DOMAIN full.pending : full.pending[p] = full.pending[q] => p = q
           /\ Range(full.pending) \subseteq Batch(full.batch)
           /\ \A i \in Batch(full.batch) :
                IF i \in Range(full.pending) THEN lane[i].reports = 0
                ELSE lane[i].reports = 1 /\ Judged(i))'
    BY <1>k, BatchesPartition, LanesAre DEF ShardsKnown, Stopped
  <2>7. ((full.stage \in {"logs", "drift", "proving"} \cup Releases) /\ full.then = "next" =>
           \A i \in Batch(full.batch) : lane[i].reports = 1 /\ Judged(i))'
    BY <1>k, BatchesPartition, LanesAre DEF ShardsKnown, Stopped
  <2>8. (full.stage \in Releases /\ full.then = "finish" =>
           /\ \A i \in Shards : lane[i].reports = 1 /\ Judged(i))'
    BY <1>k, BatchesPartition, LanesAre DEF ShardsKnown, Stopped
  <2> QED BY <2>1, <2>2, <2>3, <2>4, <2>5, <2>6, <2>7, <2>8 DEF ShardsKnown
<1>7. VerdictKnown' BY <1>k, LanesAre DEF VerdictKnown
<1> QED BY <1>1, <1>2, <1>3, <1>4, <1>5, <1>6, <1>7

LEMMA BatchClosedKeeps ==
  ASSUME FullRunInv, BatchClosed
  PROVE  FullRunInv'
<1> DEFINE unstarted == IF StopsEarly
                        THEN UNION {Batch(b) : b \in {c \in BatchIds : c > full.batch}}
                        ELSE {}
<1>o. /\ full.stage = "drift" /\ full.batch \in BatchIds /\ full.then = "next" /\ ~full.aggregated
      /\ pool.at = "off"
  BY DEF BatchClosed, ClosedWith, FullShape, FullLocals, LeasesKnown, VerdictKnown,
     StageOfPool
<1> USE <1>o
<1>u. /\ unstarted \subseteq Shards
      /\ \A i \in unstarted : /\ StopsEarly
                             /\ \E b \in BatchIds : b > full.batch /\ i \in Batch(b)
      /\ \A b \in BatchIds : StopsEarly /\ b > full.batch => Batch(b) \subseteq unstarted
      /\ ~StopsEarly => unstarted = {}
  BY BatchesPartition
<1>n. /\ full' = [Forbidding("proving") EXCEPT !.failed = @ \cup unstarted, !.was = full.permitted]
      /\ lane' = [i \in Lanes |-> IF i \in unstarted THEN [lane[i] EXCEPT !.reports = @ + 1]
                                  ELSE lane[i]]
      /\ UNCHANGED <<pool, late, lease, place>>
  BY DEF BatchClosed, ClosedWith
<1> HIDE DEF unstarted
<1>d. \A b \in BatchIds : \A i \in Batch(b) : i \in unstarted => b > full.batch
  BY <1>u, BatchesPartition
<1>z. \A i \in unstarted : lane[i].reports = 0 BY <1>u DEF ShardsKnown, Stopped
<1>a. /\ full' \in FullLocals
      /\ full'.stage = "proving" /\ full'.permitted = FALSE /\ full'.was = full.permitted
      /\ full'.failed = full.failed \cup unstarted
      /\ UNCHANGED <<full.failFast, full.logsLost, full.error, full.aggregated, full.ok,
                     full.batch, full.pending, full.then>>
      /\ UNCHANGED <<pool, late, lease, place>>
  BY <1>u, <1>n DEF Forbidding, FullShape, FullLocals, FullStages
<1> USE <1>a
<1>l. /\ lane' \in [Lanes -> LaneRecords]
      /\ \A i \in Lanes :
           /\ lane'[i].future = lane[i].future
           /\ lane'[i].out = lane[i].out
           /\ lane'[i].runs = lane[i].runs
           /\ lane'[i].alive = lane[i].alive
           /\ lane'[i].tree = lane[i].tree
           /\ lane'[i].logs = lane[i].logs
           /\ lane'[i].reports = IF i \in unstarted THEN 1 ELSE lane[i].reports
  <2>1. \A i \in Lanes : lane[i] \in LaneRecords BY DEF LaneShape
  <2>2. /\ lane' \in [Lanes -> LaneRecords]
        /\ \A i \in Lanes : lane'[i] = IF i \in unstarted
                                    THEN [lane[i] EXCEPT !.reports = @ + 1] ELSE lane[i]
    BY <1>n, <1>z, <2>1, ReportedLane
  <2>3. ASSUME NEW i \in Lanes, i \in unstarted
        PROVE  /\ lane'[i].reports = 1
               /\ lane'[i].future = lane[i].future /\ lane'[i].out = lane[i].out
               /\ lane'[i].runs = lane[i].runs /\ lane'[i].alive = lane[i].alive
               /\ lane'[i].tree = lane[i].tree /\ lane'[i].logs = lane[i].logs
    <3>1. /\ lane[i] \in LaneRecords /\ lane[i].reports = 0
          /\ lane'[i] = [lane[i] EXCEPT !.reports = @ + 1]
      BY <1>z, <2>1, <2>2, <2>3
    <3> QED BY <3>1, ReportedLane
  <2>4. \A i \in Lanes : i \notin unstarted => lane'[i] = lane[i] BY <2>2
  <2> QED BY <2>2, <2>3, <2>4
<1> USE <1>l
<1>b. \A i \in Lanes :
        /\ Outcome(i)' = Outcome(i)
        /\ (Unrun(i)' <=> Unrun(i))
        /\ (Quiet(i)' <=> Quiet(i))
        /\ (LogsKept(i)' <=> LogsKept(i))
        /\ (Judged(i) => Judged(i)') /\ (i \in unstarted => Judged(i)')
  BY DEF Outcome, LogsKept, Unrun, Quiet, Judged
<1> USE <1>b
<1>s. Stopped' <=> StopsEarly
  <2>1. FailedInBatch' = FailedInBatch BY <1>d, BatchNumbers DEF FailedInBatch
  <2> QED BY <2>1 DEF Stopped, StopsEarly
<1>c. Held' = Held /\ (CleanupOwed' <=> CleanupOwed) BY DEF Held, CleanupOwed
<1> USE <1>c
<1>1. PoolShape' /\ LaneShape' /\ FullShape' /\ FutureKnown'
  BY <1>u, <1>d DEF PoolShape, LaneShape, FullShape, FutureKnown, QuietWhenAllowed
<1>2. PoolKnown' /\ StageOfPool' /\ QuietWhenAllowed' /\ RemovedIsSafe'
  BY <1>u, <1>d DEF PoolKnown, StageOfPool, QuietWhenAllowed, RemovedIsSafe
<1>3. LeasesKnown'
  BY SMTT(20), <1>u, <1>d, BatchNumbers DEF LeasesKnown, ToRelease, FullShape, CleanupOwed,
     Held
<1>4. TreesKnown'
  <2>1. (\A b \in BatchIds : lease[b] = "removed" => \A i \in Batch(b) : lane[i].tree = "removed")'
    BY <1>u, <1>d, BatchesPartition, LanesAre DEF TreesKnown, ToRelease, LeasesKnown
  <2>2. (\A b \in Held :
           /\ ~(full.stage = "materialize" /\ b = full.batch)
           /\ ~(full.stage = "removing" /\ b = Max(ToRelease))
           => \A i \in Batch(b) : lane[i].tree = "present")'
    <3>1. ASSUME NEW b \in Held, NEW j \in Batch(b)
          PROVE  lane[j].tree = "present" /\ j \in Lanes
      BY BatchesPartition, LanesAre DEF TreesKnown, Held
    <3>2. ASSUME NEW b \in Held, NEW j \in Batch(b) PROVE lane'[j].tree = "present" BY <3>1
    <3> QED BY <3>2
  <2>3. (full.stage = "removing" => \A i \in Batch(Max(ToRelease)) : lane[i].tree = "removed")'
    BY <1>u, <1>d, BatchesPartition, LanesAre DEF TreesKnown, ToRelease, LeasesKnown
  <2>4. (full.stage = "probing" => \A i \in Probes : lane[i].tree = "present")'
    BY <1>u, <1>d, BatchesPartition, LanesAre DEF TreesKnown, ToRelease, LeasesKnown
  <2> QED BY <2>1, <2>2, <2>3, <2>4 DEF TreesKnown
<1>5. LogsKnown'
  BY SMTT(20), <1>u, <1>d, BatchesPartition, LanesAre DEF LogsKnown, QuietWhenAllowed
<1>6. ShardsKnown'
  <2>1. (full.stage \in Preparations \/ (full.stage \in Releases /\ full.then = "environment") =>
           /\ full.failed = {}
           /\ \A i \in Shards : Unrun(i) /\ lane[i].reports = 0)'
    BY <1>u, <1>d, BatchesPartition, LanesAre DEF ShardsKnown, Stopped
  <2>2. (full.stage \in Executing \cup Releases /\ full.then = "next" =>
           \A b \in BatchIds : \A i \in Batch(b) :
             /\ b < full.batch => lane[i].reports = 1 /\ Judged(i)
             /\ b > full.batch =>
                  /\ Unrun(i)
                  /\ ~Stopped => lane[i].reports = 0 /\ i \notin full.failed
                  /\ Stopped => lane[i].reports = 1 /\ i \in full.failed)'
    <3>1. ASSUME NEW b \in BatchIds, NEW j \in Batch(b)
          PROVE  /\ j \in Lanes
                 /\ b < full.batch => lane[j].reports = 1 /\ Judged(j) /\ j \notin unstarted
                 /\ b > full.batch =>
                      /\ Unrun(j) /\ lane[j].reports = 0 /\ j \notin full.failed
                      /\ j \in unstarted <=> StopsEarly
      <4>1. j \in Lanes /\ (b < full.batch => j \notin unstarted)
            /\ (b > full.batch => (j \in unstarted <=> StopsEarly))
        BY <1>u, <1>d, BatchesPartition, LanesAre
      <4> QED BY <4>1 DEF ShardsKnown, Stopped
    <3> QED BY <1>s, <3>1
  <2>3. (full.stage \in Preparations \ {"probing"} => \A i \in Lanes : Unrun(i))'
    BY <1>u, <1>d, BatchesPartition, LanesAre DEF ShardsKnown, Stopped
  <2>4. (full.stage = "dispatch" => \A i \in Batch(full.batch) : Unrun(i))'
    BY <1>u, <1>d, BatchesPartition, LanesAre DEF ShardsKnown, Stopped
  <2>5. (full.stage \in {"dispatch", "running"} =>
           \A i \in Batch(full.batch) : lane[i].reports = 0 /\ i \notin full.failed)'
    BY <1>u, <1>d, BatchesPartition, LanesAre DEF ShardsKnown, Stopped
  <2>6. (full.stage = "accept" =>
           /\ \A p, q \in DOMAIN full.pending : full.pending[p] = full.pending[q] => p = q
           /\ Range(full.pending) \subseteq Batch(full.batch)
           /\ \A i \in Batch(full.batch) :
                IF i \in Range(full.pending) THEN lane[i].reports = 0
                ELSE lane[i].reports = 1 /\ Judged(i))'
    BY <1>u, <1>d, BatchesPartition, LanesAre DEF ShardsKnown, Stopped
  <2>7. ((full.stage \in {"logs", "drift", "proving"} \cup Releases) /\ full.then = "next" =>
           \A i \in Batch(full.batch) : lane[i].reports = 1 /\ Judged(i))'
    BY <1>u, <1>d, BatchesPartition, LanesAre DEF ShardsKnown, Stopped
  <2>8. (full.stage \in Releases /\ full.then = "finish" =>
           /\ \A i \in Shards : lane[i].reports = 1 /\ Judged(i))'
    BY <1>u, <1>d, BatchesPartition, LanesAre DEF ShardsKnown, Stopped
  <2> QED BY <2>1, <2>2, <2>3, <2>4, <2>5, <2>6, <2>7, <2>8 DEF ShardsKnown
<1>7. VerdictKnown' BY <1>u, <1>d, LanesAre DEF VerdictKnown
<1> QED BY <1>1, <1>2, <1>3, <1>4, <1>5, <1>6, <1>7

LEMMA LeaseRetainedKeeps ==
  ASSUME FullRunInv, NEW b \in BatchIds, LeaseRetained(b)
  PROVE  FullRunInv'
<1>a. /\ full.stage = "release" /\ b \in ToRelease /\ ~full.permitted /\ full.batch \in BatchIds
      /\ UNCHANGED <<full, pool, lane, late, place>>
  BY LastBatch DEF LeaseRetained, Releasing, ToRelease, Held, poolVars, FullShape,
     FullLocals, FullStages
<1> USE <1>a
<1>c. /\ lease' \in [BatchIds -> {"none", "held", "removed", "retained"}]
      /\ \A c \in BatchIds : lease'[c] = IF c = b THEN "retained" ELSE lease[c]
      /\ Held' = Held \ {b} /\ b \in Held /\ (full.then = "next" => b = full.batch)
  BY DEF LeaseRetained, FullShape, Held, ToRelease
<1> USE <1>c
<1>b. SameLanes BY LanesStay
<1> USE <1>b
<1>1. PoolShape' /\ LaneShape' /\ PoolKnown' /\ RemovedIsSafe' BY LanesStay
<1>2. FullShape' /\ FutureKnown' /\ StageOfPool' /\ QuietWhenAllowed'
  BY DEF FullShape, FutureKnown, QuietWhenAllowed, StageOfPool
<1>3. LeasesKnown'
  BY SMTT(20), BatchNumbers DEF LeasesKnown, ToRelease, FullShape, CleanupOwed, Held
<1>4. TreesKnown'
  <2>1. (\A c \in BatchIds : lease[c] = "removed" => \A i \in Batch(c) : lane[i].tree = "removed")'
    BY BatchesPartition, LanesAre DEF TreesKnown, ToRelease, LeasesKnown
  <2>2. (\A c \in Held :
           /\ ~(full.stage = "materialize" /\ c = full.batch)
           /\ ~(full.stage = "removing" /\ c = Max(ToRelease))
           => \A i \in Batch(c) : lane[i].tree = "present")'
    BY BatchesPartition, LanesAre DEF TreesKnown, ToRelease, LeasesKnown
  <2>3. (full.stage = "removing" => \A i \in Batch(Max(ToRelease)) : lane[i].tree = "removed")'
    BY BatchesPartition, LanesAre DEF TreesKnown, ToRelease, LeasesKnown
  <2>4. (full.stage = "probing" => \A i \in Probes : lane[i].tree = "present")'
    BY BatchesPartition, LanesAre DEF TreesKnown, ToRelease, LeasesKnown
  <2> QED BY <2>1, <2>2, <2>3, <2>4 DEF TreesKnown
<1>5. LogsKnown' BY SMTT(20), BatchesPartition, LanesAre DEF LogsKnown, QuietWhenAllowed
<1>6. ShardsKnown'
  BY SMTT(20), BatchesPartition, LanesAre DEF ShardsKnown, Stopped, StopsEarly,
     FailedInBatch, FullShape
<1>7. VerdictKnown' BY LanesAre DEF VerdictKnown, LeasesKnown
<1> QED BY <1>1, <1>2, <1>3, <1>4, <1>5, <1>6, <1>7

LEMMA LeaseRemovalStartsKeeps ==
  ASSUME FullRunInv, NEW b \in BatchIds, LeaseRemovalStarts(b)
  PROVE  FullRunInv'
<1>o. /\ full.stage = "release" /\ ToRelease # {} /\ b = Max(ToRelease) /\ full.permitted
      /\ full.batch \in BatchIds /\ b \in ToRelease /\ b \in Held
      /\ pool.at = "off" /\ ~CleanupOwed
  BY LastBatch DEF LeaseRemovalStarts, Releasing, ToRelease, Held, StageOfPool, LeasesKnown,
     FullShape, FullLocals, FullStages
<1> USE <1>o
<1>q. \A i \in Lanes : Quiet(i) /\ (i \in Shards => LogsKept(i))
  BY DEF QuietWhenAllowed, LogsKnown
<1>a. /\ full' \in FullLocals
      /\ full'.stage = "removing" /\ full'.permitted = FALSE
      /\ UNCHANGED <<full.failFast, full.failed, full.logsLost, full.error, full.aggregated,
                     full.ok, full.batch, full.pending, full.was, full.then>>
      /\ UNCHANGED <<pool, late, lease, place>>
  BY DEF LeaseRemovalStarts, Forbidding, FullShape, FullLocals, FullStages
<1> USE <1>a
<1>l. /\ lane' \in [Lanes -> LaneRecords]
      /\ \A i \in Lanes :
           /\ lane'[i].future = lane[i].future
           /\ lane'[i].out = lane[i].out
           /\ lane'[i].runs = lane[i].runs
           /\ lane'[i].alive = lane[i].alive
           /\ lane'[i].reports = lane[i].reports
           /\ lane'[i].logs = lane[i].logs
           /\ lane'[i].tree = IF i \in Batch(b) /\ lane[i].tree = "present"
                             THEN "removed" ELSE lane[i].tree
  BY GoneAre DEF LeaseRemovalStarts
<1> USE <1>l
<1>b. \A i \in Lanes :
        /\ Outcome(i)' = Outcome(i)
        /\ (LogsKept(i)' <=> LogsKept(i))
        /\ (Unrun(i)' <=> Unrun(i))
        /\ (Quiet(i)' <=> Quiet(i))
        /\ (Judged(i)' <=> Judged(i))
  BY DEF Outcome, LogsKept, Unrun, Quiet, Judged
<1> USE <1>b
<1>c. Held' = Held /\ (CleanupOwed' <=> CleanupOwed) /\ ToRelease' = ToRelease
  BY DEF Held, CleanupOwed, ToRelease
<1> USE <1>c
<1>t. /\ \A i \in Batch(b) : lane[i].tree = "present" /\ i \in Lanes
      /\ \A c \in BatchIds : c # b => \A i \in Batch(c) : i \notin Batch(b) /\ i \in Lanes
  BY BatchesPartition, LanesAre DEF TreesKnown
<1>1. PoolShape' /\ LaneShape' /\ FullShape' /\ FutureKnown'
  BY <1>q DEF PoolShape, LaneShape, FullShape, FutureKnown, QuietWhenAllowed
<1>2. PoolKnown' /\ StageOfPool' /\ QuietWhenAllowed' /\ RemovedIsSafe'
  BY <1>q DEF PoolKnown, StageOfPool, QuietWhenAllowed, RemovedIsSafe
<1>3. LeasesKnown'
  BY SMTT(20), <1>q, BatchNumbers DEF LeasesKnown, ToRelease, FullShape, CleanupOwed, Held
<1>4. TreesKnown'
  <2>1. (\A c \in BatchIds : lease[c] = "removed" => \A i \in Batch(c) : lane[i].tree = "removed")'
    <3>1. \A c \in BatchIds : lease[c] = "removed" =>
            \A i \in Batch(c) : lane[i].tree = "removed" /\ i \in Lanes
      BY BatchesPartition, LanesAre DEF TreesKnown
    <3> QED BY <3>1
  <2>2. (\A c \in Held :
           /\ ~(full.stage = "materialize" /\ c = full.batch)
           /\ ~(full.stage = "removing" /\ c = Max(ToRelease))
           => \A i \in Batch(c) : lane[i].tree = "present")'
    <3>1. ASSUME NEW c \in Held, c # b, NEW i \in Batch(c) PROVE lane'[i].tree = "present"
      BY <1>t, <3>1 DEF TreesKnown, Held
    <3> QED BY <3>1
  <2>3. (full.stage = "removing" => \A i \in Batch(Max(ToRelease)) : lane[i].tree = "removed")'
    BY <1>t
  <2>4. (full.stage = "probing" => \A i \in Probes : lane[i].tree = "present")'
    BY <1>q, BatchesPartition, LanesAre DEF TreesKnown, ToRelease, LeasesKnown
  <2> QED BY <2>1, <2>2, <2>3, <2>4 DEF TreesKnown
<1>5. LogsKnown' BY SMTT(20), <1>q, BatchesPartition, LanesAre DEF LogsKnown, QuietWhenAllowed
<1>6. ShardsKnown'
  <2>1. /\ full.failed' = full.failed /\ (Stopped' <=> Stopped)
        /\ \A i \in Shards : i \in Lanes
        /\ \A c \in BatchIds : \A i \in Batch(c) : i \in Lanes
    BY BatchesPartition, LanesAre DEF Stopped, StopsEarly, FailedInBatch
  <2>2. \A i \in Lanes : /\ lane'[i].reports = lane[i].reports
                         /\ (Unrun(i)' <=> Unrun(i)) /\ (Judged(i)' <=> Judged(i))
    OBVIOUS
  <2> HIDE <1>l, <1>b
  <2> QED BY SMTT(30), <2>1, <2>2 DEF ShardsKnown
<1>7. VerdictKnown' BY <1>q, LanesAre DEF VerdictKnown
<1> QED BY <1>1, <1>2, <1>3, <1>4, <1>5, <1>6, <1>7

LEMMA LeaseRemovedKeeps ==
  ASSUME FullRunInv, LeaseRemoved
  PROVE  FullRunInv'
<1> DEFINE b == Max(ToRelease)
<1>o. /\ full.stage = "removing" /\ b \in ToRelease /\ b \in Held /\ b \in BatchIds
      /\ full.batch \in BatchIds /\ pool.at = "off" /\ ~CleanupOwed
      /\ (full.then = "next" => b = full.batch)
  BY LastBatch DEF LeaseRemoved, ToRelease, Held, StageOfPool, LeasesKnown, FullShape,
     FullLocals, FullStages
<1> USE <1>o
<1>t. \A i \in Batch(b) : lane[i].tree = "removed" BY DEF TreesKnown
<1>a. /\ full' \in FullLocals
      /\ full'.stage = "release" /\ full'.permitted = TRUE
      /\ UNCHANGED <<full.failFast, full.failed, full.logsLost, full.error, full.aggregated,
                     full.ok, full.batch, full.pending, full.was, full.then>>
      /\ UNCHANGED <<pool, lane, late, place>>
  BY DEF LeaseRemoved, Allow, poolVars, FullShape, FullLocals, FullStages
<1> USE <1>a
<1>n. lease' = [lease EXCEPT ![b] = "removed"] BY DEF LeaseRemoved
<1> HIDE DEF b
<1>c. /\ lease' \in [BatchIds -> {"none", "held", "removed", "retained"}]
      /\ \A c \in BatchIds : lease'[c] = IF c = b THEN "removed" ELSE lease[c]
      /\ Held' = Held \ {b} /\ ~CleanupOwed'
  BY <1>n DEF FullShape, Held, CleanupOwed
<1> USE <1>c
<1>b. SameLanes BY LanesStay
<1> USE <1>b
<1>1. PoolShape' /\ LaneShape' /\ PoolKnown' /\ RemovedIsSafe' BY LanesStay
<1>2. FullShape' /\ FutureKnown' /\ StageOfPool' /\ QuietWhenAllowed'
  BY <1>t DEF FullShape, FutureKnown, QuietWhenAllowed, StageOfPool
<1>3. LeasesKnown'
  BY SMTT(20), <1>t, BatchNumbers DEF LeasesKnown, ToRelease, FullShape, CleanupOwed, Held
<1>4. TreesKnown'
  <2>1. (\A c \in BatchIds : lease[c] = "removed" => \A i \in Batch(c) : lane[i].tree = "removed")'
    BY <1>t, BatchesPartition, LanesAre DEF TreesKnown, ToRelease, LeasesKnown
  <2>2. (\A c \in Held :
           /\ ~(full.stage = "materialize" /\ c = full.batch)
           /\ ~(full.stage = "removing" /\ c = Max(ToRelease))
           => \A i \in Batch(c) : lane[i].tree = "present")'
    BY DEF TreesKnown, b
  <2>3. (full.stage = "removing" => \A i \in Batch(Max(ToRelease)) : lane[i].tree = "removed")'
    BY <1>t, BatchesPartition, LanesAre DEF TreesKnown, ToRelease, LeasesKnown
  <2>4. (full.stage = "probing" => \A i \in Probes : lane[i].tree = "present")'
    BY <1>t, BatchesPartition, LanesAre DEF TreesKnown, ToRelease, LeasesKnown
  <2> QED BY <2>1, <2>2, <2>3, <2>4 DEF TreesKnown
<1>5. LogsKnown' BY SMTT(20), <1>t, BatchesPartition, LanesAre DEF LogsKnown, QuietWhenAllowed
<1>6. ShardsKnown'
  BY SMTT(20), <1>t, BatchesPartition, LanesAre DEF ShardsKnown, Stopped, StopsEarly,
     FailedInBatch, FullShape
<1>7. VerdictKnown' BY <1>t, LanesAre DEF VerdictKnown, LeasesKnown
<1> QED BY <1>1, <1>2, <1>3, <1>4, <1>5, <1>6, <1>7

LEMMA LeaseRemovalFailsKeeps ==
  ASSUME FullRunInv, LeaseRemovalFails
  PROVE  FullRunInv'
<1> DEFINE b == Max(ToRelease)
<1>o. /\ full.stage = "removing" /\ b \in ToRelease /\ b \in Held /\ b \in BatchIds
      /\ full.batch \in BatchIds /\ pool.at = "off" /\ ~full.permitted
      /\ (full.then = "next" => b = full.batch)
  BY LastBatch DEF LeaseRemovalFails, ToRelease, Held, StageOfPool, LeasesKnown,
     QuietWhenAllowed, FullShape, FullLocals, FullStages
<1> USE <1>o
<1>a. /\ full' \in FullLocals
      /\ full'.stage = "release"
      /\ UNCHANGED <<full.failFast, full.failed, full.logsLost, full.error, full.aggregated,
                     full.ok, full.batch, full.permitted, full.pending, full.was,
                     full.then>>
      /\ UNCHANGED <<pool, lane, late, place>>
  BY DEF LeaseRemovalFails, At, poolVars, FullShape, FullLocals, FullStages
<1> USE <1>a
<1>n. lease' = [lease EXCEPT ![b] = "retained"] BY DEF LeaseRemovalFails
<1> HIDE DEF b
<1>c. /\ lease' \in [BatchIds -> {"none", "held", "removed", "retained"}]
      /\ \A c \in BatchIds : lease'[c] = IF c = b THEN "retained" ELSE lease[c]
      /\ Held' = Held \ {b}
  BY <1>n DEF FullShape, Held
<1> USE <1>c
<1>b. SameLanes BY LanesStay
<1> USE <1>b
<1>1. PoolShape' /\ LaneShape' /\ PoolKnown' /\ RemovedIsSafe' BY LanesStay
<1>2. FullShape' /\ FutureKnown' /\ StageOfPool' /\ QuietWhenAllowed'
  BY DEF FullShape, FutureKnown, QuietWhenAllowed, StageOfPool
<1>3. LeasesKnown'
  BY SMTT(20), BatchNumbers DEF LeasesKnown, ToRelease, FullShape, CleanupOwed, Held
<1>4. TreesKnown'
  <2>1. (\A c \in BatchIds : lease[c] = "removed" => \A i \in Batch(c) : lane[i].tree = "removed")'
    BY BatchesPartition, LanesAre DEF TreesKnown, ToRelease, LeasesKnown
  <2>2. (\A c \in Held :
           /\ ~(full.stage = "materialize" /\ c = full.batch)
           /\ ~(full.stage = "removing" /\ c = Max(ToRelease))
           => \A i \in Batch(c) : lane[i].tree = "present")'
    BY DEF TreesKnown, b
  <2>3. (full.stage = "removing" => \A i \in Batch(Max(ToRelease)) : lane[i].tree = "removed")'
    BY BatchesPartition, LanesAre DEF TreesKnown, ToRelease, LeasesKnown
  <2>4. (full.stage = "probing" => \A i \in Probes : lane[i].tree = "present")'
    BY BatchesPartition, LanesAre DEF TreesKnown, ToRelease, LeasesKnown
  <2> QED BY <2>1, <2>2, <2>3, <2>4 DEF TreesKnown
<1>5. LogsKnown' BY SMTT(20), BatchesPartition, LanesAre DEF LogsKnown, QuietWhenAllowed
<1>6. ShardsKnown'
  BY SMTT(20), BatchesPartition, LanesAre DEF ShardsKnown, Stopped, StopsEarly,
     FailedInBatch, FullShape
<1>7. VerdictKnown' BY LanesAre DEF VerdictKnown, LeasesKnown
<1> QED BY <1>1, <1>2, <1>3, <1>4, <1>5, <1>6, <1>7

LEMMA FullConcludesKeeps ==
  ASSUME FullRunInv, FullConcludes
  PROVE  FullRunInv'
<1>o. full.stage = "unroot" BY DEF FullConcludes
<1> USE <1>o
<1>h. PICK removed \in {FALSE, full.permitted}, end \in {"done", "raised"} :
       /\ full.error = "none" => end = "done"
       /\ full.error = "interrupt" => end = "raised"
       /\ place' = [place EXCEPT !.root = IF removed THEN "removed" ELSE "retained"]
       /\ full' = [At(end) EXCEPT !.ok = @ /\ removed]
  BY DEF FullConcludes
<1>r. removed \in BOOLEAN /\ (removed => full.permitted) BY DEF FullShape, FullLocals
<1>a. /\ full' \in FullLocals
      /\ full'.stage = end /\ (full'.ok <=> full.ok /\ removed)
      /\ UNCHANGED <<full.failFast, full.failed, full.logsLost, full.error, full.aggregated,
                     full.batch, full.permitted, full.pending, full.was, full.then>>
      /\ UNCHANGED <<pool, late, lease>>
      /\ place' \in [root : {"owned", "removed", "retained"}, edited : BOOLEAN]
      /\ place'.edited = place.edited /\ (removed => place'.root = "removed")
      /\ full.batch \in BatchIds
  BY <1>h, <1>r DEF FullConcludes, At, FullShape, FullLocals, FullStages
<1> USE <1>a
<1>l. /\ lane' \in [Lanes -> LaneRecords]
      /\ \A i \in Lanes :
           /\ lane'[i].future = lane[i].future
           /\ lane'[i].out = lane[i].out
           /\ lane'[i].runs = lane[i].runs
           /\ lane'[i].alive = lane[i].alive
           /\ lane'[i].reports = lane[i].reports
           /\ lane'[i].logs = lane[i].logs
           /\ lane[i].tree = "removed" => lane'[i].tree = "removed"
           /\ lane'[i].tree = "removed" => lane[i].tree = "removed" \/ full.permitted
  BY GoneAre DEF FullConcludes, LaneShape
<1> USE <1>l
<1>b. \A i \in Lanes :
        /\ Outcome(i)' = Outcome(i)
        /\ (LogsKept(i)' <=> LogsKept(i))
        /\ (Unrun(i)' <=> Unrun(i))
        /\ (Quiet(i)' <=> Quiet(i))
        /\ (Judged(i)' <=> Judged(i))
  BY DEF Outcome, LogsKept, Unrun, Quiet, Judged
<1> USE <1>b
<1>c. Held' = Held /\ Held = {} /\ (CleanupOwed' <=> CleanupOwed)
  BY DEF Held, CleanupOwed, LeasesKnown
<1> USE <1>c
<1>q. full.permitted => \A i \in Lanes : Quiet(i) /\ (i \in Shards => LogsKept(i))
  BY DEF QuietWhenAllowed, LogsKnown
<1>1. PoolShape' /\ LaneShape' /\ FullShape' /\ FutureKnown'
  BY <1>h, <1>q DEF PoolShape, LaneShape, FullShape, FutureKnown, QuietWhenAllowed
<1>2. PoolKnown'
  <2>1. (pool.flight \cup pool.done \subseteq Rostered)' BY <1>h, <1>q DEF PoolKnown
  <2>2. (Len(pool.roster) <= 4 /\ pool.next <= Len(pool.roster) + 1)'
    BY <1>h, <1>q DEF PoolKnown
  <2>3. (\A p, q \in DOMAIN pool.roster : pool.roster[p] = pool.roster[q] => p = q)'
    BY <1>h, <1>q DEF PoolKnown
  <2>4. (pool.at = "over" => pool.flight = {})' BY <1>h, <1>q DEF PoolKnown
  <2>5. (\A i \in Lanes : lane[i].future \in {"queued", "running"} =>
           /\ pool.at # "off" /\ i \in Rostered
           /\ pool.at \in {"submit", "wait", "take", "over"} => i \in pool.flight)'
    BY <1>h, <1>q DEF PoolKnown
  <2>6. (pool.at \in {"submit", "wait", "take"} =>
           \A k \in pool.next .. Len(pool.roster) : Unrun(pool.roster[k]))'
    BY DEF StageOfPool
  <2> QED BY <2>1, <2>2, <2>3, <2>4, <2>5, <2>6 DEF PoolKnown
<1>3. StageOfPool' /\ QuietWhenAllowed' /\ RemovedIsSafe'
  BY <1>h, <1>q DEF StageOfPool, QuietWhenAllowed, RemovedIsSafe
<1>4. LeasesKnown'
  BY SMTT(20), <1>h, <1>q, BatchNumbers DEF LeasesKnown, ToRelease, FullShape, CleanupOwed,
     Held
<1>5. TreesKnown'
  BY SMTT(20), <1>h, <1>q, BatchesPartition, LanesAre DEF TreesKnown, ToRelease, LeasesKnown
<1>6. LogsKnown'
  BY SMTT(20), <1>h, <1>q, BatchesPartition, LanesAre DEF LogsKnown, QuietWhenAllowed
<1>7. ShardsKnown'
  BY SMTT(20), <1>h, <1>q, BatchesPartition, LanesAre DEF ShardsKnown, Stopped, StopsEarly,
     FailedInBatch, FullShape
<1>8. VerdictKnown' BY SMTT(20), <1>h, <1>q, LanesAre DEF VerdictKnown, LeasesKnown
<1> QED BY <1>1, <1>2, <1>3, <1>4, <1>5, <1>6, <1>7, <1>8

LEMMA NothingMovesKeeps ==
  ASSUME FullRunInv, UNCHANGED <<pool, lane, full, lease, place>>, late' \in BOOLEAN
  PROVE  FullRunInv'
<1>a. UNCHANGED <<pool, lane, full, lease, place>> /\ late' \in BOOLEAN OBVIOUS
<1> USE <1>a
<1>c. Held' = Held /\ (CleanupOwed' <=> CleanupOwed) /\ ToRelease' = ToRelease
  BY DEF Held, CleanupOwed, ToRelease
<1> USE <1>c
<1>b. SameLanes BY LanesStay
<1> USE <1>b
<1>1. PoolShape' /\ LaneShape' /\ PoolKnown' /\ RemovedIsSafe' BY LanesStay
<1>2. FullShape' /\ FutureKnown' /\ StageOfPool' /\ QuietWhenAllowed'
  BY DEF FullShape, FutureKnown, QuietWhenAllowed, StageOfPool
<1>3. LeasesKnown'
  BY SMTT(20), BatchNumbers DEF LeasesKnown, ToRelease, FullShape, CleanupOwed, Held
<1>4. TreesKnown'
  <2>1. (\A b \in BatchIds : lease[b] = "removed" => \A i \in Batch(b) : lane[i].tree = "removed")'
    BY BatchesPartition, LanesAre DEF TreesKnown, ToRelease, LeasesKnown
  <2>2. (\A b \in Held :
           /\ ~(full.stage = "materialize" /\ b = full.batch)
           /\ ~(full.stage = "removing" /\ b = Max(ToRelease))
           => \A i \in Batch(b) : lane[i].tree = "present")'
    BY BatchesPartition, LanesAre DEF TreesKnown, ToRelease, LeasesKnown
  <2>3. (full.stage = "removing" => \A i \in Batch(Max(ToRelease)) : lane[i].tree = "removed")'
    BY DEF TreesKnown
  <2>4. (full.stage = "probing" => \A i \in Probes : lane[i].tree = "present")'
    BY BatchesPartition, LanesAre DEF TreesKnown, ToRelease, LeasesKnown
  <2> QED BY <2>1, <2>2, <2>3, <2>4 DEF TreesKnown
<1>5. LogsKnown' BY SMTT(20), BatchesPartition, LanesAre DEF LogsKnown, QuietWhenAllowed
<1>6. ShardsKnown'
  BY SMTT(20), BatchesPartition, LanesAre DEF ShardsKnown, Stopped, StopsEarly,
     FailedInBatch, FullShape
<1>7. VerdictKnown' BY LanesAre DEF VerdictKnown, LeasesKnown
<1> QED BY <1>1, <1>2, <1>3, <1>4, <1>5, <1>6, <1>7

LEMMA WorkspaceIsEditedKeeps ==
  ASSUME FullRunInv, WorkspaceIsEdited
  PROVE  FullRunInv'
<1>a. /\ UNCHANGED <<pool, lane, late, full, lease>>
      /\ place' \in [root : {"owned", "removed", "retained"}, edited : BOOLEAN]
      /\ full.stage \notin {"unroot", "done", "raised"}
  BY DEF WorkspaceIsEdited, poolVars, FullShape
<1> USE <1>a
<1>c. Held' = Held /\ (CleanupOwed' <=> CleanupOwed) /\ ToRelease' = ToRelease
  BY DEF Held, CleanupOwed, ToRelease
<1> USE <1>c
<1>b. SameLanes BY LanesStay
<1> USE <1>b
<1>1. PoolShape' /\ LaneShape' /\ PoolKnown' /\ RemovedIsSafe' BY LanesStay
<1>2. FullShape' /\ FutureKnown' /\ StageOfPool' /\ QuietWhenAllowed'
  BY DEF FullShape, FutureKnown, QuietWhenAllowed, StageOfPool
<1>3. LeasesKnown'
  BY SMTT(20), BatchNumbers DEF LeasesKnown, ToRelease, FullShape, CleanupOwed, Held
<1>4. TreesKnown'
  <2>1. (\A b \in BatchIds : lease[b] = "removed" => \A i \in Batch(b) : lane[i].tree = "removed")'
    BY BatchesPartition, LanesAre DEF TreesKnown, ToRelease, LeasesKnown
  <2>2. (\A b \in Held :
           /\ ~(full.stage = "materialize" /\ b = full.batch)
           /\ ~(full.stage = "removing" /\ b = Max(ToRelease))
           => \A i \in Batch(b) : lane[i].tree = "present")'
    BY BatchesPartition, LanesAre DEF TreesKnown, ToRelease, LeasesKnown
  <2>3. (full.stage = "removing" => \A i \in Batch(Max(ToRelease)) : lane[i].tree = "removed")'
    BY BatchesPartition, LanesAre DEF TreesKnown, ToRelease, LeasesKnown
  <2>4. (full.stage = "probing" => \A i \in Probes : lane[i].tree = "present")'
    BY BatchesPartition, LanesAre DEF TreesKnown, ToRelease, LeasesKnown
  <2> QED BY <2>1, <2>2, <2>3, <2>4 DEF TreesKnown
<1>5. LogsKnown' BY SMTT(20), BatchesPartition, LanesAre DEF LogsKnown, QuietWhenAllowed
<1>6. ShardsKnown'
  BY SMTT(20), BatchesPartition, LanesAre DEF ShardsKnown, Stopped, StopsEarly,
     FailedInBatch, FullShape
<1>7. VerdictKnown' BY LanesAre DEF VerdictKnown, LeasesKnown
<1> QED BY <1>1, <1>2, <1>3, <1>4, <1>5, <1>6, <1>7
\* A step of the pool: it changes the future of lanes of its roster that have not come
\* to their end, and nothing else of a lane but what runs in it and comes out of it.
PoolMoves ==
  /\ PoolShape' /\ LaneShape' /\ FutureKnown' /\ PoolKnown'
  /\ pool.at # "off" /\ pool'.at # "off" /\ pool'.roster = pool.roster
  /\ pool'.at \in {"submit", "wait", "take", "unwind"} =>
       pool.at \in {"submit", "wait", "take", "unwind"}
  /\ \A i \in Lanes : lane'[i] # lane[i] =>
       /\ i \in Rostered
       /\ \/ lane[i].future \in {"queued", "running"}
          \/ pool.at = "submit" /\ lane[i].future = "none"
       /\ lane'[i].tree = lane[i].tree /\ lane'[i].reports = lane[i].reports
       /\ lane'[i].logs = lane[i].logs

\* The steps of the pool and of its workers share one argument: what they move, in
\* SubmitMoves to WorkerMoves, and what follows from that, in PoolMovesKeeps.
LEMMA CancelledAre ==
  ASSUME LaneShape, NEW S
  PROVE  /\ Cancelled(S) \in [Lanes -> LaneRecords]
         /\ \A i \in Lanes :
              /\ Cancelled(S)[i].out = lane[i].out /\ Cancelled(S)[i].runs = lane[i].runs
              /\ Cancelled(S)[i].logs = lane[i].logs /\ Cancelled(S)[i].alive = lane[i].alive
              /\ Cancelled(S)[i].reports = lane[i].reports /\ Cancelled(S)[i].tree = lane[i].tree
              /\ Cancelled(S)[i].future = IF i \in S /\ lane[i].future = "queued" THEN "cancelled"
                                          ELSE lane[i].future
              /\ lane[i].future # "queued" \/ i \notin S => Cancelled(S)[i] = lane[i]
<1> DEFINE withdrawn(i) == [lane[i] EXCEPT !.future = "cancelled"]
           new(i) == IF i \in S /\ lane[i].future = "queued" THEN withdrawn(i) ELSE lane[i]
<1>1. \A i \in Lanes :
        /\ lane[i] \in LaneRecords /\ withdrawn(i) \in LaneRecords
        /\ withdrawn(i).out = lane[i].out /\ withdrawn(i).runs = lane[i].runs
        /\ withdrawn(i).logs = lane[i].logs /\ withdrawn(i).alive = lane[i].alive
        /\ withdrawn(i).reports = lane[i].reports /\ withdrawn(i).tree = lane[i].tree
        /\ withdrawn(i).future = "cancelled"
  BY DEF LaneShape, LaneRecords
<1>2. Cancelled(S) = [i \in Lanes |-> new(i)] BY DEF Cancelled
<1> HIDE DEF withdrawn
<1>3. \A i \in Lanes :
        /\ new(i) \in LaneRecords
        /\ new(i).out = lane[i].out /\ new(i).runs = lane[i].runs
        /\ new(i).logs = lane[i].logs /\ new(i).alive = lane[i].alive
        /\ new(i).reports = lane[i].reports /\ new(i).tree = lane[i].tree
        /\ new(i).future = IF i \in S /\ lane[i].future = "queued" THEN "cancelled"
                           ELSE lane[i].future
        /\ lane[i].future # "queued" \/ i \notin S => new(i) = lane[i]
  BY <1>1
<1> HIDE DEF new
<1> QED BY <1>2, <1>3

LEMMA SubmitMoves ==
  ASSUME PoolShape, LaneShape, FutureKnown, PoolKnown, Submit, UNCHANGED full
  PROVE  PoolMoves
<1> DEFINE i == pool.roster[pool.next]
<1>1. /\ pool.at = "submit" /\ pool.next \in DOMAIN pool.roster /\ pool.next \in 1 .. 4
      /\ i \in Lanes /\ i \in Rostered /\ Unrun(i)
      /\ pool' = [pool EXCEPT !.next = @ + 1, !.flight = @ \cup {i}]
      /\ lane' = [lane EXCEPT ![i].future = "queued"]
  BY DEF Submit, CanSubmit, PoolShape, PoolKnown, Range
<1> HIDE DEF i
<1>n. pool.next + 1 \in 1 .. 5 /\ pool.flight \cup {i} \in SUBSET Lanes /\ late' \in BOOLEAN
  BY <1>1 DEF PoolShape, Submit
<1>e. pool' = [pool EXCEPT !.next = pool.next + 1, !.flight = pool.flight \cup {i}]
  BY <1>1 DEF PoolShape
<1>2. /\ PoolShape' /\ pool'.at = "submit" /\ pool'.roster = pool.roster
      /\ pool'.next = pool.next + 1 /\ pool'.flight = pool.flight \cup {i}
      /\ pool'.done = pool.done
  BY <1>1, <1>n, <1>e DEF PoolShape
<1>3. /\ lane' \in [Lanes -> LaneRecords]
      /\ lane'[i].future = "queued" /\ lane'[i].out = lane[i].out /\ lane'[i].runs = lane[i].runs
      /\ lane'[i].alive = lane[i].alive /\ lane'[i].tree = lane[i].tree
      /\ lane'[i].reports = lane[i].reports /\ lane'[i].logs = lane[i].logs
      /\ \A j \in Lanes : j # i => lane'[j] = lane[j]
  BY <1>1 DEF LaneShape, LaneRecords
<1>4. FutureKnown' BY <1>1, <1>3 DEF FutureKnown, Unrun
<1>5. PoolKnown'
  <2>1. /\ (pool.flight \cup pool.done \subseteq Rostered)'
        /\ (Len(pool.roster) <= 4 /\ pool.next <= Len(pool.roster) + 1)'
        /\ (\A p, q \in DOMAIN pool.roster : pool.roster[p] = pool.roster[q] => p = q)'
    BY <1>1, <1>2 DEF PoolKnown, PoolShape
  <2>2. ASSUME NEW j \in Lanes, lane'[j].future \in {"queued", "running"}
        PROVE  j \in Rostered' /\ j \in pool'.flight
    BY <1>1, <1>2, <1>3, <2>2 DEF PoolKnown
  <2>3. ASSUME NEW k \in pool.next + 1 .. Len(pool.roster) PROVE Unrun(pool.roster[k])'
    <3>1. /\ k \in pool.next .. Len(pool.roster) /\ k \in DOMAIN pool.roster /\ k # pool.next
          /\ pool.roster[k] \in Lanes
      BY <1>1, <1>2, <2>3 DEF PoolShape
    <3>2. pool.roster[k] # i /\ Unrun(pool.roster[k]) BY <1>1, <3>1 DEF PoolKnown, i
    <3> QED BY <1>2, <1>3, <3>1, <3>2 DEF Unrun
  <2> QED BY <1>2, <2>1, <2>2, <2>3 DEF PoolKnown
<1> QED BY <1>1, <1>2, <1>3, <1>4, <1>5 DEF PoolMoves, LaneShape, Unrun

\* A step of the caller that leaves the lanes as they are.
LEMMA CallerMoves ==
  ASSUME PoolShape, LaneShape, FutureKnown, PoolKnown, UNCHANGED full,
         SubmitEnds \/ TakeEnds \/ PoolUnwinds \/ \E i \in Lanes : TakeResult(i)
  PROVE  PoolMoves
<1> DEFINE after == /\ pool' \in [at : {"submit", "wait", "take", "over", "raised"},
                                 roster : {pool.roster}, limit : {pool.limit},
                                 failFast : {pool.failFast}, next : {pool.next},
                                 flight : {pool.flight}, done : SUBSET pool.done,
                                 cancelled : BOOLEAN]
                    /\ UNCHANGED <<lane, late>> /\ pool.at \in {"submit", "take", "unwind"}
                    /\ pool'.at = "over" => pool.flight = {}
                    /\ pool'.at \in {"submit", "wait", "take", "over"} =>
                         pool.at \in {"submit", "take"}
<1>1. after
  <2>1. CASE SubmitEnds BY <2>1 DEF SubmitEnds, PoolShape
  <2>2. CASE TakeEnds BY <2>2 DEF TakeEnds, ToSubmit, PoolShape
  <2>3. CASE PoolUnwinds BY <2>3 DEF PoolUnwinds, PoolShape
  <2>4. ASSUME NEW i \in Lanes, TakeResult(i) 
        PROVE  /\ \E c \in BOOLEAN : pool' = [pool EXCEPT !.done = @ \ {i}, !.cancelled = c]
               /\ UNCHANGED <<lane, late>> /\ pool.at = "take"
    BY <2>4 DEF TakeResult, PoolShape
  <2>5. CASE \E i \in Lanes : TakeResult(i)
    <3>1. PICK i \in Lanes : TakeResult(i) BY <2>5
    <3>2. PICK c \in BOOLEAN : pool' = [pool EXCEPT !.done = @ \ {i}, !.cancelled = c]
      BY <2>4, <3>1
    <3>3. UNCHANGED <<lane, late>> /\ pool.at = "take" BY <2>4, <3>1
    <3> QED BY <3>2, <3>3 DEF PoolShape
  <2> HIDE DEF after
  <2> QED BY <2>1, <2>2, <2>3, <2>5
<1>2. PoolShape' /\ LaneShape' /\ FutureKnown' BY <1>1 DEF PoolShape, LaneShape, FutureKnown
<1>3. PoolKnown'
  <2>1. /\ pool'.roster = pool.roster /\ pool'.next = pool.next /\ pool'.flight = pool.flight
        /\ pool'.done \subseteq pool.done /\ pool'.at # "off"
    BY <1>1
  <2> QED BY <1>1, <2>1 DEF PoolKnown, Unrun
<1> QED BY <1>1, <1>2, <1>3 DEF PoolMoves

LEMMA WaitMoves ==
  ASSUME PoolShape, LaneShape, FutureKnown, PoolKnown, WaitTurn, UNCHANGED full
  PROVE  PoolMoves
<1> DEFINE stop == pool.cancelled \/ late
           finished == {i \in pool.flight : \/ lane[i].future = "finished"
                                            \/ stop /\ lane[i].future = "queued"}
<1>1. /\ pool.at = "wait" /\ stop \in BOOLEAN
      /\ pool' = [pool EXCEPT !.at = "take", !.done = finished, !.flight = @ \ finished,
                              !.cancelled = stop]
      /\ lane' = IF stop THEN Cancelled(pool.flight) ELSE lane
  BY DEF WaitTurn, PoolShape
<1>2. finished \subseteq pool.flight /\ pool.flight \subseteq Lanes /\ late' \in BOOLEAN
  BY DEF PoolShape, WaitTurn
<1>5. \A i \in pool.flight : lane[i].future = "running" => i \notin finished OBVIOUS
<1>9. \A i \in pool.flight : lane[i].future = "queued" /\ ~stop => i \notin finished OBVIOUS
<1> HIDE DEF stop, finished
<1>3. /\ PoolShape' /\ pool'.at = "take" /\ pool'.roster = pool.roster /\ pool'.next = pool.next
      /\ pool'.flight = pool.flight \ finished /\ pool'.done = finished
  BY <1>1, <1>2 DEF PoolShape
<1>4. /\ lane' \in [Lanes -> LaneRecords]
      /\ \A i \in Lanes :
           /\ lane'[i].out = lane[i].out /\ lane'[i].runs = lane[i].runs
           /\ lane'[i].logs = lane[i].logs /\ lane'[i].alive = lane[i].alive
           /\ lane'[i].reports = lane[i].reports /\ lane'[i].tree = lane[i].tree
           /\ lane'[i].future = IF stop /\ i \in pool.flight /\ lane[i].future = "queued"
                                THEN "cancelled" ELSE lane[i].future
           /\ lane[i].future # "queued" => lane'[i] = lane[i]
  BY <1>1, CancelledAre DEF LaneShape
<1>f. \A i \in Lanes : lane'[i].future \in {"queued", "running"} =>
        i \in Rostered /\ i \in pool.flight \ finished
  BY <1>1, <1>4, <1>5, <1>9 DEF PoolKnown
<1>6. FutureKnown' BY <1>4 DEF FutureKnown
<1>7. PoolKnown'
  <2>1. \A k \in pool.next .. Len(pool.roster) : pool.roster[k] \in Lanes BY DEF PoolShape
  <2>2. \A k \in pool.next .. Len(pool.roster) : Unrun(pool.roster[k])'
    BY <1>1, <1>4, <2>1 DEF PoolKnown, Unrun
  <2> QED BY <1>2, <1>3, <1>f, <2>2 DEF PoolKnown
<1>8. \A i \in Lanes : lane'[i] # lane[i] => i \in Rostered /\ lane[i].future = "queued"
  BY <1>4 DEF PoolKnown, PoolShape
<1> QED BY <1>1, <1>3, <1>4, <1>6, <1>7, <1>8 DEF PoolMoves, LaneShape

LEMMA InterruptMoves ==
  ASSUME PoolShape, LaneShape, FutureKnown, PoolKnown, PoolInterrupted, UNCHANGED full
  PROVE  PoolMoves
<1>1. /\ pool.at \in {"submit", "wait", "take", "unwind"}
      /\ pool' = [pool EXCEPT !.at = IF Working THEN "unwind" ELSE "raised", !.cancelled = TRUE]
      /\ lane' = Cancelled(Rostered)
  BY DEF PoolInterrupted, Working
<1>2. /\ PoolShape' /\ pool'.at \in {"unwind", "raised"} /\ pool'.roster = pool.roster
      /\ pool'.next = pool.next /\ pool'.flight = pool.flight /\ pool'.done = pool.done
  BY <1>1 DEF PoolShape, PoolInterrupted
<1>3. /\ lane' \in [Lanes -> LaneRecords]
      /\ \A i \in Lanes :
           /\ lane'[i].out = lane[i].out /\ lane'[i].runs = lane[i].runs
           /\ lane'[i].logs = lane[i].logs /\ lane'[i].alive = lane[i].alive
           /\ lane'[i].reports = lane[i].reports /\ lane'[i].tree = lane[i].tree
           /\ lane'[i].future = IF i \in Rostered /\ lane[i].future = "queued"
                                THEN "cancelled" ELSE lane[i].future
           /\ lane[i].future # "queued" \/ i \notin Rostered => lane'[i] = lane[i]
  BY <1>1, CancelledAre
<1>4. FutureKnown' BY <1>3 DEF FutureKnown
<1>5. PoolKnown' BY <1>2, <1>3 DEF PoolKnown
<1> QED BY <1>1, <1>2, <1>3, <1>4, <1>5 DEF PoolMoves, LaneShape

LEMMA ResultsAre == \A out \in WorkerResults : out.quiet \in BOOLEAN /\ out.ok \in BOOLEAN
<1>1. NotStarted.quiet = TRUE /\ NotStarted.ok = FALSE BY DEF NotStarted, Result
<1>2. Result(FALSE, FALSE, FALSE).quiet = FALSE /\ Result(FALSE, FALSE, FALSE).ok = FALSE
  BY DEF Result
<1> QED BY <1>1, <1>2 DEF WorkerResults

LEMMA WorkerMoves ==
  ASSUME PoolShape, LaneShape, FutureKnown, PoolKnown, UNCHANGED full, NEW i \in Lanes,
         ShardSkipped(i) \/ ShardStarts(i) \/ ShardReturns(i)
  PROVE  PoolMoves
<1>1. /\ lane[i].future \in {"queued", "running"} /\ i \in Rostered /\ pool.at # "off"
      /\ UNCHANGED <<pool, late>>
      /\ pool.at \in {"submit", "wait", "take", "over"} => i \in pool.flight
  BY DEF ShardSkipped, ShardStarts, ShardReturns, PoolKnown
<1>2. /\ lane' \in [Lanes -> LaneRecords]
      /\ lane'[i].tree = lane[i].tree /\ lane'[i].reports = lane[i].reports
      /\ lane'[i].logs = lane[i].logs
      /\ lane'[i].future \in {"running", "finished"}
      /\ lane'[i].future = "running" => lane'[i].runs = 1 /\ lane'[i].out = NotStarted
      /\ lane'[i].out.ok => lane'[i].runs = 1
      /\ lane'[i].alive => \/ lane'[i].future = "running"
                           \/ lane'[i].future = "finished" /\ ~lane'[i].out.quiet
                           \/ full.stage \in Ended /\ ~full.permitted
      /\ \A j \in Lanes : j # i => lane'[j] = lane[j]
  <2>0. lane[i] \in LaneRecords /\ lane \in [Lanes -> LaneRecords] BY DEF LaneShape
  <2>1. CASE ShardSkipped(i)
    <3>1. /\ lane'[i] = [lane[i] EXCEPT !.future = "finished"]
          /\ lane' = [lane EXCEPT ![i] = [lane[i] EXCEPT !.future = "finished"]]
      BY <2>0, <2>1 DEF ShardSkipped
    <3> QED BY <2>0, <2>1, <3>1 DEF ShardSkipped, LaneRecords, FutureKnown, NotStarted, Result
  <2>2. CASE ShardStarts(i)
    <3>0. lane[i].runs = 0 /\ lane[i].out = NotStarted /\ lane[i].runs + 1 = 1
      BY <2>0, <2>2 DEF ShardStarts, FutureKnown
    <3>1. /\ lane'[i] = [lane[i] EXCEPT !.future = "running", !.alive = TRUE, !.runs = 1]
          /\ lane' = [lane EXCEPT ![i] = lane'[i]]
      BY <2>0, <2>2, <3>0 DEF ShardStarts
    <3>4. lane'[i] \in LaneRecords
      <4> DEFINE alive == TRUE
                 runs == 1
      <4>1. lane'[i] = [lane[i] EXCEPT !.future = "running", !.alive = alive, !.runs = runs]
        BY <3>1
      <4>2. alive \in BOOLEAN /\ runs \in 0 .. 1 OBVIOUS
      <4> HIDE DEF alive, runs
      <4> QED BY <2>0, <4>1, <4>2 DEF LaneRecords
    <3>5. /\ lane'[i].tree = lane[i].tree /\ lane'[i].reports = lane[i].reports
          /\ lane'[i].logs = lane[i].logs /\ lane'[i].future = "running"
          /\ lane'[i].out = NotStarted
          /\ lane'[i].runs = 1
      BY <2>0, <3>0, <3>1
    <3>6. /\ lane' \in [Lanes -> LaneRecords] /\ \A j \in Lanes : j # i => lane'[j] = lane[j]
      BY <2>0, <3>1, <3>4
    <3> QED BY <3>5, <3>6
  <2>3. CASE ShardReturns(i)
    <3>1. PICK out \in WorkerResults :
            lane' = [lane EXCEPT ![i].future = "finished", ![i].out = out, ![i].alive = ~out.quiet]
      BY <2>3 DEF ShardReturns
    <3>2. PICK alive \in BOOLEAN : alive = ~out.quiet BY ResultsAre
    <3>3. /\ lane'[i] = [lane[i] EXCEPT !.future = "finished", !.out = out, !.alive = alive]
          /\ lane' = [lane EXCEPT ![i] = lane'[i]] /\ lane[i].runs = 1
      BY <2>0, <2>3, <3>1, <3>2 DEF ShardReturns, FutureKnown
    <3>4. lane'[i] \in LaneRecords BY <2>0, <3>2, <3>3 DEF LaneRecords
    <3>5. /\ lane'[i].tree = lane[i].tree /\ lane'[i].reports = lane[i].reports
          /\ lane'[i].logs = lane[i].logs /\ lane'[i].future = "finished" /\ lane'[i].out = out
          /\ lane'[i].runs = 1 /\ lane'[i].alive = alive
      BY <2>0, <3>3 DEF LaneRecords
    <3>6. /\ lane' \in [Lanes -> LaneRecords] /\ \A j \in Lanes : j # i => lane'[j] = lane[j]
      BY <2>0, <3>3, <3>4
    <3> QED BY <3>2, <3>5, <3>6
  <2> QED BY <2>1, <2>2, <2>3
<1>3. PoolShape' BY <1>1 DEF PoolShape
<1>4. FutureKnown' BY <1>2 DEF FutureKnown
<1>5. PoolKnown'
  <2>1. \A k \in pool.next .. Len(pool.roster) :
          pool.roster[k] \in Lanes /\ (Unrun(pool.roster[k]) => pool.roster[k] # i)
    BY <1>1 DEF PoolShape, Unrun
  <2>2. \A j \in Lanes : j # i /\ Unrun(j) => Unrun(j)' BY <1>2 DEF Unrun
  <2> QED BY <1>1, <1>2, <2>1, <2>2 DEF PoolKnown
<1> QED BY <1>1, <1>2, <1>3, <1>4, <1>5 DEF PoolMoves, LaneShape

LEMMA PoolMovesKeeps ==
  ASSUME FullRunInv, PoolMoves, UNCHANGED <<full, lease, place, late>>
  PROVE  FullRunInv'
<1>a. /\ PoolShape' /\ LaneShape' /\ FutureKnown' /\ PoolKnown'
      /\ pool.at # "off" /\ pool'.roster = pool.roster /\ Rostered' = Rostered
      /\ full' = full /\ lease' = lease /\ place' = place /\ Held' = Held /\ ToRelease' = ToRelease
      /\ (CleanupOwed' <=> CleanupOwed) /\ full.batch \in BatchIds
      /\ full.stage \in {"probing", "running"} \cup Ended
  BY DEF PoolMoves, Held, ToRelease, CleanupOwed, StageOfPool, FullShape, FullLocals
<1> USE <1>a
<1>b. \A i \in Lanes : lane'[i].tree = lane[i].tree /\ lane'[i].reports = lane[i].reports
  BY DEF PoolMoves
<1> USE <1>b
<1>c. \A i \in Lanes : lane'[i] = lane[i] =>
        /\ Outcome(i)' = Outcome(i) /\ (LogsKept(i)' <=> LogsKept(i))
        /\ (Unrun(i)' <=> Unrun(i)) /\ (Quiet(i)' <=> Quiet(i)) /\ (Judged(i)' <=> Judged(i))
  BY DEF Outcome, LogsKept, Unrun, Quiet, Judged
<1> USE <1>c
<1>d. \A i \in Lanes : /\ i \notin Rostered => lane'[i] = lane[i]
                       /\ lane[i].future = "finished" => lane'[i] = lane[i]
                       /\ full.stage \in Ended /\ Quiet(i) => lane'[i] = lane[i]
  BY DEF PoolMoves, StageOfPool, Quiet
<1>e. \A i \in Lanes : lane[i].tree = "removed" => lane'[i] = lane[i]
  <2>1. ASSUME NEW i \in Rostered, pool.at = "submit" PROVE lane[i].tree = "present"
    <3>1. CASE full.stage = "probing" BY <2>1, <3>1 DEF StageOfPool, TreesKnown
    <3>2. CASE full.stage = "running"
      <4>1. full.batch \in Held BY <3>2, BatchNumbers DEF LeasesKnown, Held
      <4> QED BY <2>1, <3>2, <4>1 DEF StageOfPool, TreesKnown
    <3> QED BY <2>1, <3>1, <3>2 DEF StageOfPool
  <2>2. ASSUME NEW i \in Lanes, lane[i].future \in {"queued", "running"}
        PROVE  lane[i].tree # "removed"
    BY <2>2 DEF RemovedIsSafe, Quiet
  <2> QED BY <2>1, <2>2 DEF PoolMoves
<1>s. full.stage = "probing" => \A i \in Shards : lane'[i] = lane[i] /\ i \in Lanes
  BY <1>d, LanesAre DEF StageOfPool
<1>r. full.stage = "running" =>
        \A i \in Shards \ Batch(full.batch) : lane'[i] = lane[i] /\ i \in Lanes
  BY <1>d, LanesAre DEF StageOfPool
<1>n. full.stage \in Ended /\ full.permitted => \A i \in Lanes : lane'[i] = lane[i]
  BY <1>d DEF QuietWhenAllowed
<1>1. FullShape' /\ StageOfPool' /\ LeasesKnown'
  BY DEF FullShape, StageOfPool, PoolMoves, LeasesKnown
<1>2. QuietWhenAllowed' BY <1>d, <1>n DEF QuietWhenAllowed
<1>3. TreesKnown'
  <2>1. \A b \in BatchIds : Batch(b) \subseteq Lanes BY BatchesPartition, LanesAre
  <2>2. \A b \in BatchIds : \A i \in Batch(b) : lane'[i].tree = lane[i].tree BY <2>1
  <2>3. (\A b \in BatchIds : lease[b] = "removed" => \A i \in Batch(b) : lane[i].tree = "removed")'
    BY <2>2 DEF TreesKnown
  <2>4. (\A b \in Held :
          /\ ~(full.stage = "materialize" /\ b = full.batch)
          /\ ~(full.stage = "removing" /\ b = Max(ToRelease))
          => \A i \in Batch(b) : lane[i].tree = "present")'
    <3>1. Held \subseteq BatchIds BY DEF Held
    <3> QED BY <2>2, <3>1 DEF TreesKnown
  <2>5. (full.stage = "probing" => \A i \in Probes : lane[i].tree = "present")'
    BY LanesAre DEF TreesKnown
  <2>6. (full.stage = "removing" => \A i \in Batch(Max(ToRelease)) : lane[i].tree = "removed")'
    OBVIOUS
  <2> QED BY <2>3, <2>4, <2>5, <2>6 DEF TreesKnown
<1>4. RemovedIsSafe' BY <1>e DEF RemovedIsSafe
<1>5. LogsKnown'
  <2>1. (full.stage \in Executing \cup Releases /\ full.then = "next" =>
           \A i \in Shards \ Batch(full.batch) : LogsKept(i))'
    BY <1>r DEF LogsKnown
  <2>2. (\/ full.stage \in Preparations \cup {"dispatch", "removing", "final"}
         \/ full.stage \in {"drift", "release"} \cup Ended /\ full.permitted
         \/ full.stage = "proving" /\ full.was
         => \A i \in Shards : LogsKept(i))'
    BY <1>s, <1>n, LanesAre DEF LogsKnown
  <2> QED BY <2>1, <2>2 DEF LogsKnown
<1>6. ShardsKnown'
  <2>1. CASE full.stage = "probing" BY <1>s, <2>1 DEF ShardsKnown
  <2>2. CASE full.stage = "running"
    <3>1. \A i \in Batch(full.batch) : lane'[i].reports = 0 /\ i \notin full.failed
      BY <2>2, BatchesPartition, LanesAre DEF ShardsKnown
    <3>2. ASSUME NEW b \in BatchIds, NEW i \in Batch(b), b # full.batch
          PROVE  /\ lane'[i] = lane[i] /\ (Unrun(i)' <=> Unrun(i)) /\ (Judged(i)' <=> Judged(i))
      BY <1>r, <2>2, <3>2, BatchesPartition
    <3>3. (\A b \in BatchIds : \A i \in Batch(b) :
             /\ b < full.batch => lane[i].reports = 1 /\ Judged(i)
             /\ b > full.batch =>
                  /\ Unrun(i)
                  /\ ~Stopped => lane[i].reports = 0 /\ i \notin full.failed
                  /\ Stopped => lane[i].reports = 1 /\ i \in full.failed)'
      <4>1. ~Stopped /\ ~Stopped' BY <2>2 DEF Stopped
      <4>2. \A b \in BatchIds : \A i \in Batch(b) :
             /\ b < full.batch => lane[i].reports = 1 /\ Judged(i)
             /\ b > full.batch => Unrun(i) /\ lane[i].reports = 0 /\ i \notin full.failed
        BY <2>2, <4>1 DEF ShardsKnown, LeasesKnown
      <4>3. \A b \in BatchIds : b < full.batch \/ b > full.batch => b # full.batch
        BY BatchNumbers
      <4> QED BY <3>2, <4>1, <4>2, <4>3
    <3> QED BY <2>2, <3>1, <3>3 DEF ShardsKnown
  <2>3. CASE full.stage \in Ended BY <2>3 DEF ShardsKnown
  <2> QED BY <2>1, <2>2, <2>3
<1>7. VerdictKnown'
  <2>1. \A i \in Shards : Outcome(i).ok => Outcome(i)'.ok
    BY <1>d, LanesAre DEF Outcome, NotStarted, Result
  <2> QED BY <2>1, LanesAre DEF VerdictKnown
<1> QED BY <1>1, <1>2, <1>3, <1>4, <1>5, <1>6, <1>7
-----------------------------------------------------------------------------
LEMMA FullRunStarts == ParallelFullInit => FullRunInv
<1> SUFFICES ASSUME ParallelFullInit PROVE FullRunInv OBVIOUS
<1>1. PICK failFast \in BOOLEAN :
        full = [stage |-> "begin", batch |-> 1, permitted |-> TRUE, failFast |-> failFast,
                pending |-> <<>>, failed |-> {}, logsLost |-> FALSE, was |-> TRUE,
                then |-> "next", error |-> "none", aggregated |-> FALSE, ok |-> FALSE]
  BY DEF ParallelFullInit
<1>2. /\ full.stage = "begin" /\ full.batch = 1 /\ full.permitted = TRUE /\ full.failed = {}
      /\ full.then = "next" /\ full.error = "none" /\ full.aggregated = FALSE /\ full.ok = FALSE
      /\ full \in FullLocals
  <2>1. <<>> \in Seq(Shards) /\ 1 \in BatchIds /\ "begin" \in FullStages
    BY BatchNumbers DEF FullStages
  <2> QED BY <1>1, <2>1 DEF FullLocals
<1>3. /\ pool = NoPool /\ late = FALSE /\ <<>> \in Seq(Lanes)
      /\ lease = [b \in BatchIds |-> "none"] /\ place = [root |-> "owned", edited |-> FALSE]
  BY DEF ParallelFullInit, ParallelShardsInit
<1>4. /\ lane \in [Lanes -> LaneRecords]
      /\ \A i \in Lanes :
           /\ lane[i].future = "none" /\ lane[i].out = NotStarted /\ lane[i].runs = 0
           /\ lane[i].alive = FALSE /\ lane[i].tree = "none" /\ lane[i].reports = 0
           /\ lane[i].logs = FALSE
  BY DEF ParallelFullInit, ParallelShardsInit, LaneRecords, WorkerResults
<1>5. \A i \in Lanes : Quiet(i) /\ Unrun(i) /\ LogsKept(i) BY <1>4 DEF Quiet, Unrun, LogsKept
<1>6. Held = {} /\ ~CleanupOwed BY <1>3 DEF Held, CleanupOwed
<1>7. PoolShape
  <2>1. NoPool \in [at : {"off", "submit", "wait", "take", "over", "unwind", "raised"},
                   roster : {<<>>}, limit : 1 .. 4, failFast : BOOLEAN, next : 1 .. 5,
                   flight : {{}}, done : {{}}, cancelled : BOOLEAN]
    BY DEF NoPool
  <2> QED BY <1>3, <2>1 DEF PoolShape
<1>8. LaneShape /\ FullShape BY <1>2, <1>3, <1>4 DEF LaneShape, FullShape
<1>9. FutureKnown BY <1>4 DEF FutureKnown, NotStarted, Result
<1>10. PoolKnown BY <1>3, <1>4 DEF PoolKnown, NoPool
<1>11. StageOfPool BY <1>2, <1>3 DEF StageOfPool, NoPool
<1>12. QuietWhenAllowed BY <1>2, <1>5 DEF QuietWhenAllowed
<1>13. LeasesKnown BY <1>2, <1>3, <1>6, BatchNumbers DEF LeasesKnown
<1>14. TreesKnown BY <1>2, <1>3, <1>6 DEF TreesKnown
<1>15. RemovedIsSafe BY <1>4 DEF RemovedIsSafe
<1>16. LogsKnown BY <1>2, <1>5, LanesAre DEF LogsKnown
<1>17. ShardsKnown BY <1>2, <1>4, <1>5, LanesAre DEF ShardsKnown
<1>18. VerdictKnown BY <1>2 DEF VerdictKnown
<1> QED BY <1>7, <1>8, <1>9, <1>10, <1>11, <1>12, <1>13, <1>14, <1>15, <1>16, <1>17, <1>18

\* Everything that raises.
LEMMA ExceptionKeeps ==
  ASSUME FullRunInv, FullFails \/ FullInterrupted \/ PoolRaised \/ ProbesFail \/ BatchUnquiet
                       \/ ReleaseFails
  PROVE  FullRunInv'
<1> DEFINE fails(error) ==
      /\ FailsWith(error) /\ UNCHANGED <<poolVars, place>>
      /\ \/ full.stage \in Fragile \cup Releases
         \/ full.stage = "final" /\ error = "interrupt"
         \/ full.stage \in {"probing", "running"} /\ pool.at \in {"over", "raised"}
<1>1. CASE FullFails
  <2>1. fails("error") BY <1>1 DEF FullFails
  <2> QED BY <2>1, FailingKeeps
<1>2. CASE FullInterrupted
  <2>1. fails("interrupt") BY <1>2 DEF FullInterrupted
  <2> QED BY <2>1, FailingKeeps
<1>3. CASE PoolRaised
  <2>1. PICK error \in {"error", "interrupt"} : fails(error) BY <1>3 DEF PoolRaised
  <2> QED BY <2>1, FailingKeeps
<1>4. CASE ProbesFail
  <2>1. fails("error") BY <1>4 DEF ProbesFail, PoolReturns
  <2> QED BY <2>1, FailingKeeps
<1>5. CASE BatchUnquiet
  <2>1. fails("error") BY <1>5 DEF BatchUnquiet, PoolReturns
  <2> QED BY <2>1, FailingKeeps
<1>6. CASE ReleaseFails
  <2>1. fails("error") BY <1>6 DEF ReleaseFails, Released
  <2> QED BY <2>1, FailingKeeps
<1> QED BY <1>1, <1>2, <1>3, <1>4, <1>5, <1>6

\* Every step of the pool and of its workers.
LEMMA ShardsKeep ==
  ASSUME FullRunInv, ParallelShardsNext, UNCHANGED <<full, lease, place>>
  PROVE  FullRunInv'
<1>1. PoolShape /\ LaneShape /\ FutureKnown /\ PoolKnown /\ UNCHANGED full OBVIOUS
<1>2. UNCHANGED late
  BY DEF ParallelShardsNext, Submit, SubmitEnds, WaitTurn, TakeEnds, PoolInterrupted,
     PoolUnwinds,
     ShardSkipped, ShardStarts, ShardReturns, TakeResult
<1>3. PoolMoves
  <2>1. CASE Submit BY <1>1, <2>1, SubmitMoves
  <2>2. CASE SubmitEnds \/ TakeEnds \/ PoolUnwinds \/ \E i \in Lanes : TakeResult(i)
    BY <1>1, <2>2, CallerMoves
  <2>3. CASE WaitTurn BY <1>1, <2>3, WaitMoves
  <2>4. CASE PoolInterrupted BY <1>1, <2>4, InterruptMoves
  <2>5. CASE \E i \in Lanes : ShardSkipped(i) \/ ShardStarts(i) \/ ShardReturns(i)
    <3>1. PICK i \in Lanes : ShardSkipped(i) \/ ShardStarts(i) \/ ShardReturns(i) BY <2>5
    <3> QED BY <1>1, <3>1, WorkerMoves
  <2> QED BY <2>1, <2>2, <2>3, <2>4, <2>5 DEF ParallelShardsNext
<1> QED BY <1>2, <1>3, PoolMovesKeeps

LEMMA FullRunSteps ==
  ASSUME FullRunInv, [ParallelFullNext]_fullVars
  PROVE  FullRunInv'
<1>1. late \in BOOLEAN BY DEF PoolShape
<1>2. CASE UNCHANGED fullVars BY <1>1, <1>2, NothingMovesKeeps DEF fullVars, poolVars
<1>3. CASE SuiteDeadlinePasses BY <1>3, NothingMovesKeeps DEF SuiteDeadlinePasses
<1>4. CASE WorkspaceIsEdited BY <1>4, WorkspaceIsEditedKeeps
<1>5. CASE FullFails \/ FullInterrupted \/ PoolRaised \/ ProbesFail \/ BatchUnquiet \/ ReleaseFails
  BY <1>5, ExceptionKeeps
<1>6. CASE DeadlineAtStart BY <1>6, DeadlineAtStartKeeps
<1>7. CASE FullBegins BY <1>7, FullBeginsKeeps
<1>8. CASE CapturedSourceMatches BY <1>8, CapturedSourceMatchesKeeps
<1>9. CASE LeaseTaken BY <1>9, LeaseTakenKeeps
<1>10. CASE BatchMaterialized BY <1>10, BatchMaterializedKeeps
<1>11. CASE MaterializersFail BY <1>11, MaterializersFailKeeps
<1>12. CASE BatchFrozen BY <1>12, LastBatchFrozenKeeps, OneBatchFrozenKeeps
<1>13. CASE CommandUnresolved BY <1>13, CommandUnresolvedKeeps
<1>14. CASE PreflightComplete BY <1>14, PreflightCompleteKeeps
<1>15. CASE ProbesStart BY <1>15, ProbesStartKeeps
<1>16. CASE ProbesPass BY <1>16, ProbesPassKeeps
<1>17. CASE BatchDispatched BY <1>17, BatchDispatchedKeeps
<1>18. CASE BatchReturns BY <1>18, BatchReturnsKeeps
<1>19. CASE ShardReported BY <1>19, ShardReportedKeeps
<1>20. CASE BatchReported BY <1>20, GoodBatchReportedKeeps, FailedBatchReportedKeeps
<1>21. CASE LogsCollected BY <1>21, LogsCollectedKeeps
<1>22. CASE LogsNotCollected BY <1>22, LogsNotCollectedKeeps
<1>23. CASE BatchClosed BY <1>23, BatchClosedKeeps
<1>24. CASE SourceStillMatches BY <1>24, SourceStillMatchesKeeps
<1>25. CASE \E b \in BatchIds : LeaseRetained(b) \/ LeaseRemovalStarts(b)
  BY <1>25, LeaseRetainedKeeps, LeaseRemovalStartsKeeps
<1>26. CASE LeaseRemoved BY <1>26, LeaseRemovedKeeps
<1>27. CASE LeaseRemovalFails BY <1>27, LeaseRemovalFailsKeeps
<1>28. CASE NextBatch BY <1>28, NoBatchLeftKeeps, BatchLeftKeeps
<1>29. CASE Aggregated BY <1>29, AggregatedKeeps
<1>30. CASE FinalProof BY <1>30, FinalProofKeeps
<1>31. CASE FinalProofFails BY <1>31, FinalProofFailsKeeps
<1>32. CASE FullConcludes BY <1>32, FullConcludesKeeps
<1>33. CASE ParallelShardsNext /\ UNCHANGED <<full, lease, place>> BY <1>33, ShardsKeep
<1> QED BY <1>2, <1>3, <1>4, <1>5, <1>6, <1>7, <1>8, <1>9, <1>10, <1>11, <1>12, <1>13, <1>14,
     <1>15, <1>16, <1>17, <1>18, <1>19, <1>20, <1>21, <1>22, <1>23, <1>24, <1>25, <1>26,
     <1>27, <1>28, <1>29, <1>30, <1>31, <1>32, <1>33 DEF ParallelFullNext

\* What run_parallel_full_checks believes of its batches, of their directories and of
\* the processes in them is so in every state, for any number of jobs: its permission to
\* clean up stands only while nothing runs and nothing is unsaved, its leases follow its
\* batches, and every shard of a batch that is over was reported and judged.
THEOREM FullRunInvariant == ParallelFullSpec => []FullRunInv
<1>1. ParallelFullInit => FullRunInv BY FullRunStarts
<1>2. FullRunInv /\ [ParallelFullNext]_fullVars => FullRunInv' BY FullRunSteps
<1> QED BY <1>1, <1>2, PTL DEF ParallelFullSpec

\* For any number of jobs, whatever fails, is interrupted or takes too long: a full run
\* deletes a workspace only when nothing runs in it and the logs of its failure are
\* saved, aggregates every shard of the plan exactly once, and says ok only of a run in
\* which each of them ran, passed and left nothing behind, on a source that stayed as it
\* was.
THEOREM FullRunIsAccounted == ParallelFullSpec => []FullRunAccounted
<1>1. ASSUME FullRunInv PROVE FullRemovesOnlySafely
  BY <1>1 DEF RemovedIsSafe, FullRemovesOnlySafely, Quiet, LogsKept
<1>2. ASSUME FullRunInv PROVE FullOkIsEarned
  <2>1. full.aggregated => \A i \in Shards : lane[i].reports = 1 BY <1>2 DEF VerdictKnown
  <2>2. ASSUME full.stage = "done", full.ok
        PROVE  /\ ~place.edited /\ place.root = "removed" /\ ~CleanupOwed
               /\ \A i \in Shards : Outcome(i).ok /\ lane[i].tree = "removed"
    <3>1. /\ \A b \in BatchIds : lease[b] = "removed"
          /\ \A i \in Shards : Outcome(i).ok
          /\ ~place.edited /\ place.root = "removed"
      BY <1>2, <2>2 DEF VerdictKnown
    <3> QED BY <1>2, <3>1, BatchesPartition DEF TreesKnown, CleanupOwed
  <2>3. ASSUME NEW i \in Shards, Outcome(i).ok, lane[i].tree = "removed"
        PROVE  lane[i].runs = 1 /\ ~lane[i].alive
    BY <1>2, <2>3, LanesAre DEF FutureKnown, RemovedIsSafe, Quiet, Outcome, NotStarted,
       Result
  <2> QED BY <2>1, <2>2, <2>3 DEF FullOkIsEarned
<1> QED BY <1>1, <1>2, FullRunInvariant, PTL DEF FullRunAccounted

=============================================================================
