---------------------------- MODULE LspDiagnostics ----------------------------
(***************************************************************************)
(* main() of src/tools/gdscript_lsp_diagnostics.py: a Godot language       *)
(* server is found at a port or spawned at a reserved one, the connection  *)
(* is proven to be the spawned server's, the server to serve this project, *)
(* and every script is opened and waited for, the late ones again.  The    *)
(* exit code and the claimed authority must follow from what the right     *)
(* server said of the right text, and no server may be left behind.        *)
(*                                                                         *)
(* The server answers when it likes, more than once or not at all; anybody *)
(* may listen at the port; the spawned server may exit, its deadline pass, *)
(* every step fail and KeyboardInterrupt strike at each of them.  Bounds:  *)
(* WireBound messages on their way, MaxTextEdits edits of the scripts.     *)
(***************************************************************************)
EXTENDS Integers, Sequences

CONSTANTS ScriptCount, Retries, WireBound, MaxTextEdits

ASSUME LspAssumption ==
  /\ ScriptCount \in Nat \ {0} /\ Retries \in Nat /\ WireBound \in Nat \ {0}
  /\ MaxTextEdits \in Nat

VARIABLES
  lsp,      \* the locals of main() and of the scan
  server,   \* the port and who listens there; the lease and its process tree
  link,     \* the connection: to whom, whether it stands, what is on its way
  opened,   \* the didOpen notifications sent: script, version and text
  answers,  \* per script the notification whose answer was taken, or 0
  texts,    \* the scripts as they are, and how often they were edited
  ending    \* how main() ends

lspVars == <<lsp, server, link, opened, answers, texts, ending>>

Scripts == 1 .. ScriptCount
Texts == {"clean", "failing"}
Linked(to, up) == [to |-> to, up |-> up, wire |-> <<>>]
Unlinked == Linked("none", FALSE)
Handshake == {"initialize", "probe"}
InTry == {"reserve", "connect", "identify", "open", "wait", "close", "report"} \cup Handshake
Steps == InTry \cup {"ambient", "start", "stop", "decide", "settle", "write", "ended"}

LspInit ==
  /\ \E mode \in {"spawn", "connect_or_spawn", "connect"} :
       lsp = [mode |-> mode, step |-> IF mode = "spawn" THEN "reserve" ELSE "ambient",
              spawned |-> FALSE, script |-> 1, todo |-> Scripts, timedOut |-> {},
              attempt |-> 0, error |-> "none", debt |-> FALSE]
  /\ \E project, versions \in BOOLEAN :
       server = [port |-> "nobody", project |-> project, versions |-> versions,
                 tree |-> "absent", lease |-> FALSE, expired |-> FALSE]
  /\ link = Unlinked /\ opened = <<>> /\ answers = [s \in Scripts |-> 0]
  /\ \E text \in [Scripts -> Texts] : texts = [now |-> text, edits |-> 0]
  /\ ending = [kind |-> "none", owned |-> FALSE, debt |-> FALSE]

Locals ==
  [mode : {"spawn", "connect_or_spawn", "connect"}, step : Steps, spawned : BOOLEAN,
   script : Scripts, todo : SUBSET Scripts, timedOut : SUBSET Scripts,
   attempt : 0 .. Retries, error : {"none", "failure", "interrupt"}, debt : BOOLEAN]

Servers ==
  [port : {"nobody", "own", "other"}, project : BOOLEAN, versions : BOOLEAN,
   tree : {"absent", "running", "exited", "gone"}, lease : BOOLEAN, expired : BOOLEAN]

Links == [to : {"none", "own", "other"}, up : BOOLEAN, wire : Seq(Nat)]
Openings == [script : Scripts, version : Nat, text : Texts]

Endings ==
  [kind : {"none", "raised", "tool_error", "timeouts", "failing", "ok"},
   owned : BOOLEAN, debt : BOOLEAN]

LspTypeOK ==
  /\ lsp \in Locals /\ server \in Servers /\ ending \in Endings
  /\ opened \in Seq(Openings) /\ answers \in [Scripts -> {0} \cup DOMAIN opened]
  /\ link \in Links /\ Len(link.wire) <= WireBound
  /\ \A i \in DOMAIN link.wire : link.wire[i] \in DOMAIN opened
  /\ texts \in [now : [Scripts -> Texts], edits : 0 .. MaxTextEdits]

-----------------------------------------------------------------------------
\* Godot, other programs and the person at the keyboard.
LspOver == lsp.step = "ended"
Dropped(whose) == IF link.to = whose THEN [link EXCEPT !.up = FALSE] ELSE link

OtherListens ==
  /\ ~LspOver /\ server.port = "nobody"
  /\ server' = [server EXCEPT !.port = "other"]
  /\ UNCHANGED <<lsp, link, opened, answers, texts, ending>>

OtherLeaves ==
  /\ ~LspOver /\ server.port = "other"
  /\ server' = [server EXCEPT !.port = "nobody"] /\ link' = Dropped("other")
  /\ UNCHANGED <<lsp, opened, answers, texts, ending>>

OwnListens ==
  /\ server.tree = "running" /\ server.port = "nobody"
  /\ server' = [server EXCEPT !.port = "own"]
  /\ UNCHANGED <<lsp, link, opened, answers, texts, ending>>

OwnExits ==
  /\ server.tree = "running"
  /\ server' = [server EXCEPT !.tree = "exited", !.port = IF @ = "own" THEN "nobody" ELSE @]
  /\ link' = Dropped("own")
  /\ UNCHANGED <<lsp, opened, answers, texts, ending>>

OperationDeadlinePasses ==
  /\ server.tree = "running" /\ ~server.expired
  /\ server' = [server EXCEPT !.expired = TRUE]
  /\ UNCHANGED <<lsp, link, opened, answers, texts, ending>>

ConnectionBreaks ==
  /\ ~LspOver /\ link.up
  /\ link' = [link EXCEPT !.up = FALSE]
  /\ UNCHANGED <<lsp, server, opened, answers, texts, ending>>

Publishes(n) ==
  /\ ~LspOver /\ link.up /\ Len(link.wire) < WireBound
  /\ link' = [link EXCEPT !.wire = Append(@, n)]
  /\ UNCHANGED <<lsp, server, opened, answers, texts, ending>>

ScriptEdited(s) ==
  /\ ~LspOver /\ texts.edits < MaxTextEdits
  /\ \E text \in Texts \ {texts.now[s]} :
       texts' = [now |-> [texts.now EXCEPT ![s] = text], edits |-> texts.edits + 1]
  /\ UNCHANGED <<lsp, server, link, opened, answers, ending>>

-----------------------------------------------------------------------------
\* checkpoint(): the lease of the owned server is healthy, its deadline ahead.
Healthy == lsp.spawned => server.tree = "running" /\ ~server.expired

To(step) == [lsp EXCEPT !.step = step]
Failing(error) == [lsp EXCEPT !.step = "stop", !.error = error]

\* close(): what was on its way is lost.
Closed == Linked(link.to, FALSE)

\* Only a server found at the port may be given up for one of one's own.
MayFallBack == lsp.mode = "connect_or_spawn" /\ ~lsp.spawned

AmbientConnects ==
  /\ lsp.step = "ambient" /\ server.port # "nobody"
  /\ link' = Linked(server.port, TRUE)
  /\ lsp' = To("initialize")
  /\ UNCHANGED <<server, opened, answers, texts, ending>>

AmbientMissing ==
  /\ lsp.step = "ambient"
  /\ \/ MayFallBack /\ lsp' = To("reserve")
     \/ lsp.mode = "connect" /\ lsp' = Failing("failure")
     \/ lsp' = Failing("interrupt")
  /\ UNCHANGED <<server, link, opened, answers, texts, ending>>

\* The port is free when it is reserved, and anybody's from then on.
PortReserved ==
  /\ lsp.step = "reserve"
  /\ server' = [server EXCEPT !.port = "nobody"]
  /\ lsp' = To("start")
  /\ UNCHANGED <<link, opened, answers, texts, ending>>

Started ==
  /\ lsp.step = "start"
  /\ server' = [server EXCEPT !.tree = "running", !.lease = TRUE]
  /\ lsp' = [lsp EXCEPT !.step = "connect", !.spawned = TRUE]
  /\ UNCHANGED <<link, opened, answers, texts, ending>>

\* An error after the lease was published, before it, or with cleanup owed.
StartFails ==
  /\ lsp.step = "start"
  /\ \E published, debt \in BOOLEAN, error \in {"failure", "interrupt"} :
       /\ ~(published /\ debt)
       /\ lsp' = [Failing(error) EXCEPT !.debt = debt]
       /\ server' = [server EXCEPT !.lease = published,
                                   !.tree = IF published \/ debt THEN "running" ELSE @]
  /\ UNCHANGED <<link, opened, answers, texts, ending>>

OwnedConnects ==
  /\ lsp.step = "connect" /\ Healthy /\ server.port # "nobody"
  /\ link' = Linked(server.port, TRUE)
  /\ lsp' = To("identify")
  /\ UNCHANGED <<server, opened, answers, texts, ending>>

\* The kernel names the owner of the other end; a mismatch raises (TryFails).
Identified ==
  /\ lsp.step = "identify" /\ Healthy /\ link.up /\ link.to = "own"
  /\ lsp' = To("initialize")
  /\ UNCHANGED <<server, link, opened, answers, texts, ending>>

Initialized ==
  /\ lsp.step = "initialize" /\ Healthy /\ link.up
  /\ lsp' = To("probe")
  /\ UNCHANGED <<server, link, opened, answers, texts, ending>>

\* A server of another project resolves the probe elsewhere (TryFails, FallsBack).
WorkspaceVerified ==
  /\ lsp.step = "probe" /\ Healthy /\ link.up /\ (link.to = "own" \/ server.project)
  /\ lsp' = To("open")
  /\ UNCHANGED <<server, link, opened, answers, texts, ending>>

FallsBack ==
  /\ lsp.step \in Handshake /\ MayFallBack
  /\ link' = Unlinked /\ lsp' = To("reserve")
  /\ UNCHANGED <<server, opened, answers, texts, ending>>

TryFails ==
  /\ lsp.step \in InTry
  /\ \/ lsp' = Failing("interrupt")
     \/ ~(lsp.step \in Handshake /\ MayFallBack) /\ lsp' = Failing("failure")
  /\ link' = Closed
  /\ UNCHANGED <<server, opened, answers, texts, ending>>

-----------------------------------------------------------------------------
\* Fault: a script has the same version in every pass
VersionOfScript(s) == s

\* next_version: unique over all passes of the call.
NextVersion(s) == Len(opened) + 1

ScriptOpened ==
  /\ lsp.step = "open" /\ Healthy /\ link.up
  /\ \E s \in lsp.todo :
       /\ \A t \in lsp.todo : s <= t
       /\ opened' = Append(opened, [script |-> s, version |-> NextVersion(s),
                                    text |-> texts.now[s]])
       /\ lsp' = [lsp EXCEPT !.step = "wait", !.script = s]
  /\ UNCHANGED <<server, link, answers, texts, ending>>

\* A message without a version counts as an answer to the last one sent.
Answers(n) ==
  /\ opened[n].script = lsp.script
  /\ server.versions => opened[n].version = opened[Len(opened)].version

MessageReceived ==
  /\ lsp.step = "wait" /\ Healthy /\ link.wire # <<>>
  /\ link' = [link EXCEPT !.wire = Tail(@)]
  /\ IF Answers(Head(link.wire))
       THEN /\ answers' = [answers EXCEPT ![lsp.script] = Head(link.wire)]
            /\ lsp' = To("close")
       ELSE UNCHANGED <<answers, lsp>>
  /\ UNCHANGED <<server, opened, texts, ending>>

FileTimesOut ==
  /\ lsp.step = "wait" /\ Healthy
  /\ lsp' = [lsp EXCEPT !.step = "close", !.timedOut = @ \cup {lsp.script}]
  /\ UNCHANGED <<server, link, opened, answers, texts, ending>>

\* didClose, left out past the deadline, and on to the next script, the next pass
\* or the report.
ScriptClosed ==
  /\ lsp.step = "close" /\ ((link.up /\ Healthy) \/ (lsp.spawned /\ server.expired))
  /\ LET left == lsp.todo \ {lsp.script} IN
       lsp' = IF left # {} THEN [lsp EXCEPT !.step = "open", !.todo = left]
              ELSE IF lsp.timedOut = {} \/ lsp.attempt = Retries THEN To("report")
              ELSE [lsp EXCEPT !.step = "open", !.todo = lsp.timedOut, !.timedOut = {},
                               !.attempt = @ + 1]
  /\ UNCHANGED <<server, link, opened, answers, texts, ending>>

Reported ==
  /\ lsp.step = "report"
  /\ lsp' = To("stop") /\ link' = Closed
  /\ UNCHANGED <<server, opened, answers, texts, ending>>

-----------------------------------------------------------------------------
\* Fault: only a start that returned leaves something to stop
StopsSpawned == lsp.spawned

HasLease == server.lease

NothingToStop ==
  /\ lsp.step = "stop" /\ ~HasLease
  /\ lsp' = To("decide")
  /\ UNCHANGED <<server, link, opened, answers, texts, ending>>

Raised(debt) == [kind |-> "raised", owned |-> FALSE, debt |-> debt]

\* stop() proves the tree gone.  It may still refuse the result, or be interrupted.
StopsQuietly ==
  /\ lsp.step = "stop" /\ HasLease
  /\ server' = [server EXCEPT !.tree = "gone", !.port = IF @ = "own" THEN "nobody" ELSE @]
  /\ \/ lsp' = To("decide") /\ UNCHANGED ending
     \/ lsp' = To("ended") /\ ending' = Raised(FALSE)
  /\ UNCHANGED <<link, opened, answers, texts>>

StopOwesCleanup ==
  /\ lsp.step = "stop" /\ HasLease
  /\ lsp' = To("settle")
  /\ UNCHANGED <<server, link, opened, answers, texts, ending>>

\* The bounded wait for the deferred cleanup; only an interruption of the wait
\* that finds it complete ends the call without naming the debt.
Settled ==
  /\ lsp.step = "settle"
  /\ \E complete, interrupted \in BOOLEAN :
       /\ server' = [server EXCEPT !.tree = IF complete THEN "gone" ELSE @,
                                   !.port = IF complete /\ @ = "own" THEN "nobody" ELSE @]
       /\ ending' = Raised(~(complete /\ interrupted))
  /\ lsp' = To("ended")
  /\ UNCHANGED <<link, opened, answers, texts>>

Decided ==
  /\ lsp.step = "decide"
  /\ \/ lsp.debt /\ lsp' = To("settle") /\ UNCHANGED ending
     \/ ~lsp.debt /\ lsp.error = "none" /\ lsp' = To("write") /\ UNCHANGED ending
     \/ /\ ~lsp.debt /\ lsp.error # "none" /\ lsp' = To("ended")
        /\ \/ ending' = Raised(FALSE)
           \/ lsp.error = "failure" /\ ending' = [ending EXCEPT !.kind = "tool_error"]
  /\ UNCHANGED <<server, link, opened, answers, texts>>

\* The exit code of the report that was made and could be written.
Verdict ==
  IF lsp.timedOut # {} THEN "timeouts"
  ELSE IF \E s \in Scripts : opened[answers[s]].text = "failing" THEN "failing" ELSE "ok"

ReportWritten ==
  /\ lsp.step = "write" /\ lsp' = To("ended")
  /\ ending' \in {[ending EXCEPT !.kind = Verdict, !.owned = lsp.spawned],
                  [ending EXCEPT !.kind = "tool_error"], Raised(FALSE)}
  /\ UNCHANGED <<server, link, opened, answers, texts>>

LspNext ==
  \/ OtherListens \/ OtherLeaves \/ OwnListens \/ OwnExits \/ OperationDeadlinePasses
  \/ ConnectionBreaks \/ \E n \in DOMAIN opened : Publishes(n)
  \/ \E s \in Scripts : ScriptEdited(s)
  \/ AmbientConnects \/ AmbientMissing \/ PortReserved \/ Started \/ StartFails
  \/ OwnedConnects \/ Identified \/ Initialized \/ WorkspaceVerified \/ FallsBack
  \/ TryFails \/ ScriptOpened \/ MessageReceived \/ FileTimesOut \/ ScriptClosed
  \/ Reported \/ NothingToStop \/ StopsQuietly \/ StopOwesCleanup \/ Settled
  \/ Decided \/ ReportWritten

LspSpec == LspInit /\ [][LspNext]_lspVars

-----------------------------------------------------------------------------
\* Exit code 0 is earned: every script was answered, for a notification of this
\* call with that script and an unobjectionable text; by a server of this project;
\* a server that publishes versions answered the last notification of the script;
\* and a report that claims authority is the spawned server's, whose tree is gone.
VerdictEarned ==
  ending.kind = "ok" =>
    /\ \A s \in Scripts :
         /\ answers[s] # 0 /\ opened[answers[s]].script = s /\ opened[answers[s]].text = "clean"
         /\ server.versions => \A n \in DOMAIN opened : opened[n].script = s => n <= answers[s]
    /\ link.to = "own" \/ server.project
    /\ ending.owned <=> link.to = "own"
    /\ ending.owned => server.tree = "gone"
    /\ lsp.mode = "spawn" => ending.owned

\* However main() ends, the spawned server's tree is gone, or the error that is
\* raised says that its cleanup is owed.
ServerSettled ==
  LspOver => server.tree \in {"absent", "gone"} \/ ending.debt
=============================================================================
