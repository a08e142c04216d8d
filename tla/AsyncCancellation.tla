--------------------------- MODULE AsyncCancellation ---------------------------
(***************************************************************************)
(* GFCancellationSource with its token, and GFAsyncCompletion              *)
(* (addons/gf/kernel/core/): a cancelled token tells the sources linked to *)
(* it and the completions bound to it, which are cancelled in their turn.  *)
(*                                                                         *)
(* All of it is on the main thread, and every signal has handlers that may *)
(* cancel, link, bind, complete or dispose anything in the middle of the   *)
(* telling.  A signal goes to those who were connected when it was         *)
(* emitted, in some order; the engine may leave out who was disconnected   *)
(* meanwhile, or not.  Abstracted: reasons, results and metadata, which    *)
(* the first one to cancel or complete sets, weak references (who is bound *)
(* holds its token), and calls from other threads, which are refused.      *)
(***************************************************************************)
EXTENDS Integers, Sequences

CONSTANTS
  Sources,      \* GFCancellationSource objects, each with one token
  Completions,  \* GFAsyncCompletion objects
  Unbound       \* no token

ASSUME CancellationAssumption ==
  Unbound \notin Sources /\ Sources \cap Completions = {}

VARIABLES
  issuer,     \* is the token cancelled, the source disposed; whom is it linked to
  completion, \* its status and the token it is bound to
  telling     \* the emissions of cancel_requested under way, the inner ones last

cancellationVars == <<issuer, completion, telling>>

Emissions == [token : Sources, rest : SUBSET (Sources \cup Completions)]

Terminal == {"SUCCEEDED", "FAILED", "CANCELLED"}

CancellationInit ==
  /\ issuer = [s \in Sources |-> [cancelled |-> FALSE, disposed |-> FALSE, links |-> {}]]
  /\ completion = [c \in Completions |-> [status |-> "PENDING", token |-> Unbound]]
  /\ telling = <<>>

CancellationTypeOK ==
  /\ issuer \in [Sources -> [cancelled : BOOLEAN, disposed : BOOLEAN,
                             links : SUBSET Sources]]
  /\ completion \in [Completions -> [status : {"PENDING"} \cup Terminal,
                                     token : Sources \cup {Unbound}]]
  /\ telling \in Seq(Emissions)

-----------------------------------------------------------------------------
\* Who is connected to cancel_requested of a token.
Connected(s) == {q \in Sources : s \in issuer[q].links}
                  \cup {c \in Completions : completion[c].token = s}

\* GFCancellationSource.cancel with request_cancel_internal: by its owner, a timeout
\* or a node that leaves the tree, and by an upstream token.
CancelSource(s, inner) ==
  IF issuer[s].disposed \/ issuer[s].cancelled
  THEN telling' = inner /\ UNCHANGED issuer
  ELSE /\ issuer' = [issuer EXCEPT ![s].cancelled = TRUE]
       /\ telling' = Append(inner, [token |-> s, rest |-> Connected(s)])

SomebodyCancels(s) ==
  /\ ~issuer[s].disposed /\ ~issuer[s].cancelled
  /\ CancelSource(s, telling)
  /\ UNCHANGED completion

\* link_token
LinkToken(q, s) ==
  /\ q # s /\ ~issuer[q].disposed /\ ~issuer[q].cancelled /\ s \notin issuer[q].links
  /\ IF issuer[s].cancelled
     THEN CancelSource(q, telling)
     ELSE issuer' = [issuer EXCEPT ![q].links = @ \cup {s}] /\ UNCHANGED telling
  /\ UNCHANGED completion

DisposeSource(s) ==
  /\ ~issuer[s].disposed
  /\ issuer' = [issuer EXCEPT ![s].disposed = TRUE, ![s].links = {}]
  /\ UNCHANGED <<completion, telling>>

-----------------------------------------------------------------------------
\* succeed, fail and cancel: the first one sets the status.
Completed(c, status) ==
  completion' = [completion EXCEPT ![c] = [status |-> status, token |-> Unbound]]

SomebodyCompletes(c, status) ==
  /\ completion[c].status = "PENDING"
  /\ Completed(c, status)
  /\ UNCHANGED <<issuer, telling>>

\* bind_cancel_token: the last token it was given.
BindToken(c, s) ==
  /\ completion[c].status = "PENDING"
  /\ IF issuer[s].cancelled
     THEN Completed(c, "CANCELLED")
     ELSE completion' = [completion EXCEPT ![c].token = s]
  /\ UNCHANGED <<issuer, telling>>

-----------------------------------------------------------------------------
Emission == telling[Len(telling)]
Outer == SubSeq(telling, 1, Len(telling) - 1)
Told(r) == Append(Outer, [Emission EXCEPT !.rest = @ \ {r}])

\* The completion is cancelled by any token that it was bound to.
FaultCompletionIsTold(c) ==
  /\ telling # <<>> /\ c \in Emission.rest
  /\ IF completion[c].status = "PENDING"
     THEN Completed(c, "CANCELLED") ELSE UNCHANGED completion
  /\ telling' = Told(c)
  /\ UNCHANGED issuer

\* _apply_cancel_token_request
CompletionIsTold(c) ==
  /\ telling # <<>> /\ c \in Emission.rest
  /\ IF completion[c].token = Emission.token
     THEN Completed(c, "CANCELLED") ELSE UNCHANGED completion
  /\ telling' = Told(c)
  /\ UNCHANGED issuer

\* _on_linked_token_cancelled
SourceIsTold(q) ==
  /\ telling # <<>> /\ q \in Emission.rest
  /\ CancelSource(q, Told(q))
  /\ UNCHANGED completion

\* The rest of cancel(): the connections to upstream tokens are given up.
TellingEnds ==
  /\ telling # <<>> /\ Emission.rest = {}
  /\ issuer' = [issuer EXCEPT ![Emission.token].links = {}]
  /\ telling' = Outer
  /\ UNCHANGED completion

CancellationNext ==
  \/ \E s \in Sources :
       \/ SomebodyCancels(s) \/ DisposeSource(s) \/ SourceIsTold(s)
       \/ \E q \in Sources : LinkToken(q, s)
       \/ \E c \in Completions : BindToken(c, s)
  \/ \E c \in Completions :
       CompletionIsTold(c) \/ \E status \in Terminal : SomebodyCompletes(c, status)
  \/ TellingEnds

CancellationSpec == CancellationInit /\ [][CancellationNext]_cancellationVars

-----------------------------------------------------------------------------
\* Whatever handlers do meanwhile, a cancellation reaches everybody who depends on
\* it, and nobody else: who is linked or bound to a cancelled token and has not
\* ended has yet to be told, so that nobody is left when all have been told; a
\* completion ends once, and is cancelled by the token it is bound to, not by one
\* that it was bound to before.
YetToTell(r, s) == \E n \in DOMAIN telling : telling[n].token = s /\ r \in telling[n].rest

NobodyForgotten ==
  \A s \in Sources : issuer[s].cancelled =>
    \A r \in Connected(s) : YetToTell(r, s) \/ (r \in Sources /\ issuer[r].cancelled)

CancelledByItsToken ==
  \A c \in Completions : completion'[c] # completion[c] =>
    /\ completion[c].status = "PENDING"
    /\ telling' # telling => completion[c].token = Emission.token

CancellationArrives == []NobodyForgotten /\ [][CancelledByItsToken]_cancellationVars
=============================================================================
