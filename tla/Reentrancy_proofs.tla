--------------------------- MODULE Reentrancy_proofs ---------------------------
(***************************************************************************)
(* Signals whose handlers call back into what emits them: proofs about     *)
(* AsyncCancellation (a cancellation reaches everybody who depends on it   *)
(* and nobody else, for any number of tokens, sources and completions),    *)
(* about JobQueue (the books are right and a result ends the job it        *)
(* belongs to, for any number of jobs), however deep the calls nest, and   *)
(* about DispatchQueue (it keeps the promise of DispatchPromise, for lines *)
(* of any length).                                                         *)
(***************************************************************************)
EXTENDS AsyncCancellation, JobQueue, DispatchQueue, SequenceTheorems, FiniteSetTheorems,
        WellFoundedInduction, TLAPS

(***************************************************************************)
(* AsyncCancellation.                                                      *)
(***************************************************************************)

\* Who ended or was disposed of depends on nobody.
LetGo ==
  /\ \A s \in Sources : issuer[s].disposed => issuer[s].links = {}
  /\ \A c \in Completions : completion[c].status # "PENDING" => completion[c].token = Unbound

CancellationInv == CancellationTypeOK /\ LetGo /\ NobodyForgotten

-----------------------------------------------------------------------------
\* The emissions under way, as the code's call stack.

USE DEF CancellationInv

\* The innermost emission, and what is left when it ends.
LEMMA EmissionOfStack ==
  ASSUME CancellationTypeOK, telling # <<>>
  PROVE  /\ Len(telling) \in Nat /\ Len(telling) > 0
         /\ DOMAIN telling = 1 .. Len(telling)
         /\ Emission \in Emissions
         /\ Outer \in Seq(Emissions)
         /\ Len(Outer) = Len(telling) - 1
         /\ DOMAIN Outer = 1 .. Len(telling) - 1
         /\ \A n \in 1 .. Len(telling) - 1 : Outer[n] = telling[n]
<1>1. telling \in Seq(Emissions) BY DEF CancellationTypeOK
<1>2. Len(telling) \in Nat /\ Len(telling) > 0 /\ DOMAIN telling = 1 .. Len(telling)
  BY <1>1, EmptySeq, LenProperties
<1>3. \A n \in 1 .. Len(telling) : telling[n] \in Emissions BY <1>1, ElementOfSeq
<1> DEFINE k == Len(telling) - 1
<1>4. k \in Nat /\ \A n \in 1 .. k : telling[n] \in Emissions BY <1>2, <1>3
<1>5. Outer = SubSeq(telling, 1, k) BY DEF Outer
<1>6. Emission \in Emissions BY <1>2, <1>3 DEF Emission
<1> HIDE DEF k
<1>7. /\ SubSeq(telling, 1, k) \in Seq(Emissions)
      /\ Len(SubSeq(telling, 1, k)) = IF 1 <= k THEN k - 1 + 1 ELSE 0
      /\ \A n \in 1 .. k - 1 + 1 : SubSeq(telling, 1, k)[n] = telling[1 + n - 1]
  BY <1>4, SubSeqProperties
<1>8. Len(Outer) = k BY <1>4, <1>5, <1>7
<1>9. DOMAIN Outer = 1 .. k BY <1>5, <1>7, <1>8, LenProperties
<1>10. ASSUME NEW n \in 1 .. k PROVE Outer[n] = telling[n]
  <2>1. n \in 1 .. k - 1 + 1 /\ 1 + n - 1 = n BY <1>4
  <2> QED BY <2>1, <1>5, <1>7
<1> QED BY <1>2, <1>5, <1>6, <1>7, <1>8, <1>9, <1>10 DEF k

\* A new emission tells its own, and takes nobody away from those under way.
LEMMA EmissionBegins ==
  ASSUME NEW inner \in Seq(Emissions), NEW e \in Emissions
  PROVE  /\ Append(inner, e) \in Seq(Emissions)
         /\ DOMAIN Append(inner, e) = 1 .. Len(inner) + 1
         /\ Len(inner) + 1 \in DOMAIN Append(inner, e)
         /\ DOMAIN inner = 1 .. Len(inner)
         /\ \A n \in DOMAIN inner : n \in DOMAIN Append(inner, e) /\ Append(inner, e)[n] = inner[n]
         /\ Append(inner, e)[Len(inner) + 1] = e
<1>1. /\ Append(inner, e) \in Seq(Emissions)
      /\ Len(Append(inner, e)) = Len(inner) + 1
      /\ \A i \in 1 .. Len(inner) : Append(inner, e)[i] = inner[i]
      /\ Append(inner, e)[Len(inner) + 1] = e
  BY AppendProperties
<1>2. Len(inner) \in Nat /\ DOMAIN inner = 1 .. Len(inner) BY LenProperties
<1>3. DOMAIN Append(inner, e) = 1 .. Len(inner) + 1 BY <1>1, LenProperties
<1> QED BY <1>1, <1>2, <1>3

-----------------------------------------------------------------------------
\* Whoever was to be told in a stack of emissions.
Waits(told, r, s) == \E n \in DOMAIN told : told[n].token = s /\ r \in told[n].rest

\* One handler was called: the others still wait.
LEMMA ToldOne ==
  ASSUME CancellationTypeOK, telling # <<>>, NEW q \in Emission.rest
  PROVE  /\ Told(q) \in Seq(Emissions)
         /\ \A r, s : Waits(telling, r, s) =>
              Waits(Told(q), r, s) \/ (r = q /\ s = Emission.token)
<1> DEFINE e == [Emission EXCEPT !.rest = @ \ {q}]
<1>1. /\ Len(telling) \in Nat /\ Len(telling) > 0
      /\ DOMAIN telling = 1 .. Len(telling)
      /\ Emission \in Emissions
      /\ Outer \in Seq(Emissions)
      /\ Len(Outer) = Len(telling) - 1
      /\ \A n \in 1 .. Len(telling) - 1 : Outer[n] = telling[n]
  BY EmissionOfStack
<1>2. e \in Emissions /\ e.token = Emission.token /\ e.rest = Emission.rest \ {q}
  BY <1>1 DEF Emissions
<1> HIDE DEF e
<1>3. /\ Append(Outer, e) \in Seq(Emissions)
      /\ DOMAIN Append(Outer, e) = 1 .. Len(Outer) + 1
      /\ Len(Outer) + 1 \in DOMAIN Append(Outer, e)
      /\ DOMAIN Outer = 1 .. Len(Outer)
      /\ \A n \in DOMAIN Outer : n \in DOMAIN Append(Outer, e) /\ Append(Outer, e)[n] = Outer[n]
      /\ Append(Outer, e)[Len(Outer) + 1] = e
  BY <1>1, <1>2, EmissionBegins
<1>4. Told(q) = Append(Outer, e) BY DEF Told, e
<1>5. ASSUME NEW r, NEW s, Waits(telling, r, s)
      PROVE  Waits(Told(q), r, s) \/ (r = q /\ s = Emission.token)
  <2>1. PICK n \in DOMAIN telling : telling[n].token = s /\ r \in telling[n].rest
    BY <1>5 DEF Waits
  <2>2. CASE n = Len(telling)
    <3>1. telling[n] = Emission BY <2>2 DEF Emission
    <3>2. CASE r = q BY <2>1, <3>1, <3>2
    <3>3. CASE r # q
      <4>1. e.token = s /\ r \in e.rest BY <1>2, <2>1, <3>1, <3>3
      <4> QED BY <4>1, <1>3, <1>4 DEF Waits
    <3> QED BY <3>2, <3>3
  <2>3. CASE n # Len(telling)
    <3>1. n \in 1 .. Len(telling) - 1 BY <1>1, <2>3
    <3>2. n \in DOMAIN Outer /\ Outer[n] = telling[n] BY <1>1, <1>3, <3>1
    <3>3. n \in DOMAIN Told(q) /\ Told(q)[n] = telling[n] BY <1>3, <1>4, <3>2
    <3> QED BY <2>1, <3>3 DEF Waits
  <2> QED BY <2>2, <2>3
<1> QED BY <1>3, <1>4, <1>5

\* A source that is cancelled has all who depend on it wait to be told.
LEMMA CancelReaches ==
  ASSUME CancellationTypeOK, LetGo, NEW s \in Sources, NEW inner \in Seq(Emissions),
         CancelSource(s, inner), UNCHANGED completion
  PROVE  /\ CancellationTypeOK' /\ LetGo'
         /\ \A r, t : Waits(inner, r, t) => Waits(telling', r, t)
         /\ \A t : Connected(t)' = Connected(t)
         /\ \A t \in Sources : issuer[t].cancelled => issuer'[t].cancelled
         /\ \A t \in Sources : t # s /\ issuer'[t].cancelled => issuer[t].cancelled
         /\ issuer'[s].cancelled \/ issuer[s].disposed
         /\ issuer[s].cancelled \/ issuer[s].disposed
              \/ \A r \in Connected(s) : Waits(telling', r, s)
<1>1. CASE issuer[s].disposed \/ issuer[s].cancelled
  <2>1. telling' = inner /\ UNCHANGED issuer BY <1>1 DEF CancelSource
  <2> QED BY <2>1, <1>1 DEF CancellationTypeOK, LetGo, Waits, Connected
<1>2. CASE ~(issuer[s].disposed \/ issuer[s].cancelled)
  <2> DEFINE e == [token |-> s, rest |-> Connected(s)]
  <2>1. /\ issuer' = [issuer EXCEPT ![s].cancelled = TRUE]
        /\ telling' = Append(inner, e)
    BY <1>2 DEF CancelSource
  <2>2. e \in Emissions /\ e.token = s /\ e.rest = Connected(s) BY DEF Emissions, Connected
  <2> HIDE DEF e
  <2>3. /\ Append(inner, e) \in Seq(Emissions)
        /\ Len(inner) + 1 \in DOMAIN Append(inner, e)
        /\ \A n \in DOMAIN inner : n \in DOMAIN Append(inner, e) /\ Append(inner, e)[n] = inner[n]
        /\ Append(inner, e)[Len(inner) + 1] = e
    BY <2>2, EmissionBegins
  <2>4. issuer' \in [Sources -> [cancelled : BOOLEAN, disposed : BOOLEAN,
                                 links : SUBSET Sources]]
    BY <2>1 DEF CancellationTypeOK
  <2>5. \A t \in Sources : t # s => issuer'[t] = issuer[t] BY <2>1 DEF CancellationTypeOK
  <2>6. /\ issuer'[s].links = issuer[s].links
         /\ issuer'[s].disposed = issuer[s].disposed
         /\ issuer'[s].cancelled
    BY <2>1 DEF CancellationTypeOK
  <2>7. \A t \in Sources : issuer'[t].links = issuer[t].links BY <2>5, <2>6
  <2>8. \A t \in Sources : issuer'[t].disposed => issuer[t].disposed BY <2>5, <2>6
  <2>9. CancellationTypeOK' /\ LetGo'
    BY <2>1, <2>3, <2>4, <2>7, <2>8 DEF CancellationTypeOK, LetGo
  <2>10. \A t : Connected(t)' = Connected(t) BY <2>7 DEF Connected
  <2>11. \A r, t : Waits(inner, r, t) => Waits(telling', r, t) BY <2>1, <2>3 DEF Waits
  <2>12. \A r \in Connected(s) : Waits(telling', r, s) BY <2>1, <2>2, <2>3 DEF Waits
  <2> QED BY <2>5, <2>6, <2>9, <2>10, <2>11, <2>12
<1> QED BY <1>1, <1>2

\* In terms of Waits, who depends on a cancelled token and was not told.
LEMMA ForgottenNobody ==
  NobodyForgotten <=>
    \A s \in Sources : issuer[s].cancelled =>
      \A r \in Connected(s) : Waits(telling, r, s) \/ (r \in Sources /\ issuer[r].cancelled)
BY DEF NobodyForgotten, YetToTell, Waits

-----------------------------------------------------------------------------
\* Every step keeps the invariant.

LEMMA SomebodyCancelsStep ==
  ASSUME CancellationInv, NEW s \in Sources, SomebodyCancels(s)
  PROVE  CancellationInv'
<1>1. CancelSource(s, telling) /\ UNCHANGED completion /\ ~issuer[s].disposed /\ ~issuer[s].cancelled
  BY DEF SomebodyCancels
<1>2. telling \in Seq(Emissions) /\ CancellationTypeOK /\ LetGo BY DEF CancellationTypeOK
<1>3. /\ CancellationTypeOK' /\ LetGo'
      /\ \A r, t : Waits(telling, r, t) => Waits(telling', r, t)
      /\ \A t : Connected(t)' = Connected(t)
      /\ \A t \in Sources : issuer[t].cancelled => issuer'[t].cancelled
      /\ \A t \in Sources : t # s /\ issuer'[t].cancelled => issuer[t].cancelled
      /\ \A r \in Connected(s) : Waits(telling', r, s)
  BY <1>1, <1>2, CancelReaches
<1>4. \A t \in Sources : issuer[t].cancelled =>
        \A r \in Connected(t) : Waits(telling, r, t) \/ (r \in Sources /\ issuer[r].cancelled)
  BY ForgottenNobody
<1>5. \A t \in Sources : issuer'[t].cancelled =>
        \A r \in Connected(t)' : Waits(telling', r, t) \/ (r \in Sources /\ issuer'[r].cancelled)
  BY <1>3, <1>4
<1> QED BY <1>3, <1>5 DEF NobodyForgotten, YetToTell, Waits

LEMMA SourceIsToldStep ==
  ASSUME CancellationInv, NEW q \in Sources, SourceIsTold(q)
  PROVE  CancellationInv'
<1>1. /\ telling # <<>> /\ q \in Emission.rest
      /\ CancelSource(q, Told(q)) /\ UNCHANGED completion
  BY DEF SourceIsTold
<1>2. CancellationTypeOK /\ LetGo OBVIOUS
<1>3. /\ Told(q) \in Seq(Emissions)
      /\ \A r, t : Waits(telling, r, t) =>
           Waits(Told(q), r, t) \/ (r = q /\ t = Emission.token)
  BY <1>1, <1>2, ToldOne
<1>4. /\ CancellationTypeOK' /\ LetGo'
      /\ \A r, t : Waits(Told(q), r, t) => Waits(telling', r, t)
      /\ \A t : Connected(t)' = Connected(t)
      /\ \A t \in Sources : issuer[t].cancelled => issuer'[t].cancelled
      /\ \A t \in Sources : t # q /\ issuer'[t].cancelled => issuer[t].cancelled
      /\ issuer'[q].cancelled \/ issuer[q].disposed
      /\ issuer[q].cancelled \/ issuer[q].disposed
           \/ \A r \in Connected(q) : Waits(telling', r, q)
  BY <1>1, <1>2, <1>3, CancelReaches
<1>5. \A t \in Sources : issuer[t].cancelled =>
        \A r \in Connected(t) : Waits(telling, r, t) \/ (r \in Sources /\ issuer[r].cancelled)
  BY ForgottenNobody
<1>6. issuer[q].disposed => \A t \in Sources : q \notin Connected(t)
  BY <1>2, CancellationAssumption DEF LetGo, Connected
<1>7. issuer[q].disposed /\ ~issuer[q].cancelled => issuer' = issuer BY <1>1 DEF CancelSource
<1>8. \A t \in Sources : issuer'[t].cancelled =>
        \A r \in Connected(t)' : Waits(telling', r, t) \/ (r \in Sources /\ issuer'[r].cancelled)
  <2> SUFFICES ASSUME NEW t \in Sources, issuer'[t].cancelled, NEW r \in Connected(t)
               PROVE  Waits(telling', r, t) \/ (r \in Sources /\ issuer'[r].cancelled)
    BY <1>4
  <2>1. CASE issuer[t].cancelled
    <3>1. CASE Waits(telling, r, t)
      <4>1. CASE r = q BY <4>1, <1>4, <1>6
      <4> QED BY <4>1, <3>1, <1>3, <1>4
    <3>2. CASE r \in Sources /\ issuer[r].cancelled BY <3>2, <1>4
    <3> QED BY <2>1, <3>1, <3>2, <1>5
  <2>2. CASE ~issuer[t].cancelled BY <2>2, <1>4, <1>7
  <2> QED BY <2>1, <2>2
<1> QED BY <1>4, <1>8 DEF NobodyForgotten, YetToTell, Waits

LEMMA LinkTokenStep ==
  ASSUME CancellationInv, NEW q \in Sources, NEW s \in Sources, LinkToken(q, s)
  PROVE  CancellationInv'
<1>1. CASE issuer[s].cancelled
  <2>1. SomebodyCancels(q) BY <1>1 DEF LinkToken, SomebodyCancels
  <2> QED BY <2>1, SomebodyCancelsStep
<1>2. CASE ~issuer[s].cancelled
  <2>1. /\ ~issuer[q].disposed
        /\ issuer' = [issuer EXCEPT ![q].links = @ \cup {s}]
        /\ UNCHANGED <<completion, telling>>
    BY <1>2 DEF LinkToken
  <2>2. /\ \A t \in Sources : t # q => issuer'[t] = issuer[t]
        /\ issuer'[q].links = issuer[q].links \cup {s}
        /\ issuer'[q].disposed = issuer[q].disposed
        /\ issuer'[q].cancelled = issuer[q].cancelled
    BY <2>1 DEF CancellationTypeOK
  <2>3. CancellationTypeOK' /\ LetGo' BY <2>1, <2>2 DEF CancellationTypeOK, LetGo
  <2>4. \A t \in Sources : t # s => Connected(t)' = Connected(t) BY <2>1, <2>2 DEF Connected
  <2>5. NobodyForgotten' BY <1>2, <2>1, <2>2, <2>4 DEF NobodyForgotten, YetToTell
  <2> QED BY <2>3, <2>5
<1> QED BY <1>1, <1>2

\* Who gives up links or is let go needs not be told; the stack stays or loses an
\* emission that has told all.
LEMMA FewerDepend ==
  ASSUME NobodyForgotten,
         \A s \in Sources : Connected(s)' \subseteq Connected(s),
         \A s \in Sources : issuer'[s].cancelled => issuer[s].cancelled,
         \A s \in Sources : issuer[s].cancelled => issuer'[s].cancelled,
         \A s \in Sources : \A r \in Connected(s)' :
           Waits(telling, r, s) => Waits(telling', r, s)
  PROVE  NobodyForgotten'
BY DEF NobodyForgotten, YetToTell, Waits

LEMMA DisposeSourceStep ==
  ASSUME CancellationInv, NEW s \in Sources, DisposeSource(s)
  PROVE  CancellationInv'
<1>1. /\ issuer' = [issuer EXCEPT ![s].disposed = TRUE, ![s].links = {}]
      /\ UNCHANGED <<completion, telling>>
  BY DEF DisposeSource
<1>2. /\ \A t \in Sources : t # s => issuer'[t] = issuer[t]
      /\ issuer'[s].links = {}
      /\ issuer'[s].cancelled = issuer[s].cancelled
  BY <1>1 DEF CancellationTypeOK
<1>3. CancellationTypeOK' /\ LetGo'
  <2>1. issuer' \in [Sources -> [cancelled : BOOLEAN, disposed : BOOLEAN,
                                 links : SUBSET Sources]]
    BY <1>1 DEF CancellationTypeOK
  <2>2. CancellationTypeOK' BY <2>1, <1>1 DEF CancellationTypeOK
  <2>3. LetGo' BY <1>1, <1>2 DEF LetGo
  <2> QED BY <2>2, <2>3
<1>4. \A t \in Sources : Connected(t)' \subseteq Connected(t) BY <1>1, <1>2 DEF Connected
<1>5. NobodyForgotten' BY <1>1, <1>2, <1>4, FewerDepend DEF Waits
<1> QED BY <1>3, <1>5

LEMMA TellingEndsStep ==
  ASSUME CancellationInv, TellingEnds
  PROVE  CancellationInv'
<1> DEFINE s == Emission.token
<1>1. /\ telling # <<>> /\ Emission.rest = {}
      /\ issuer' = [issuer EXCEPT ![s].links = {}]
      /\ telling' = Outer /\ UNCHANGED completion
  BY DEF TellingEnds
<1>2. /\ Len(telling) \in Nat /\ Len(telling) > 0
      /\ DOMAIN telling = 1 .. Len(telling)
      /\ Emission \in Emissions
      /\ Outer \in Seq(Emissions)
      /\ DOMAIN Outer = 1 .. Len(telling) - 1
      /\ \A n \in 1 .. Len(telling) - 1 : Outer[n] = telling[n]
  BY <1>1, EmissionOfStack
<1>3. s \in Sources BY <1>2 DEF Emissions
<1>4. \A r, t : Waits(telling, r, t) => Waits(Outer, r, t)
  <2> SUFFICES ASSUME NEW r, NEW t, NEW n \in DOMAIN telling,
                      telling[n].token = t, r \in telling[n].rest
               PROVE  Waits(Outer, r, t)
    BY DEF Waits
  <2>1. n # Len(telling) BY <1>1 DEF Emission
  <2>2. n \in DOMAIN Outer /\ Outer[n] = telling[n] BY <1>2, <2>1
  <2> QED BY <2>2 DEF Waits
<1> HIDE DEF s
<1>5. /\ \A t \in Sources : t # s => issuer'[t] = issuer[t]
      /\ issuer'[s].links = {}
      /\ issuer'[s].disposed = issuer[s].disposed
      /\ issuer'[s].cancelled = issuer[s].cancelled
  BY <1>1, <1>3 DEF CancellationTypeOK
<1>6. CancellationTypeOK' /\ LetGo' BY <1>1, <1>2, <1>3, <1>5 DEF CancellationTypeOK, LetGo
<1>7. \A t \in Sources : Connected(t)' \subseteq Connected(t) BY <1>1, <1>3, <1>5 DEF Connected
<1>8. NobodyForgotten' BY <1>1, <1>3, <1>4, <1>5, <1>7, FewerDepend
<1> QED BY <1>6, <1>8

\* A completion that ends depends on no token any more.
LEMMA CompletedLetsGo ==
  ASSUME CancellationInv, NEW c \in Completions, NEW status \in Terminal,
         Completed(c, status), UNCHANGED issuer
  PROVE  /\ completion' \in [Completions -> [status : {"PENDING"} \cup Terminal,
                                             token : Sources \cup {Unbound}]]
         /\ LetGo'
         /\ \A s \in Sources : Connected(s)' = Connected(s) \ {c}
<1>1. completion' = [completion EXCEPT ![c] = [status |-> status, token |-> Unbound]]
  BY DEF Completed
<1>2. /\ \A d \in Completions : d # c => completion'[d] = completion[d]
      /\ completion'[c].token = Unbound
  BY <1>1 DEF CancellationTypeOK
<1>3. LetGo' BY <1>2 DEF LetGo
<1>4. \A s \in Sources : Connected(s)' = Connected(s) \ {c}
  BY <1>2, CancellationAssumption DEF Connected
<1> QED BY <1>1, <1>3, <1>4 DEF CancellationTypeOK

LEMMA SomebodyCompletesStep ==
  ASSUME CancellationInv, NEW c \in Completions, NEW status \in Terminal,
         Completed(c, status), UNCHANGED <<issuer, telling>>
  PROVE  CancellationInv'
<1>1. /\ CancellationTypeOK' /\ LetGo'
      /\ \A s \in Sources : Connected(s)' \subseteq Connected(s)
  BY CompletedLetsGo DEF CancellationTypeOK
<1>2. NobodyForgotten' BY <1>1, FewerDepend DEF Waits
<1> QED BY <1>1, <1>2

LEMMA BindTokenStep ==
  ASSUME CancellationInv, NEW c \in Completions, NEW s \in Sources, BindToken(c, s)
  PROVE  CancellationInv'
<1>1. CASE issuer[s].cancelled
  <2>1. Completed(c, "CANCELLED") /\ UNCHANGED <<issuer, telling>> BY <1>1 DEF BindToken
  <2> QED BY <2>1, SomebodyCompletesStep DEF Terminal
<1>2. CASE ~issuer[s].cancelled
  <2>1. /\ completion[c].status = "PENDING"
        /\ completion' = [completion EXCEPT ![c].token = s]
        /\ UNCHANGED <<issuer, telling>>
    BY <1>2 DEF BindToken
  <2>2. /\ \A d \in Completions : d # c => completion'[d] = completion[d]
        /\ completion'[c].token = s
        /\ completion'[c].status = "PENDING"
    BY <2>1 DEF CancellationTypeOK
  <2>3. CancellationTypeOK' /\ LetGo' BY <2>1, <2>2 DEF CancellationTypeOK, LetGo
  <2>4. \A t \in Sources : t # s => Connected(t)' \subseteq Connected(t)
    BY <2>1, <2>2 DEF Connected
  <2>5. NobodyForgotten' BY <1>2, <2>1, <2>4 DEF NobodyForgotten, YetToTell
  <2> QED BY <2>3, <2>5
<1> QED BY <1>1, <1>2

LEMMA CompletionIsToldStep ==
  ASSUME CancellationInv, NEW c \in Completions, CompletionIsTold(c)
  PROVE  CancellationInv'
<1>1. /\ telling # <<>> /\ c \in Emission.rest
      /\ telling' = Told(c) /\ UNCHANGED issuer
  BY DEF CompletionIsTold
<1>2. /\ Told(c) \in Seq(Emissions)
      /\ \A r, t : Waits(telling, r, t) =>
           Waits(Told(c), r, t) \/ (r = c /\ t = Emission.token)
  BY <1>1, ToldOne
<1>3. /\ CancellationTypeOK' /\ LetGo'
      /\ \A s \in Sources : Connected(s)' \subseteq Connected(s)
      /\ \A s \in Sources : s = Emission.token => c \notin Connected(s)'
  <2>1. CASE completion[c].token = Emission.token
    <3>1. Completed(c, "CANCELLED") BY <2>1 DEF CompletionIsTold
    <3> QED BY <3>1, <1>1, <1>2, CompletedLetsGo DEF CancellationTypeOK, Terminal
  <2>2. CASE completion[c].token # Emission.token
    <3>1. UNCHANGED completion BY <2>2 DEF CompletionIsTold
    <3> QED
      BY <3>1, <2>2, <1>1, <1>2, CancellationAssumption DEF CancellationTypeOK, LetGo,
         Connected
  <2> QED BY <2>1, <2>2
<1>4. NobodyForgotten' BY <1>1, <1>2, <1>3, FewerDepend
<1> QED BY <1>3, <1>4

-----------------------------------------------------------------------------
\* The invariant of the tokens and completions: types are right, who ended or was
\* disposed of is let go, and nobody who depends on a cancelled token is forgotten.
THEOREM CancellationInvariant == CancellationSpec => []CancellationInv
<1>1. CancellationInit => CancellationInv
  <2> SUFFICES ASSUME CancellationInit PROVE CancellationInv OBVIOUS
  <2>1. telling \in Seq(Emissions) BY EmptySeq DEF CancellationInit
  <2> QED BY <2>1 DEF CancellationInit, CancellationTypeOK, LetGo, NobodyForgotten
<1>2. CancellationInv /\ [CancellationNext]_cancellationVars => CancellationInv'
  <2> SUFFICES ASSUME CancellationInv, [CancellationNext]_cancellationVars
               PROVE  CancellationInv'
    OBVIOUS
  <2>1. ASSUME NEW s \in Sources, SomebodyCancels(s) PROVE CancellationInv'
    BY <2>1, SomebodyCancelsStep
  <2>2. ASSUME NEW s \in Sources, DisposeSource(s) PROVE CancellationInv'
    BY <2>2, DisposeSourceStep
  <2>3. ASSUME NEW s \in Sources, SourceIsTold(s) PROVE CancellationInv'
    BY <2>3, SourceIsToldStep
  <2>4. ASSUME NEW s \in Sources, NEW q \in Sources, LinkToken(q, s) PROVE CancellationInv'
    BY <2>4, LinkTokenStep
  <2>5. ASSUME NEW s \in Sources, NEW c \in Completions, BindToken(c, s)
        PROVE  CancellationInv'
    BY <2>5, BindTokenStep
  <2>6. ASSUME NEW c \in Completions, CompletionIsTold(c) PROVE CancellationInv'
    BY <2>6, CompletionIsToldStep
  <2>7. ASSUME NEW c \in Completions, NEW status \in Terminal, SomebodyCompletes(c, status)
        PROVE  CancellationInv'
    BY <2>7, SomebodyCompletesStep DEF SomebodyCompletes
  <2>8. CASE TellingEnds BY <2>8, TellingEndsStep
  <2>9. CASE UNCHANGED cancellationVars
    BY <2>9 DEF cancellationVars, CancellationTypeOK, LetGo, NobodyForgotten, YetToTell,
       Connected
  <2> QED BY <2>1, <2>2, <2>3, <2>4, <2>5, <2>6, <2>7, <2>8, <2>9 DEF CancellationNext
<1> QED BY <1>1, <1>2, PTL DEF CancellationSpec

\* A cancelled token reaches everybody linked or bound to it who has not ended, and
\* a completion ends once, and by no token but the one it is bound to, whatever
\* the handlers of cancel_requested and of the completions do in between.
THEOREM CancellationIsComplete == CancellationSpec => CancellationArrives
<1>1. CancellationInv => NobodyForgotten OBVIOUS
<1>2. CancellationInv /\ [CancellationNext]_cancellationVars
        => [CancelledByItsToken]_cancellationVars
  <2> SUFFICES ASSUME CancellationInv, CancellationNext
               PROVE  CancelledByItsToken
    BY DEF cancellationVars
  <2> SUFFICES ASSUME NEW c \in Completions, completion'[c] # completion[c]
               PROVE  /\ completion[c].status = "PENDING"
                      /\ telling' # telling => completion[c].token = Emission.token
    BY DEF CancelledByItsToken
  <2>1. ASSUME NEW s \in Sources,
               \/ SomebodyCancels(s) \/ DisposeSource(s) \/ SourceIsTold(s)
               \/ \E q \in Sources : LinkToken(q, s)
        PROVE  FALSE
    BY <2>1 DEF SomebodyCancels, DisposeSource, SourceIsTold, LinkToken
  <2>2. ASSUME NEW s \in Sources, NEW d \in Completions, BindToken(d, s)
        PROVE  d = c /\ completion[c].status = "PENDING" /\ telling' = telling
    BY <2>2 DEF BindToken, Completed, CancellationTypeOK
  <2>3. ASSUME NEW d \in Completions, NEW status \in Terminal, SomebodyCompletes(d, status)
        PROVE  d = c /\ completion[c].status = "PENDING" /\ telling' = telling
    BY <2>3 DEF SomebodyCompletes, Completed, CancellationTypeOK
  <2>4. ASSUME NEW d \in Completions, CompletionIsTold(d)
        PROVE  /\ completion[c].status = "PENDING"
               /\ completion[c].token = Emission.token
    <3>1. d = c /\ completion[c].token = Emission.token
      BY <2>4 DEF CompletionIsTold, Completed, CancellationTypeOK
    <3>2. Emission.token \in Sources BY <2>4, EmissionOfStack DEF CompletionIsTold, Emissions
    <3> QED BY <3>1, <3>2, CancellationAssumption DEF LetGo
  <2>5. ~TellingEnds BY DEF TellingEnds
  <2> QED BY <2>1, <2>2, <2>3, <2>4, <2>5 DEF CancellationNext
<1> QED BY <1>1, <1>2, CancellationInvariant, PTL DEF CancellationSpec, CancellationArrives

-----------------------------------------------------------------------------
(***************************************************************************)
(* JobQueue.  First, lines in which nobody stands twice.                   *)
(***************************************************************************)

LEMMA NextBelow ==
  ASSUME NEW m \in Int, NEW n \in Int, m <= n, m # n
  PROVE  m + 1 <= n /\ n - (m + 1) + 1 = n - m
OBVIOUS

LEMMA RangeIs ==
  ASSUME NEW r, NEW D, DOMAIN r = D, NEW T,
         \A k \in D : r[k] \in T,
         \A x \in T : \E k \in D : r[k] = x
  PROVE  Range(r) = T
BY DEF Range

\* Whoever is appended to a line, or put before it, stands in it once when he did
\* not stand in it before.
LEMMA AppendedOnce ==
  ASSUME NEW S, NEW q \in Seq(S), NEW e \in S
  PROVE  /\ Append(q, e) \in Seq(S) /\ Len(Append(q, e)) = Len(q) + 1
         /\ Range(Append(q, e)) = Range(q) \cup {e}
         /\ IsInjective(q) /\ e \notin Range(q) => IsInjective(Append(q, e))
<1> DEFINE r == Append(q, e)
<1>1. /\ r \in Seq(S) /\ Len(r) = Len(q) + 1 /\ r[Len(q) + 1] = e
      /\ \A i \in 1 .. Len(q) : r[i] = q[i]
  BY AppendProperties
<1>2. /\ Len(q) \in Nat /\ DOMAIN q = 1 .. Len(q) /\ DOMAIN r = 1 .. Len(q) + 1
  BY <1>1, LenProperties
<1> HIDE DEF r
<1>3. Range(r) = Range(q) \cup {e} BY <1>1, <1>2 DEF Range
<1>4. ASSUME IsInjective(q), e \notin Range(q) PROVE IsInjective(r)
  <2>1. \A i \in 1 .. Len(q) : q[i] # e BY <1>2, <1>4 DEF Range
  <2> QED BY <1>1, <1>2, <1>4, <2>1 DEF IsInjective
<1> QED BY <1>1, <1>3, <1>4 DEF r

LEMMA PutBefore ==
  ASSUME NEW S, NEW q \in Seq(S), NEW e \in S
  PROVE  /\ <<e>> \o q \in Seq(S)
         /\ Range(<<e>> \o q) = Range(q) \cup {e}
         /\ IsInjective(q) /\ e \notin Range(q) => IsInjective(<<e>> \o q)
<1> DEFINE r == <<e>> \o q
<1>1. <<e>> \in Seq(S) /\ Len(<<e>>) = 1 /\ <<e>>[1] = e OBVIOUS
<1>2. Len(q) \in Nat /\ DOMAIN q = 1 .. Len(q) BY LenProperties
<1>3. /\ r \in Seq(S) /\ Len(r) = 1 + Len(q)
      /\ \A i \in 1 .. 1 + Len(q) : r[i] = IF i <= 1 THEN <<e>>[i] ELSE q[i - 1]
  BY <1>1, ConcatProperties
<1>4. DOMAIN r = 1 .. Len(q) + 1 /\ r[1] = e /\ \A i \in 1 .. Len(q) : r[i + 1] = q[i]
  <2>1. DOMAIN r = 1 .. Len(q) + 1 BY <1>2, <1>3, LenProperties
  <2> HIDE DEF r
  <2>2. r[1] = e BY <1>1, <1>2, <1>3
  <2>3. ASSUME NEW i \in 1 .. Len(q) PROVE r[i + 1] = q[i]
    <3>1. i + 1 \in 1 .. 1 + Len(q) /\ ~(i + 1 <= 1) /\ (i + 1) - 1 = i BY <1>2, <2>3
    <3> QED BY <1>3, <3>1
  <2> QED BY <2>1, <2>2, <2>3
<1> HIDE DEF r
<1>5. \A k \in 1 .. Len(q) + 1 : k = 1 \/ \E i \in 1 .. Len(q) : k = i + 1 BY <1>2
<1>6. Range(r) = Range(q) \cup {e}
  <2>1. ASSUME NEW k \in 1 .. Len(q) + 1 PROVE r[k] \in Range(q) \cup {e}
    <3>1. k = 1 \/ \E i \in 1 .. Len(q) : k = i + 1 BY <1>5
    <3>2. \A i \in 1 .. Len(q) : q[i] \in Range(q) BY ONLY <1>2 DEF Range
    <3> QED BY ONLY <1>4, <3>1, <3>2
  <2>2. ASSUME NEW i \in 1 .. Len(q) PROVE \E k \in 1 .. Len(q) + 1 : r[k] = q[i]
    <3>1. i + 1 \in 1 .. Len(q) + 1 BY <1>2
    <3> QED BY <1>4, <3>1
  <2>3. 1 \in 1 .. Len(q) + 1 BY <1>2
  <2>4. \A x \in Range(q) \cup {e} : \E k \in 1 .. Len(q) + 1 : r[k] = x
    BY <1>2, <1>4, <2>2, <2>3 DEF Range
  <2> DEFINE T == Range(q) \cup {e}
  <2>5. /\ \A k \in 1 .. Len(q) + 1 : r[k] \in T
        /\ \A x \in T : \E k \in 1 .. Len(q) + 1 : r[k] = x
    BY <2>1, <2>4
  <2> HIDE DEF T
  <2>6. DOMAIN r = 1 .. Len(q) + 1 BY <1>4
  <2>7. Range(r) = T BY <2>5, <2>6, RangeIs
  <2> QED BY <2>7 DEF T
<1>7. ASSUME IsInjective(q), e \notin Range(q) PROVE IsInjective(r)
  <2>1. \A i \in 1 .. Len(q) : q[i] # e BY <1>2, <1>7 DEF Range
  <2>2. ASSUME NEW a \in 1 .. Len(q) + 1, NEW b \in 1 .. Len(q) + 1, r[a] = r[b]
        PROVE  a = b
    <3>1. a = 1 \/ \E i \in 1 .. Len(q) : a = i + 1 BY <1>5
    <3>2. b = 1 \/ \E i \in 1 .. Len(q) : b = i + 1 BY <1>5
    <3> QED BY <1>2, <1>4, <1>7, <2>1, <2>2, <3>1, <3>2 DEF IsInjective
  <2> QED BY <1>4, <2>2 DEF IsInjective
<1> QED BY <1>3, <1>6, <1>7 DEF r

\* What is left of a line behind its n-th place.
LEMMA RestOfLine ==
  ASSUME NEW S, NEW q \in Seq(S), NEW n \in 0 .. Len(q)
  PROVE  LET r == SubSeq(q, n + 1, Len(q))
         IN  /\ r \in Seq(S) /\ Len(r) = Len(q) - n
             /\ Range(r) = {q[m] : m \in n + 1 .. Len(q)}
             /\ IsInjective(q) => IsInjective(r)
<1> DEFINE r == SubSeq(q, n + 1, Len(q))
<1>1. Len(q) \in Nat /\ DOMAIN q = 1 .. Len(q) /\ n \in Nat /\ n <= Len(q) BY LenProperties
<1>2. \A i \in n + 1 .. Len(q) : q[i] \in S BY <1>1, ElementOfSeq
<1>3. /\ r \in Seq(S)
      /\ Len(r) = IF n + 1 <= Len(q) THEN Len(q) - (n + 1) + 1 ELSE 0
      /\ \A i \in 1 .. Len(q) - (n + 1) + 1 : r[i] = q[(n + 1) + i - 1]
  BY <1>1, <1>2, SubSeqProperties
<1> HIDE DEF r
<1>4. /\ Len(r) = Len(q) - n /\ DOMAIN r = 1 .. Len(q) - n
      /\ \A i \in 1 .. Len(q) - n : r[i] = q[n + i]
  <2>1. Len(r) = Len(q) - n
    <3>1. CASE n = Len(q)
      <4>1. ~(n + 1 <= Len(q)) /\ Len(q) - n = 0 BY <1>1, <3>1
      <4> QED BY <1>3, <4>1
    <3>2. CASE n # Len(q)
      <4>1. n \in Int /\ Len(q) \in Int /\ n <= Len(q) BY <1>1
      <4>2. n # Len(q) BY <3>2
      <4>3. n + 1 <= Len(q) /\ Len(q) - (n + 1) + 1 = Len(q) - n BY ONLY <4>1, <4>2, NextBelow
      <4> QED BY <1>3, <4>3
    <3> QED BY <3>1, <3>2
  <2>2. DOMAIN r = 1 .. Len(q) - n BY <1>3, <2>1, LenProperties
  <2>3. ASSUME NEW i \in 1 .. Len(q) - n PROVE r[i] = q[n + i]
    <3>1. i \in 1 .. Len(q) - (n + 1) + 1 /\ (n + 1) + i - 1 = n + i BY <1>1, <2>3
    <3> QED BY <1>3, <3>1
  <2> QED BY <2>1, <2>2, <2>3
<1>5. Range(r) = {q[m] : m \in n + 1 .. Len(q)}
  <2>1. ASSUME NEW m \in n + 1 .. Len(q) PROVE \E i \in 1 .. Len(q) - n : q[m] = r[i]
    <3>1. m - n \in 1 .. Len(q) - n /\ n + (m - n) = m BY <1>1, <2>1
    <3> QED BY <1>4, <3>1
  <2>2. ASSUME NEW i \in 1 .. Len(q) - n PROVE \E m \in n + 1 .. Len(q) : q[m] = r[i]
    <3>1. n + i \in n + 1 .. Len(q) BY <1>1, <2>2
    <3> QED BY <1>4, <3>1
  <2>3. \A x \in {q[m] : m \in n + 1 .. Len(q)} : \E i \in 1 .. Len(q) - n : r[i] = x BY <2>1
  <2>4. \A i \in 1 .. Len(q) - n : r[i] \in {q[m] : m \in n + 1 .. Len(q)} BY <2>2
  <2> QED BY <1>4, <2>3, <2>4, RangeIs
<1>6. IsInjective(q) => IsInjective(r)
  <2> SUFFICES ASSUME IsInjective(q), NEW a \in 1 .. Len(q) - n, NEW b \in 1 .. Len(q) - n,
                      r[a] = r[b]
               PROVE  a = b
    BY <1>4 DEF IsInjective
  <2>1. q[n + a] = q[n + b] /\ n + a \in DOMAIN q /\ n + b \in DOMAIN q BY <1>1, <1>4
  <2> QED BY <1>1, <2>1 DEF IsInjective
<1> QED BY <1>3, <1>4, <1>5, <1>6 DEF r

\* Who is erased from a line is not in it any more, and all others are.
LEMMA ErasedOnce ==
  ASSUME NEW S, NEW q \in Seq(S), NEW e, IsInjective(q)
  PROVE  /\ RemoveFirst(q, e) \in Seq(S) /\ IsInjective(RemoveFirst(q, e))
         /\ Range(RemoveFirst(q, e)) = Range(q) \ {e}
<1>1. Len(q) \in Nat /\ DOMAIN q = 1 .. Len(q) BY LenProperties
<1>2. CASE ~\E i \in 1 .. Len(q) : q[i] = e BY <1>1, <1>2 DEF RemoveFirst, Range
<1>3. CASE \E i \in 1 .. Len(q) : q[i] = e
  <2>1. PICK i \in 1 .. Len(q) : q[i] = e BY <1>3
  <2>2. {k \in 1 .. Len(q) : q[k] = e} = {i} BY <1>1, <2>1 DEF IsInjective
  <2>3. SelectInSeq(q, LAMBDA v : v = e) = i
    <3>1. SelectInSeq(q, LAMBDA v : v = e) = Min({i}) BY <2>2 DEF SelectInSeq
    <3>2. Min({i}) = i BY <1>1 DEF Min
    <3> QED BY <3>1, <3>2
  <2> DEFINE a == SubSeq(q, 1, i - 1)
             b == SubSeq(q, i + 1, Len(q))
             r == a \o b
  <2>4. RemoveFirst(q, e) = r BY <1>3, <2>3 DEF RemoveFirst, RemoveAt
  <2>5. i \in Nat /\ 1 <= i /\ i <= Len(q) BY <1>1
  <2>6. /\ a \in Seq(S) /\ Len(a) = i - 1
        /\ \A k \in 1 .. i - 1 : a[k] = q[k]
    <3>1. \A k \in 1 .. i - 1 : q[k] \in S BY <1>1, <2>5, ElementOfSeq
    <3>2. /\ a \in Seq(S)
          /\ Len(a) = IF 1 <= i - 1 THEN i - 1 - 1 + 1 ELSE 0
          /\ \A k \in 1 .. i - 1 - 1 + 1 : a[k] = q[1 + k - 1]
      BY <2>5, <3>1, SubSeqProperties
    <3> HIDE DEF a
    <3> QED BY <2>5, <3>2
  <2>7. /\ b \in Seq(S) /\ Len(b) = Len(q) - i
        /\ \A k \in 1 .. Len(q) - i : b[k] = q[i + k]
    <3>1. \A k \in i + 1 .. Len(q) : q[k] \in S BY <1>1, <2>5, ElementOfSeq
    <3>2. /\ b \in Seq(S)
          /\ Len(b) = IF i + 1 <= Len(q) THEN Len(q) - (i + 1) + 1 ELSE 0
          /\ \A k \in 1 .. Len(q) - (i + 1) + 1 : b[k] = q[(i + 1) + k - 1]
      BY <1>1, <2>5, <3>1, SubSeqProperties
    <3> HIDE DEF b
    <3>3. ASSUME NEW k \in 1 .. Len(q) - i PROVE b[k] = q[i + k]
      <4>1. k \in 1 .. Len(q) - (i + 1) + 1 /\ (i + 1) + k - 1 = i + k BY <1>1, <2>5, <3>3
      <4> QED BY <3>2, <4>1
    <3>4. Len(b) = Len(q) - i
      <4>1. CASE i = Len(q)
        <5>1. ~(i + 1 <= Len(q)) /\ Len(q) - i = 0 BY <1>1, <4>1
        <5> QED BY <3>2, <5>1
      <4>2. CASE i # Len(q)
        <5>1. i \in Int /\ Len(q) \in Int /\ i <= Len(q) BY <1>1, <2>5
        <5>2. i # Len(q) BY <4>2
        <5>3. i + 1 <= Len(q) /\ Len(q) - (i + 1) + 1 = Len(q) - i BY ONLY <5>1, <5>2, NextBelow
        <5> QED BY <3>2, <5>3
      <4> QED BY <4>1, <4>2
    <3> QED BY <3>2, <3>3, <3>4
  <2> HIDE DEF a, b
  <2>8. /\ r \in Seq(S) /\ Len(r) = Len(a) + Len(b)
        /\ \A k \in 1 .. Len(a) + Len(b) :
             r[k] = IF k <= Len(a) THEN a[k] ELSE b[k - Len(a)]
    BY <2>6, <2>7, ConcatProperties
  <2> HIDE DEF r
  <2>9. DOMAIN r = 1 .. Len(q) - 1 /\ Len(r) = Len(q) - 1
    <3>1. Len(r) = Len(q) - 1 BY <1>1, <2>5, <2>6, <2>7, <2>8
    <3> QED BY <2>8, <3>1, LenProperties
  <2>10. ASSUME NEW k \in 1 .. Len(q) - 1
         PROVE  r[k] = IF k < i THEN q[k] ELSE q[k + 1]
    <3>1. k \in 1 .. Len(a) + Len(b) BY <1>1, <2>5, <2>6, <2>7, <2>10
    <3>2. CASE k < i
      <4>1. k <= Len(a) /\ k \in 1 .. i - 1 BY <1>1, <2>5, <2>6, <2>10, <3>2
      <4> QED BY <2>6, <2>8, <3>1, <3>2, <4>1
    <3>3. CASE ~(k < i)
      <4>1. ~(k <= Len(a)) /\ k - Len(a) \in 1 .. Len(q) - i /\ i + (k - Len(a)) = k + 1
        BY <1>1, <2>5, <2>6, <2>10, <3>3
      <4> QED BY <2>7, <2>8, <3>1, <3>3, <4>1
    <3> QED BY <3>2, <3>3
  <2>11. IsInjective(r)
    <3> SUFFICES ASSUME NEW k \in 1 .. Len(q) - 1, NEW m \in 1 .. Len(q) - 1, r[k] = r[m]
                 PROVE  k = m
      BY <2>9 DEF IsInjective
    <3> DEFINE p(x) == IF x < i THEN x ELSE x + 1
    <3>1. p(k) \in DOMAIN q /\ p(m) \in DOMAIN q /\ q[p(k)] = q[p(m)] BY <1>1, <2>5, <2>10
    <3>2. p(k) = p(m) BY <3>1 DEF IsInjective
    <3> QED BY <1>1, <2>5, <3>2
  <2>12. Range(r) = Range(q) \ {e}
    <3>1. ASSUME NEW k \in 1 .. Len(q) - 1 PROVE r[k] \in Range(q) \ {e}
      <4> DEFINE p == IF k < i THEN k ELSE k + 1
      <4>1. p \in DOMAIN q /\ p # i /\ r[k] = q[p] BY <1>1, <2>5, <2>10
      <4>2. q[p] # e BY <1>1, <2>1, <4>1 DEF IsInjective
      <4> QED BY <4>1, <4>2 DEF Range
    <3>2. ASSUME NEW m \in 1 .. Len(q), q[m] # e PROVE \E k \in 1 .. Len(q) - 1 : r[k] = q[m]
      <4>1. m # i BY <2>1, <3>2
      <4>2. CASE m < i
        <5>1. m \in 1 .. Len(q) - 1 BY <1>1, <2>5, <4>2
        <5> QED BY <2>10, <4>2, <5>1
      <4>3. CASE m > i
        <5>1. m - 1 \in 1 .. Len(q) - 1 /\ ~(m - 1 < i) /\ (m - 1) + 1 = m BY <1>1, <2>5, <4>3
        <5> QED BY <2>10, <5>1
      <4> QED BY <1>1, <2>5, <4>1, <4>2, <4>3
    <3>3. \A x \in Range(q) \ {e} : \E k \in 1 .. Len(q) - 1 : r[k] = x BY <1>1, <3>2 DEF Range
    <3> QED BY <2>9, <3>1, <3>3, RangeIs
  <2> QED BY <2>4, <2>8, <2>11, <2>12
<1> QED BY <1>2, <1>3

-----------------------------------------------------------------------------
(***************************************************************************)
(* The books.                                                              *)
(***************************************************************************)
JobRecords == [id : 0 .. MaxJobs, status : JobStatuses, dropped : BOOLEAN]
BookRecords == [serial : 0 .. MaxJobs, index : [Jobs -> 0 .. MaxJobs], queue : Seq(Jobs),
                history : [Ends -> Seq(Jobs)], cleared : Nat]
FrameRecords == [kind : FrameKinds, job : 0 .. MaxJobs, rest : Seq(Jobs),
                 cleared : Nat, open : BOOLEAN]

\* A job gets its id when it is enqueued.
IdsGiven ==
  \A j \in Jobs : IF tasks[j].status = "unborn" THEN tasks[j].id = Nothing
                                                ELSE tasks[j].id \in Jobs

\* An id that means a job is the id of that job, and was given since the last clear_all.
IndexIsTrue ==
  \A i \in Jobs :
    books.index[i] # Nothing =>
      /\ tasks[books.index[i]].id = i /\ i <= books.serial
      /\ tasks[books.index[i]].status # "unborn"

BooksInv ==
  /\ tasks \in [Jobs -> JobRecords] /\ books \in BookRecords
  /\ IdsGiven /\ IndexIsTrue /\ JobsAccounted

\* Only an operation whose frame names no job has none.
RightFrames ==
  {f \in FrameRecords : f.kind \notin {"clearQueue", "clearAll"} => f.job \in Jobs}

FramesRight == stack \in Seq(RightFrames)

ConsumerRight == consumer \in [busy : BOOLEAN, waitsFor : 0 .. MaxJobs,
                               signalled : BOOLEAN, cancelled : BOOLEAN]

JobsInv == BooksInv /\ FramesRight /\ ConsumerRight

LEMMA Bounds == MaxJobs \in Nat /\ HistoryLimit \in Nat /\ Nothing \notin Jobs
BY JobQueueAssumption DEF Nothing, Jobs

LEMMA JobsOf ==
  ASSUME BooksInv, NEW i \in Jobs, books.index[i] # Nothing
  PROVE  books.index[i] \in Jobs
BY Bounds DEF BooksInv, BookRecords, Jobs, Nothing

\* Who is not in the queue was not enqueued or does not wait; who is in a history ended.
LEMMA QueueIs ==
  ASSUME BooksInv
  PROVE  /\ books.queue \in Seq(Jobs) /\ IsInjective(books.queue)
         /\ Len(books.queue) \in Nat /\ DOMAIN books.queue = 1 .. Len(books.queue)
         /\ Range(books.queue) \subseteq Jobs
         /\ \A j \in Range(books.queue) :
              tasks[j].status = "WAITING" /\ books.index[tasks[j].id] = j
<1>1. books.queue \in Seq(Jobs) BY DEF BooksInv, BookRecords
<1>2. Len(books.queue) \in Nat /\ DOMAIN books.queue = 1 .. Len(books.queue)
  BY <1>1, LenProperties
<1>3. Range(books.queue) \subseteq Jobs BY <1>1, <1>2, ElementOfSeq DEF Range
<1> QED BY <1>1, <1>2, <1>3 DEF BooksInv, JobsAccounted

LEMMA HistoryIs ==
  ASSUME BooksInv, NEW status \in Ends
  PROVE  LET line == books.history[status]
         IN  /\ line \in Seq(Jobs) /\ IsInjective(line)
             /\ Len(line) \in Nat /\ Len(line) <= HistoryLimit
             /\ DOMAIN line = 1 .. Len(line) /\ Range(line) \subseteq Jobs
             /\ \A j \in Range(line) :
                  tasks[j].status = status /\ books.index[tasks[j].id] = j
<1> DEFINE line == books.history[status]
<1>1. line \in Seq(Jobs) BY DEF BooksInv, BookRecords
<1>2. Len(line) \in Nat /\ DOMAIN line = 1 .. Len(line) BY <1>1, LenProperties
<1>3. Range(line) \subseteq Jobs BY <1>1, <1>2, ElementOfSeq DEF Range
<1>4. /\ Len(line) <= HistoryLimit /\ IsInjective(line)
      /\ \A j \in Range(line) : tasks[j].status = status /\ books.index[tasks[j].id] = j
  BY DEF BooksInv, JobsAccounted
<1> QED BY <1>1, <1>2, <1>3, <1>4

\* What is kept of a history that became too long by one: all but its oldest job.
LEMMA TrimmedIs ==
  ASSUME NEW line \in Seq(Jobs), IsInjective(line), Len(line) = HistoryLimit + 1
  PROVE  /\ Trimmed(line) \in Seq(Jobs) /\ Len(Trimmed(line)) = HistoryLimit
         /\ IsInjective(Trimmed(line))
         /\ Head(line) \in Range(line)
         /\ Range(Trimmed(line)) \subseteq Range(line) \ {Head(line)}
<1>1. Len(line) \in Nat /\ DOMAIN line = 1 .. Len(line) /\ HistoryLimit \in Nat
  BY LenProperties, Bounds
<1>2. Trimmed(line) = SubSeq(line, 1 + 1, Len(line))
  <2>1. Len(line) - HistoryLimit + 1 = 1 + 1 BY <1>1
  <2> QED BY <2>1 DEF Trimmed
<1>3. 1 \in 0 .. Len(line) /\ Len(line) - 1 = HistoryLimit BY <1>1
<1> DEFINE r == SubSeq(line, 1 + 1, Len(line))
<1>4. /\ r \in Seq(Jobs) /\ Len(r) = HistoryLimit
      /\ Range(r) = {line[m] : m \in 1 + 1 .. Len(line)}
      /\ IsInjective(r)
  BY <1>3, RestOfLine
<1>5. Head(line) = line[1] /\ 1 \in DOMAIN line
  <2>1. line # <<>> BY <1>1
  <2> QED BY <1>1, <2>1, HeadTailProperties
<1>6. \A m \in 1 + 1 .. Len(line) : m \in DOMAIN line /\ m # 1 BY <1>1
<1>7. Range(r) \subseteq Range(line) \ {Head(line)} BY <1>4, <1>5, <1>6 DEF Range, IsInjective
<1>8. Head(line) \in Range(line) BY <1>5 DEF Range
<1> QED BY <1>2, <1>4, <1>7, <1>8

\* A job that is looked up by its id and ends keeps the books right.
LEMMA EndKeepsBooks ==
  ASSUME BooksInv, NEW id \in 0 .. MaxJobs, NEW status \in Ends, EndJob(id, status)
  PROVE  /\ BooksInv'
         /\ \A k \in Jobs : /\ HasEnded(k) => tasks'[k].status = tasks[k].status
                            /\ k # Means(id) => tasks'[k] = tasks[k]
<1>1. CASE ~Endable(id)
  <2>1. UNCHANGED <<tasks, books>> BY <1>1 DEF EndJob
  <2>2. BooksInv' BY <2>1 DEF BooksInv, IdsGiven, IndexIsTrue, JobsAccounted
  <2> QED BY <2>1, <2>2
<1>2. CASE Endable(id)
  <2> DEFINE j == books.index[id]
             h == books.history[status]
             line == Append(h, j)
             long == Len(line) > HistoryLimit
             gone == IF long THEN tasks[Head(line)].id ELSE Nothing
             kept == IF gone = Nothing THEN line ELSE Trimmed(line)
             index == [i \in Jobs |-> IF i = gone THEN Nothing ELSE books.index[i]]
             queue == RemoveFirst(books.queue, j)
  <2>1. id \in Jobs /\ Means(id) = j /\ j # Nothing /\ ~HasEnded(j)
    BY <1>2, Bounds DEF Endable, Means, Jobs, Nothing
  <2>2. /\ tasks \in [Jobs -> JobRecords] /\ books \in BookRecords
        /\ IdsGiven /\ IndexIsTrue /\ JobsAccounted
    BY DEF BooksInv
  <2>3. j \in Jobs BY <2>1, JobsOf
  <2>4. tasks[j].id = id /\ tasks[j].status \in {"WAITING", "ACTIVE"}
    <3>1. tasks[j].id = id /\ tasks[j].status # "unborn" /\ tasks[j].status \in JobStatuses
      BY <2>1, <2>2, <2>3 DEF IndexIsTrue, JobRecords
    <3> QED BY <2>1, <3>1 DEF HasEnded, JobStatuses
  <2>5. /\ tasks' = [tasks EXCEPT ![j].status = status]
        /\ books' = [books EXCEPT !.queue = queue, !.history[status] = kept, !.index = index]
    BY <1>2, <2>1 DEF EndJob, Ended
  <2>6. /\ h \in Seq(Jobs) /\ IsInjective(h) /\ Len(h) \in Nat /\ Len(h) <= HistoryLimit
        /\ Range(h) \subseteq Jobs
        /\ \A k \in Range(h) : tasks[k].status = status /\ books.index[tasks[k].id] = k
    BY HistoryIs
  <2>7. j \notin Range(h) BY <2>4, <2>6 DEF Ends
  <2>8. /\ line \in Seq(Jobs) /\ Len(line) = Len(h) + 1 /\ Range(line) = Range(h) \cup {j}
        /\ IsInjective(line)
    BY <2>3, <2>6, <2>7, AppendedOnce
  <2> HIDE DEF line
  \* What leaves the books ended in this way, and is not kept in the history.
  <2>9. /\ kept \in Seq(Jobs) /\ IsInjective(kept) /\ Len(kept) <= HistoryLimit
        /\ Range(kept) \subseteq Range(h) \cup {j}
        /\ gone # Nothing =>
             \E x \in Jobs : /\ books.index[gone] = x /\ x \notin Range(kept)
                             /\ x = j \/ tasks[x].status = status
    <3>1. CASE long
      <4>1. Len(line) = HistoryLimit + 1 BY <2>6, <2>8, <3>1, Bounds
      <4>2. /\ Trimmed(line) \in Seq(Jobs) /\ Len(Trimmed(line)) = HistoryLimit
            /\ IsInjective(Trimmed(line))
            /\ Head(line) \in Range(line)
            /\ Range(Trimmed(line)) \subseteq Range(line) \ {Head(line)}
        BY <2>8, <4>1, TrimmedIs
      <4>3. /\ Head(line) \in Jobs /\ books.index[tasks[Head(line)].id] = Head(line)
            /\ Head(line) = j \/ tasks[Head(line)].status = status
        BY <2>3, <2>4, <2>6, <2>8, <4>2
      <4>4. tasks[Head(line)].status # "unborn" BY <2>4, <4>3 DEF Ends
      <4>5. gone = tasks[Head(line)].id /\ gone \in Jobs /\ gone # Nothing
        BY <2>2, <3>1, <4>3, <4>4, Bounds DEF IdsGiven
      <4>6. kept = Trimmed(line) BY <4>5
      <4> QED BY <2>8, <4>2, <4>3, <4>5, <4>6, Bounds
    <3>2. CASE ~long
      <4>1. kept = line /\ gone = Nothing BY <3>2
      <4> QED BY <2>6, <2>8, <3>2, <4>1, Bounds
    <3> QED BY <3>1, <3>2
  <2>10. /\ queue \in Seq(Jobs) /\ IsInjective(queue)
         /\ Range(queue) = Range(books.queue) \ {j}
    BY QueueIs, ErasedOnce
  <2>11. /\ index \in [Jobs -> 0 .. MaxJobs]
         /\ \A i \in Jobs : index[i] = IF i = gone THEN Nothing ELSE books.index[i]
    BY <2>2, Bounds DEF BookRecords, Nothing
  <2> HIDE DEF kept, queue, index, gone, h
  <2> DEFINE history == [books.history EXCEPT ![status] = kept]
  <2>12. /\ books' = [serial |-> books.serial, index |-> index, queue |-> queue,
                      history |-> history, cleared |-> books.cleared]
         /\ history \in [Ends -> Seq(Jobs)] /\ history[status] = kept
         /\ \A other \in Ends \ {status} : history[other] = books.history[other]
    BY <2>2, <2>5, <2>9 DEF BookRecords
  <2> HIDE DEF history
  <2>13. /\ books'.index = index /\ books'.queue = queue /\ books'.history = history
         /\ books'.serial = books.serial
    BY <2>12
  <2>14. books' \in BookRecords BY <2>2, <2>10, <2>11, <2>12 DEF BookRecords
  <2>15. /\ tasks' \in [Jobs -> JobRecords]
         /\ tasks'[j] = [tasks[j] EXCEPT !.status = status]
         /\ \A k \in Jobs \ {j} : tasks'[k] = tasks[k]
    BY <2>2, <2>3, <2>5 DEF JobRecords, JobStatuses
  <2>16. /\ \A k \in Jobs : tasks'[k].id = tasks[k].id /\ tasks'[k].dropped = tasks[k].dropped
         /\ tasks'[j].status = status
    BY <2>2, <2>3, <2>15 DEF JobRecords
  \* Whoever has his place in the books keeps it, if he is not the one who leaves them.
  <2>17. ASSUME NEW k \in Jobs, tasks[k].id \in Jobs, books.index[tasks[k].id] = k
         PROVE  \/ index[tasks[k].id] = k
                \/ k \notin Range(kept) /\ (k = j \/ tasks[k].status = status)
    BY <2>9, <2>11, <2>17, Bounds
  <2>18. IdsGiven'
    <3> SUFFICES ASSUME NEW k \in Jobs
                 PROVE  IF tasks'[k].status = "unborn" THEN tasks'[k].id = Nothing
                                                       ELSE tasks'[k].id \in Jobs
      BY DEF IdsGiven
    <3>1. CASE k = j BY <2>1, <2>4, <2>16, <3>1 DEF Ends
    <3>2. CASE k # j BY <2>2, <2>15, <3>2 DEF IdsGiven
    <3> QED BY <3>1, <3>2
  <2>19. IndexIsTrue'
    <3> SUFFICES ASSUME NEW i \in Jobs, index[i] # Nothing
                 PROVE  /\ tasks'[index[i]].id = i /\ i <= books.serial
                        /\ tasks'[index[i]].status # "unborn"
      BY <2>13 DEF IndexIsTrue
    <3>1. index[i] = books.index[i] /\ books.index[i] \in Jobs BY <2>11, JobsOf
    <3>2. /\ tasks[books.index[i]].id = i /\ i <= books.serial
          /\ tasks[books.index[i]].status # "unborn"
      BY <2>2, <3>1 DEF IndexIsTrue
    <3> QED BY <2>15, <2>16, <3>1, <3>2 DEF Ends
  <2>20. JobsAccounted'
    <3>1. ASSUME NEW k \in Range(queue)
          PROVE  tasks'[k].status = "WAITING" /\ index[tasks'[k].id] = k
      <4>1. /\ k \in Range(books.queue) /\ k # j /\ k \in Jobs
            /\ tasks[k].status = "WAITING" /\ books.index[tasks[k].id] = k
        BY <2>10, QueueIs
      <4>2. tasks[k].id \in Jobs BY <2>2, <4>1 DEF IdsGiven
      <4>3. tasks[k].status # status BY <4>1 DEF Ends
      <4> QED BY <2>15, <2>17, <4>1, <4>2, <4>3
    <3>2. ASSUME NEW k \in Jobs, tasks'[k].status \in {"WAITING", "ACTIVE"},
                 ~tasks'[k].dropped
          PROVE  /\ index[tasks'[k].id] = k
                 /\ tasks'[k].status = "WAITING" => k \in Range(queue)
      <4>1. k # j BY <2>16, <3>2 DEF Ends
      <4>2. /\ tasks[k].status \in {"WAITING", "ACTIVE"} /\ ~tasks[k].dropped
            /\ tasks'[k] = tasks[k]
        BY <2>15, <3>2, <4>1
      <4>3. /\ books.index[tasks[k].id] = k
            /\ tasks[k].status = "WAITING" => k \in Range(books.queue)
        BY <2>2, <4>2 DEF JobsAccounted
      <4>4. tasks[k].id \in Jobs /\ tasks[k].status # status BY <2>2, <4>2 DEF IdsGiven, Ends
      <4> QED BY <2>10, <2>17, <4>1, <4>2, <4>3, <4>4
    <3>3. ASSUME NEW end \in Ends
          PROVE  /\ Len(history[end]) <= HistoryLimit /\ IsInjective(history[end])
                 /\ \A k \in Range(history[end]) :
                      tasks'[k].status = end /\ index[tasks'[k].id] = k
      <4>1. CASE end = status
        <5>1. ASSUME NEW k \in Range(kept)
              PROVE  tasks'[k].status = end /\ index[tasks'[k].id] = k
          <6>1. k \in Jobs /\ books.index[tasks[k].id] = k BY <2>1, <2>3, <2>4, <2>6, <2>9
          <6>2. k = j \/ tasks[k].status = status BY <2>6, <2>9
          <6>3. tasks[k].id \in Jobs BY <2>1, <2>2, <2>4, <6>1, <6>2 DEF IdsGiven, Ends
          <6> QED BY <2>15, <2>16, <2>17, <4>1, <6>1, <6>2, <6>3
        <5> QED BY <2>9, <2>12, <4>1, <5>1
      <4>2. CASE end # status
        <5>1. /\ history[end] = books.history[end]
              /\ Len(history[end]) <= HistoryLimit /\ IsInjective(history[end])
              /\ Range(history[end]) \subseteq Jobs
              /\ \A k \in Range(history[end]) :
                   tasks[k].status = end /\ books.index[tasks[k].id] = k
          BY <2>12, <4>2, HistoryIs
        <5>2. ASSUME NEW k \in Range(history[end])
              PROVE  tasks'[k].status = end /\ index[tasks'[k].id] = k
          <6>1. k \in Jobs /\ tasks[k].status = end /\ books.index[tasks[k].id] = k BY <5>1
          <6>2. k # j /\ tasks[k].id \in Jobs BY <2>2, <2>4, <6>1 DEF IdsGiven, Ends
          <6> QED BY <2>15, <2>17, <4>2, <6>1, <6>2
        <5> QED BY <5>1, <5>2
      <4> QED BY <4>1, <4>2
    <3> QED BY <2>10, <2>13, <3>1, <3>2, <3>3 DEF JobsAccounted
  <2>21. BooksInv' BY <2>14, <2>15, <2>18, <2>19, <2>20 DEF BooksInv
  <2> QED BY <2>1, <2>15, <2>21
<1> QED BY <1>1, <1>2

\* So does a job that is enqueued, in front or behind.
LEMMA EnqueueKeepsBooks ==
  ASSUME BooksInv, NEW front \in BOOLEAN, Enqueue(front)
  PROVE  BooksInv' /\ \A k \in Jobs : HasEnded(k) => tasks'[k] = tasks[k]
<1> DEFINE n == books.serial + 1
           q == books.queue
<1>1. /\ tasks \in [Jobs -> JobRecords] /\ books \in BookRecords
      /\ IdsGiven /\ IndexIsTrue /\ JobsAccounted
  BY DEF BooksInv
<1>2. PICK j \in Jobs :
        /\ tasks[j].status = "unborn"
        /\ tasks' = [tasks EXCEPT ![j].id = n, ![j].status = "WAITING"]
        /\ books' = [books EXCEPT
             !.serial = @ + 1, !.index[n] = j,
             !.queue = IF front THEN <<j>> \o @ ELSE Append(@, j)]
  BY DEF Enqueue
<1>3. n \in Jobs /\ n \in 0 .. MaxJobs /\ n # Nothing
  BY <1>1, Bounds DEF Enqueue, BookRecords, Jobs, Nothing
<1> DEFINE queue == IF front THEN <<j>> \o q ELSE Append(q, j)
           index == [books.index EXCEPT ![n] = j]
<1>4. books.index[n] = Nothing
  <2>1. ~(n <= books.serial) BY <1>1 DEF BookRecords
  <2> QED BY <1>1, <1>3, <2>1 DEF IndexIsTrue
<1>5. j \notin Range(q) BY <1>2, QueueIs
<1>6. /\ queue \in Seq(Jobs) /\ IsInjective(queue) /\ Range(queue) = Range(q) \cup {j}
  <2>1. q \in Seq(Jobs) /\ IsInjective(q) BY QueueIs
  <2>2. /\ <<j>> \o q \in Seq(Jobs) /\ IsInjective(<<j>> \o q)
        /\ Range(<<j>> \o q) = Range(q) \cup {j}
    BY <1>5, <2>1, PutBefore
  <2>3. /\ Append(q, j) \in Seq(Jobs) /\ IsInjective(Append(q, j))
        /\ Range(Append(q, j)) = Range(q) \cup {j}
    BY <1>5, <2>1, AppendedOnce
  <2> QED BY <2>2, <2>3
<1>7. /\ index \in [Jobs -> 0 .. MaxJobs] /\ index[n] = j
      /\ \A i \in Jobs \ {n} : index[i] = books.index[i]
  BY <1>1, <1>3, Bounds DEF BookRecords, Jobs
<1> HIDE DEF queue, index
<1>8. books' = [serial |-> n, index |-> index, queue |-> queue,
                history |-> books.history, cleared |-> books.cleared]
  BY <1>1, <1>2 DEF BookRecords, queue, index
<1>9. /\ books'.serial = n /\ books'.index = index /\ books'.queue = queue
      /\ books'.history = books.history
  BY <1>8
<1>10. books' \in BookRecords BY <1>1, <1>3, <1>6, <1>7, <1>8 DEF BookRecords
<1>11. /\ tasks'[j] = [tasks[j] EXCEPT !.id = n, !.status = "WAITING"]
       /\ tasks'[j] \in JobRecords
       /\ \A k \in Jobs \ {j} : tasks'[k] = tasks[k]
  BY <1>1, <1>2, <1>3 DEF JobRecords, JobStatuses
<1>12. tasks' \in [Jobs -> JobRecords] BY <1>1, <1>2, <1>3 DEF JobRecords, JobStatuses
<1>13. tasks'[j].id = n /\ tasks'[j].status = "WAITING" BY <1>1, <1>11 DEF JobRecords
<1>14. IdsGiven' BY <1>1, <1>3, <1>11, <1>13 DEF IdsGiven
<1>15. IndexIsTrue'
  <2> SUFFICES ASSUME NEW i \in Jobs, index[i] # Nothing
               PROVE  /\ tasks'[index[i]].id = i /\ i <= n
                      /\ tasks'[index[i]].status # "unborn"
    BY <1>9 DEF IndexIsTrue
  <2>1. CASE i = n BY <1>3, <1>7, <1>13, <2>1, Bounds DEF Jobs
  <2>2. CASE i # n
    <3>1. index[i] = books.index[i] /\ books.index[i] \in Jobs BY <1>7, <2>2, JobsOf
    <3>2. /\ tasks[books.index[i]].id = i /\ i <= books.serial
          /\ tasks[books.index[i]].status # "unborn"
      BY <1>1, <3>1 DEF IndexIsTrue
    <3>3. i <= n BY <1>1, <3>2, Bounds DEF Jobs, BookRecords
    <3> QED BY <1>2, <1>11, <3>1, <3>2, <3>3
  <2> QED BY <2>1, <2>2
<1>16. ASSUME NEW k \in Jobs, k # j, books.index[tasks[k].id] = k, tasks[k].status # "unborn"
       PROVE  index[tasks'[k].id] = k
  BY <1>1, <1>4, <1>7, <1>11, <1>16, Bounds DEF IdsGiven
<1>17. JobsAccounted'
  <2>1. ASSUME NEW k \in Range(queue)
        PROVE  tasks'[k].status = "WAITING" /\ index[tasks'[k].id] = k
    <3>1. CASE k = j BY <1>7, <1>13, <3>1
    <3>2. CASE k # j
      <4>1. /\ k \in Jobs /\ tasks[k].status = "WAITING" /\ books.index[tasks[k].id] = k
        BY <1>6, <3>2, QueueIs
      <4> QED BY <1>11, <1>16, <3>2, <4>1
    <3> QED BY <3>1, <3>2
  <2>2. ASSUME NEW k \in Jobs, tasks'[k].status \in {"WAITING", "ACTIVE"},
               ~tasks'[k].dropped
        PROVE  /\ index[tasks'[k].id] = k
               /\ tasks'[k].status = "WAITING" => k \in Range(queue)
    <3>1. CASE k = j BY <1>6, <1>7, <1>13, <3>1
    <3>2. CASE k # j
      <4>1. /\ tasks'[k] = tasks[k] /\ books.index[tasks[k].id] = k
            /\ tasks[k].status = "WAITING" => k \in Range(q)
        BY <1>1, <1>11, <2>2, <3>2 DEF JobsAccounted
      <4>2. tasks[k].status # "unborn" BY <2>2, <4>1
      <4> QED BY <1>6, <1>16, <3>2, <4>1, <4>2
    <3> QED BY <3>1, <3>2
  <2>3. ASSUME NEW end \in Ends
        PROVE  /\ Len(books.history[end]) <= HistoryLimit
               /\ IsInjective(books.history[end])
               /\ \A k \in Range(books.history[end]) :
                    tasks'[k].status = end /\ index[tasks'[k].id] = k
    <3>1. /\ Len(books.history[end]) <= HistoryLimit /\ IsInjective(books.history[end])
          /\ Range(books.history[end]) \subseteq Jobs
          /\ \A k \in Range(books.history[end]) :
               tasks[k].status = end /\ books.index[tasks[k].id] = k
      BY HistoryIs
    <3>2. ASSUME NEW k \in Range(books.history[end])
          PROVE  tasks'[k].status = end /\ index[tasks'[k].id] = k
      <4>1. /\ k \in Jobs /\ tasks[k].status = end /\ books.index[tasks[k].id] = k BY <3>1
      <4>2. end # "unborn" BY DEF Ends
      <4> QED BY <1>2, <1>11, <1>16, <4>1, <4>2
    <3> QED BY <3>1, <3>2
  <2> QED BY <1>6, <1>9, <2>1, <2>2, <2>3 DEF JobsAccounted
<1>18. ASSUME NEW k \in Jobs, HasEnded(k) PROVE tasks'[k] = tasks[k]
  BY <1>2, <1>11, <1>18 DEF HasEnded, Ends
<1> QED BY <1>10, <1>12, <1>14, <1>15, <1>17, <1>18 DEF BooksInv

\* So does a job that is started: it is the first of the queue, where all wait.
LEMMA StartKeepsBooks ==
  ASSUME BooksInv, NEW j \in Jobs, StartJob(j)
  PROVE  BooksInv' /\ \A k \in Jobs : HasEnded(k) => tasks'[k] = tasks[k]
<1> DEFINE q == books.queue
<1>1. /\ tasks \in [Jobs -> JobRecords] /\ books \in BookRecords
      /\ IdsGiven /\ IndexIsTrue /\ JobsAccounted
  BY DEF BooksInv
<1>2. PICK n \in DOMAIN q :
        /\ Waiting(n) /\ \A m \in 1 .. n - 1 : ~Waiting(m)
        /\ j = q[n]
        /\ books' = [books EXCEPT !.queue = SubSeq(@, n + 1, Len(@))]
  BY DEF StartJob
<1>3. /\ q \in Seq(Jobs) /\ IsInjective(q)
      /\ Len(q) \in Nat /\ DOMAIN q = 1 .. Len(q) /\ Range(q) \subseteq Jobs
      /\ \A k \in Range(q) : tasks[k].status = "WAITING" /\ books.index[tasks[k].id] = k
  BY QueueIs
<1>4. \A m \in DOMAIN q : Waiting(m) BY <1>3 DEF Waiting, Range
<1>5. n = 1
  <2>1. n \in 1 .. Len(q) BY <1>3
  <2>2. CASE n # 1
    <3>1. 1 \in 1 .. n - 1 /\ 1 \in DOMAIN q BY <1>3, <2>1, <2>2
    <3> QED BY <1>2, <1>4, <3>1
  <2> QED BY <2>2
<1> DEFINE rest == SubSeq(q, n + 1, Len(q))
<1>6. n \in 0 .. Len(q) BY <1>3
<1>7. /\ rest \in Seq(Jobs) /\ IsInjective(rest)
      /\ Range(rest) = {q[m] : m \in n + 1 .. Len(q)}
  <2>1. q \in Seq(Jobs) /\ IsInjective(q) BY <1>3
  <2> QED BY ONLY <1>6, <2>1, RestOfLine
<1>8. Range(rest) = Range(q) \ {j}
  <2>1. ASSUME NEW m \in n + 1 .. Len(q) PROVE q[m] \in Range(q) \ {j}
    <3>1. m \in DOMAIN q /\ m # n BY <1>3, <1>6
    <3> QED BY <1>2, <1>3, <3>1 DEF Range, IsInjective
  <2>2. ASSUME NEW k \in Range(q) \ {j} PROVE \E m \in n + 1 .. Len(q) : k = q[m]
    <3>1. PICK m \in DOMAIN q : q[m] = k BY DEF Range
    <3>2. m # n BY <1>2, <2>2, <3>1
    <3>3. m \in n + 1 .. Len(q) BY <1>3, <1>5, <3>1, <3>2
    <3> QED BY <3>1, <3>3
  <2> QED BY <1>7, <2>1, <2>2
<1>9. j \in Range(q) /\ tasks[j].status = "WAITING" /\ books.index[tasks[j].id] = j
  BY <1>2, <1>3 DEF Range
<1> HIDE DEF rest
<1>10. books' = [serial |-> books.serial, index |-> books.index, queue |-> rest,
                 history |-> books.history, cleared |-> books.cleared]
  BY <1>1, <1>2 DEF BookRecords, rest
<1>11. /\ books'.serial = books.serial /\ books'.index = books.index
       /\ books'.queue = rest /\ books'.history = books.history
  BY <1>10
<1>12. books' \in BookRecords BY <1>1, <1>7, <1>10 DEF BookRecords
<1>13. tasks' = [tasks EXCEPT ![j].status = "ACTIVE"] BY DEF StartJob
<1>14. /\ tasks' \in [Jobs -> JobRecords] /\ tasks'[j].status = "ACTIVE"
       /\ \A k \in Jobs : tasks'[k].id = tasks[k].id /\ tasks'[k].dropped = tasks[k].dropped
       /\ \A k \in Jobs \ {j} : tasks'[k] = tasks[k]
  BY <1>1, <1>13 DEF JobRecords, JobStatuses
<1>15. IdsGiven' BY <1>1, <1>9, <1>14 DEF IdsGiven
<1>16. IndexIsTrue'
  <2> SUFFICES ASSUME NEW i \in Jobs, books.index[i] # Nothing
               PROVE  /\ tasks'[books.index[i]].id = i /\ i <= books.serial
                      /\ tasks'[books.index[i]].status # "unborn"
    BY <1>11 DEF IndexIsTrue
  <2>1. books.index[i] \in Jobs BY JobsOf
  <2> QED BY <1>1, <1>14, <2>1 DEF IndexIsTrue
<1>17. JobsAccounted'
  <2>1. ASSUME NEW k \in Range(rest)
        PROVE  tasks'[k].status = "WAITING" /\ books.index[tasks'[k].id] = k
    BY <1>3, <1>8, <1>14
  <2>2. ASSUME NEW k \in Jobs, tasks'[k].status \in {"WAITING", "ACTIVE"},
               ~tasks'[k].dropped
        PROVE  /\ books.index[tasks'[k].id] = k
               /\ tasks'[k].status = "WAITING" => k \in Range(rest)
    <3>1. CASE k = j BY <1>9, <1>14, <3>1
    <3>2. CASE k # j
      <4>1. /\ tasks'[k] = tasks[k] /\ books.index[tasks[k].id] = k
            /\ tasks[k].status = "WAITING" => k \in Range(q)
        BY <1>1, <1>14, <2>2, <3>2 DEF JobsAccounted
      <4> QED BY <1>8, <3>2, <4>1
    <3> QED BY <3>1, <3>2
  <2>3. ASSUME NEW end \in Ends
        PROVE  /\ Len(books.history[end]) <= HistoryLimit
               /\ IsInjective(books.history[end])
               /\ \A k \in Range(books.history[end]) :
                    tasks'[k].status = end /\ books.index[tasks'[k].id] = k
    <3>1. /\ Len(books.history[end]) <= HistoryLimit /\ IsInjective(books.history[end])
          /\ Range(books.history[end]) \subseteq Jobs
          /\ \A k \in Range(books.history[end]) :
               tasks[k].status = end /\ books.index[tasks[k].id] = k
      BY HistoryIs
    <3>2. end # "WAITING" BY DEF Ends
    <3> QED BY <1>9, <1>14, <3>1, <3>2
  <2> QED BY <1>7, <1>11, <2>1, <2>2, <2>3 DEF JobsAccounted
<1>18. ASSUME NEW k \in Jobs, HasEnded(k) PROVE tasks'[k] = tasks[k]
  BY <1>9, <1>14, <1>18 DEF HasEnded, Ends
<1> QED BY <1>12, <1>14, <1>15, <1>16, <1>17, <1>18 DEF BooksInv

\* Dropping jobs that have not ended changes nothing else of them.
LEMMA Dropped ==
  ASSUME BooksInv, NEW gone, tasks' = Drop(gone)
  PROVE  /\ tasks' \in [Jobs -> JobRecords]
         /\ \A k \in Jobs :
              /\ tasks'[k].id = tasks[k].id /\ tasks'[k].status = tasks[k].status
              /\ tasks'[k].dropped <=> tasks[k].dropped \/ (k \in gone /\ ~HasEnded(k))
         /\ IdsGiven'
<1>1. tasks \in [Jobs -> JobRecords] BY DEF BooksInv
<1> DEFINE now(k) == tasks[k].dropped \/ (k \in gone /\ ~HasEnded(k))
<1>2. \A k \in Jobs : tasks'[k] = [tasks[k] EXCEPT !.dropped = now(k)] BY DEF Drop
<1>3. \A k \in Jobs : now(k) \in BOOLEAN BY DEF HasEnded
<1> HIDE DEF now
<1>4. ASSUME NEW k \in Jobs
      PROVE  /\ tasks'[k] \in JobRecords
             /\ tasks'[k].id = tasks[k].id /\ tasks'[k].status = tasks[k].status
             /\ tasks'[k].dropped = now(k)
  BY <1>1, <1>2, <1>3 DEF JobRecords
<1>5. tasks' = [k \in Jobs |-> tasks'[k]] BY DEF Drop
<1>6. tasks' \in [Jobs -> JobRecords] BY <1>4, <1>5
<1>7. IdsGiven' BY <1>4 DEF BooksInv, IdsGiven
<1>8. \A k \in Jobs : tasks'[k].dropped <=> tasks[k].dropped \/ (k \in gone /\ ~HasEnded(k))
  BY <1>4 DEF now
<1> QED BY <1>4, <1>6, <1>7, <1>8

\* The end of clear_queue, which keeps who means what ...
LEMMA ClearQueueKeepsBooks ==
  ASSUME BooksInv, tasks' = Drop(Range(books.queue)), books' = [books EXCEPT !.queue = <<>>]
  PROVE  BooksInv'
<1>1. /\ tasks \in [Jobs -> JobRecords] /\ books \in BookRecords
      /\ IdsGiven /\ IndexIsTrue /\ JobsAccounted
  BY DEF BooksInv
<1>2. /\ tasks' \in [Jobs -> JobRecords] /\ IdsGiven'
      /\ \A k \in Jobs :
           /\ tasks'[k].id = tasks[k].id /\ tasks'[k].status = tasks[k].status
           /\ tasks'[k].dropped <=>
                tasks[k].dropped \/ (k \in Range(books.queue) /\ ~HasEnded(k))
  BY Dropped
<1>3. /\ books' \in BookRecords /\ books'.index = books.index /\ books'.queue = <<>>
      /\ books'.serial = books.serial /\ books'.history = books.history
  <2>1. <<>> \in Seq(Jobs) BY EmptySeq
  <2> QED BY <1>1, <2>1 DEF BookRecords
<1>4. IndexIsTrue'
  <2> SUFFICES ASSUME NEW i \in Jobs, books.index[i] # Nothing
               PROVE  /\ tasks'[books.index[i]].id = i /\ i <= books.serial
                      /\ tasks'[books.index[i]].status # "unborn"
    BY <1>3 DEF IndexIsTrue
  <2> QED BY <1>1, <1>2, JobsOf DEF IndexIsTrue
<1>5. JobsAccounted'
  <2>1. IsInjective(<<>>) /\ Range(<<>>) = {} BY DEF IsInjective, Range
  <2>2. ASSUME NEW k \in Jobs, tasks'[k].status \in {"WAITING", "ACTIVE"},
               ~tasks'[k].dropped
        PROVE  books.index[tasks'[k].id] = k /\ tasks'[k].status # "WAITING"
    <3>1. /\ ~tasks[k].dropped /\ tasks[k].status \in {"WAITING", "ACTIVE"}
          /\ k \notin Range(books.queue)
      BY <1>2, <2>2 DEF HasEnded, Ends
    <3> QED BY <1>1, <1>2, <3>1 DEF JobsAccounted
  <2>3. ASSUME NEW end \in Ends
        PROVE  /\ Len(books.history[end]) <= HistoryLimit
               /\ IsInjective(books.history[end])
               /\ \A k \in Range(books.history[end]) :
                    tasks'[k].status = end /\ books.index[tasks'[k].id] = k
    BY <1>2, HistoryIs
  <2> QED BY <1>3, <2>1, <2>2, <2>3 DEF JobsAccounted
<1> QED BY <1>2, <1>3, <1>4, <1>5 DEF BooksInv

\* ... clear_queue without cancelling, which forgets who is dropped ...
LEMMA EraseKeepsBooks ==
  ASSUME BooksInv, QueueIsErased
  PROVE  /\ BooksInv'
         /\ \A k \in Jobs : tasks'[k].status = tasks[k].status
<1> DEFINE gone == Range(books.queue)
           index == [i \in Jobs |-> IF books.index[i] \in gone THEN Nothing ELSE books.index[i]]
<1>1. /\ tasks \in [Jobs -> JobRecords] /\ books \in BookRecords
      /\ IdsGiven /\ IndexIsTrue /\ JobsAccounted
  BY DEF BooksInv
<1>2. /\ tasks' \in [Jobs -> JobRecords] /\ IdsGiven'
      /\ \A k \in Jobs :
           /\ tasks'[k].id = tasks[k].id /\ tasks'[k].status = tasks[k].status
           /\ tasks'[k].dropped <=> tasks[k].dropped \/ (k \in gone /\ ~HasEnded(k))
  <2>1. tasks' = Drop(gone) BY DEF QueueIsErased
  <2> QED BY <2>1, Dropped
<1>3. /\ index \in [Jobs -> 0 .. MaxJobs]
      /\ \A i \in Jobs : index[i] = IF books.index[i] \in gone THEN Nothing ELSE books.index[i]
  BY <1>1, Bounds DEF BookRecords, Nothing
<1>4. books' = [books EXCEPT !.queue = <<>>, !.index = index] BY DEF QueueIsErased
<1> HIDE DEF index
<1>5. /\ books' \in BookRecords /\ books'.index = index /\ books'.queue = <<>>
      /\ books'.serial = books.serial /\ books'.history = books.history
  <2>1. <<>> \in Seq(Jobs) BY EmptySeq
  <2> QED BY <1>1, <1>3, <1>4, <2>1 DEF BookRecords
<1>6. IndexIsTrue'
  <2> SUFFICES ASSUME NEW i \in Jobs, index[i] # Nothing
               PROVE  /\ tasks'[index[i]].id = i /\ i <= books.serial
                      /\ tasks'[index[i]].status # "unborn"
    BY <1>5 DEF IndexIsTrue
  <2>1. index[i] = books.index[i] /\ books.index[i] \in Jobs BY <1>3, JobsOf
  <2> QED BY <1>1, <1>2, <2>1 DEF IndexIsTrue
<1>7. ASSUME NEW k \in Jobs, tasks[k].status # "unborn", books.index[tasks[k].id] = k,
             k \notin gone
      PROVE  index[tasks'[k].id] = k
  BY <1>1, <1>2, <1>3, <1>7 DEF IdsGiven
<1>8. JobsAccounted'
  <2>1. IsInjective(<<>>) /\ Range(<<>>) = {} BY DEF IsInjective, Range
  <2>2. ASSUME NEW k \in Jobs, tasks'[k].status \in {"WAITING", "ACTIVE"},
               ~tasks'[k].dropped
        PROVE  index[tasks'[k].id] = k /\ tasks'[k].status # "WAITING"
    <3>1. /\ ~tasks[k].dropped /\ tasks[k].status \in {"WAITING", "ACTIVE"}
          /\ k \notin gone
      BY <1>2, <2>2 DEF HasEnded, Ends
    <3>2. /\ books.index[tasks[k].id] = k
          /\ tasks[k].status = "WAITING" => k \in gone
      BY <1>1, <3>1 DEF JobsAccounted
    <3>3. tasks[k].status # "unborn" BY <3>1
    <3> QED BY <1>2, <1>7, <3>1, <3>2, <3>3
  <2>3. ASSUME NEW end \in Ends
        PROVE  /\ Len(books.history[end]) <= HistoryLimit
               /\ IsInjective(books.history[end])
               /\ \A k \in Range(books.history[end]) :
                    tasks'[k].status = end /\ index[tasks'[k].id] = k
    <3>1. /\ Len(books.history[end]) <= HistoryLimit /\ IsInjective(books.history[end])
          /\ Range(books.history[end]) \subseteq Jobs
          /\ \A k \in Range(books.history[end]) :
               tasks[k].status = end /\ books.index[tasks[k].id] = k
      BY HistoryIs
    <3>2. ASSUME NEW k \in Range(books.history[end])
          PROVE  tasks'[k].status = end /\ index[tasks'[k].id] = k
      <4>1. k \in Jobs /\ tasks[k].status = end /\ books.index[tasks[k].id] = k BY <3>1
      <4>2. tasks[k].status # "unborn" /\ tasks[k].status # "WAITING" BY <4>1 DEF Ends
      <4>3. k \notin gone BY <4>2, QueueIs
      <4> QED BY <1>2, <1>7, <4>1, <4>2, <4>3
    <3> QED BY <3>1, <3>2
  <2> QED BY <1>5, <2>1, <2>2, <2>3 DEF JobsAccounted
<1> QED BY <1>2, <1>5, <1>6, <1>8 DEF BooksInv

\* ... and the end of clear_all, which forgets everybody.
LEMMA ClearAllKeepsBooks ==
  ASSUME BooksInv, tasks' = Drop(Known), books' = [NoBooks EXCEPT !.cleared = books.cleared + 1]
  PROVE  BooksInv'
<1>1. /\ tasks \in [Jobs -> JobRecords] /\ books \in BookRecords
      /\ IdsGiven /\ IndexIsTrue /\ JobsAccounted
  BY DEF BooksInv
<1>2. /\ tasks' \in [Jobs -> JobRecords] /\ IdsGiven'
      /\ \A k \in Jobs :
           /\ tasks'[k].id = tasks[k].id /\ tasks'[k].status = tasks[k].status
           /\ tasks'[k].dropped <=> tasks[k].dropped \/ (k \in Known /\ ~HasEnded(k))
  BY Dropped
<1>3. <<>> \in Seq(Jobs) /\ Len(<<>>) = 0 /\ IsInjective(<<>>) /\ Range(<<>>) = {}
  BY EmptySeq DEF IsInjective, Range
<1> DEFINE index == [i \in Jobs |-> Nothing]
           history == [s \in Ends |-> <<>>]
           cleared == books.cleared + 1
           queue == <<>>
<1>4. books' = [serial |-> 0, index |-> index, queue |-> queue,
                history |-> history, cleared |-> cleared]
  BY DEF NoBooks
<1>5. /\ books'.queue = <<>>
      /\ \A i \in Jobs : books'.index[i] = Nothing
      /\ \A s \in Ends : books'.history[s] = <<>>
  BY <1>4
<1>6. books' \in BookRecords
  <2>1. index \in [Jobs -> 0 .. MaxJobs] BY Bounds DEF Nothing
  <2>2. history \in [Ends -> Seq(Jobs)] /\ queue \in Seq(Jobs) BY <1>3
  <2>3. cleared \in Nat /\ 0 \in 0 .. MaxJobs BY <1>1, Bounds DEF BookRecords
  <2> HIDE DEF index, history, cleared, queue
  <2> QED BY ONLY <1>4, <2>1, <2>2, <2>3 DEF BookRecords
<1>7. IndexIsTrue' BY <1>5 DEF IndexIsTrue
<1>8. ASSUME NEW k \in Jobs, tasks'[k].status \in {"WAITING", "ACTIVE"} PROVE tasks'[k].dropped
  <2>1. /\ ~HasEnded(k) /\ tasks[k].status \in {"WAITING", "ACTIVE"}
        /\ tasks[k].status # "unborn"
    BY <1>2, <1>8 DEF HasEnded, Ends
  <2>2. CASE ~tasks[k].dropped
    <3>1. books.index[tasks[k].id] = k /\ tasks[k].id \in Jobs
      BY <1>1, <2>1, <2>2 DEF JobsAccounted, IdsGiven
    <3>2. k \in Known BY <1>1, <3>1, Bounds DEF Known, Range, BookRecords
    <3> QED BY <1>2, <2>1, <3>2
  <2> QED BY <1>2, <2>2
<1>9. JobsAccounted'
  <2>1. IsInjective(books'.queue) /\ Range(books'.queue) = {} BY <1>3, <1>5
  <2>2. ASSUME NEW s \in Ends
        PROVE  /\ Len(books'.history[s]) <= HistoryLimit
               /\ IsInjective(books'.history[s]) /\ Range(books'.history[s]) = {}
    BY <1>3, <1>5, Bounds
  <2> QED BY <1>8, <2>1, <2>2 DEF JobsAccounted
<1> QED BY <1>2, <1>6, <1>7, <1>9 DEF BooksInv

-----------------------------------------------------------------------------
(***************************************************************************)
(* The operations under way.                                               *)
(***************************************************************************)
LEMMA TopOfStack ==
  ASSUME FramesRight, stack # <<>>
  PROVE  Top \in RightFrames /\ Below \in Seq(RightFrames)
<1>1. Len(stack) \in Nat \ {0} BY EmptySeq DEF FramesRight
<1>2. \A n \in 1 .. Len(stack) : stack[n] \in RightFrames BY ElementOfSeq DEF FramesRight
<1>3. Top \in RightFrames BY <1>1, <1>2 DEF Top
<1>4. Len(stack) - 1 \in Int /\ \A n \in 1 .. Len(stack) - 1 : stack[n] \in RightFrames
  BY <1>1, <1>2
<1>5. SubSeq(stack, 1, Len(stack) - 1) \in Seq(RightFrames) BY <1>4, SubSeqProperties
<1> QED BY <1>3, <1>5 DEF Below

LEMMA FrameIsRight ==
  ASSUME BooksInv, NEW kind \in FrameKinds, NEW j \in 0 .. MaxJobs, NEW rest \in Seq(Jobs),
         NEW open \in BOOLEAN, kind \notin {"clearQueue", "clearAll"} => j \in Jobs
  PROVE  Frame(kind, j, rest, open) \in RightFrames
<1>1. books.cleared \in Nat BY DEF BooksInv, BookRecords
<1> QED BY <1>1 DEF Frame, RightFrames, FrameRecords

LEMMA PushIsRight ==
  ASSUME FramesRight, NEW f \in RightFrames, Push(f)
  PROVE  FramesRight'
BY AppendProperties DEF FramesRight, Push

\* What is known is finite, and clear_all goes through it one by one.
LEMMA LineOfKnown ==
  ASSUME BooksInv, NEW line \in [1 .. Cardinality(Known) -> Known]
  PROVE  line \in Seq(Jobs)
<1>1. Known \subseteq Jobs BY JobsOf, Bounds DEF Known, Range, BooksInv, BookRecords
<1>2. Cardinality(Known) \in Nat
  <2>1. IsFiniteSet(Jobs) BY Bounds, FS_Interval DEF Jobs
  <2> QED BY <1>1, <2>1, FS_Subset, FS_CardinalityType
<1> DEFINE n == Cardinality(Known)
<1>3. n \in Nat /\ line \in [1 .. n -> Jobs] BY <1>1, <1>2
<1> HIDE DEF n
<1> QED BY <1>3

LEMMA MeansAnId ==
  ASSUME BooksInv, NEW j \in Jobs
  PROVE  tasks[j].id \in 0 .. MaxJobs
BY DEF BooksInv, JobRecords

\* Each step, with what it does to jobs that ended.
LEMMA JobsStep ==
  ASSUME JobsInv, JobsNext
  PROVE  JobsInv' /\ \A k \in Jobs : HasEnded(k) => tasks'[k].status = tasks[k].status
<1>0. BooksInv /\ FramesRight /\ ConsumerRight BY DEF JobsInv
<1>a. ASSUME UNCHANGED <<tasks, books>>
      PROVE  BooksInv' /\ \A k \in Jobs : HasEnded(k) => tasks'[k].status = tasks[k].status
  <2>1. BooksInv' BY <1>0, <1>a DEF BooksInv, IdsGiven, IndexIsTrue, JobsAccounted
  <2> QED BY <1>a, <2>1
<1>b. ASSUME UNCHANGED stack PROVE FramesRight' BY <1>0, <1>b DEF FramesRight
<1>c. ASSUME UNCHANGED consumer PROVE ConsumerRight' BY <1>0, <1>c DEF ConsumerRight
<1>d. ASSUME stack # <<>>, stack' = Below PROVE FramesRight'
  BY <1>0, <1>d, TopOfStack DEF FramesRight
<1>e. ASSUME stack # <<>>, NEW f \in RightFrames, stack' = Append(Below, f) PROVE FramesRight'
  BY <1>0, <1>e, TopOfStack, AppendProperties DEF FramesRight
<1>f. <<>> \in Seq(Jobs) /\ 0 \in 0 .. MaxJobs BY EmptySeq, Bounds
<1>g. ASSUME NEW kind \in FrameKinds \ {"clearQueue", "clearAll"}, stack # <<>>,
             Top.kind \notin {"clearQueue", "clearAll"}
      PROVE  [Top EXCEPT !.kind = kind] \in RightFrames /\ Top.job \in Jobs
  <2>1. Top \in RightFrames BY <1>0, <1>g, TopOfStack
  <2> QED BY <1>g, <2>1 DEF RightFrames, FrameRecords
<1>1. ASSUME NEW front \in BOOLEAN, Enqueue(front)
      PROVE  JobsInv' /\ \A k \in Jobs : HasEnded(k) => tasks'[k].status = tasks[k].status
  BY <1>0, <1>1, <1>b, <1>c, EnqueueKeepsBooks DEF Enqueue, JobsInv
<1>2. ASSUME NEW id \in Jobs, NEW status \in Ends, UserEndsJob(id, status)
      PROVE  JobsInv' /\ \A k \in Jobs : HasEnded(k) => tasks'[k].status = tasks[k].status
  <2>1. id \in 0 .. MaxJobs BY DEF Jobs
  <2> QED BY <1>0, <1>2, <1>b, <1>c, <2>1, EndKeepsBooks DEF UserEndsJob, JobsInv
<1>3. ASSUME UserStartsJob
      PROVE  JobsInv' /\ \A k \in Jobs : HasEnded(k) => tasks'[k].status = tasks[k].status
  BY <1>0, <1>3, <1>b, <1>c, StartKeepsBooks DEF UserStartsJob, JobsInv
<1>4. ASSUME RunBegins
      PROVE  JobsInv' /\ \A k \in Jobs : HasEnded(k) => tasks'[k].status = tasks[k].status
  <2>1. PICK j \in Jobs : StartJob(j) /\ Push(Frame("runStarted", j, <<>>, TRUE))
    BY <1>4 DEF RunBegins
  <2>2. Frame("runStarted", j, <<>>, TRUE) \in RightFrames
    <3>1. j \in 0 .. MaxJobs /\ "runStarted" \in FrameKinds BY DEF Jobs, FrameKinds
    <3> QED BY <1>0, <1>f, <3>1, FrameIsRight
  <2>3. FramesRight' BY <1>0, <2>1, <2>2, PushIsRight
  <2> QED BY <1>0, <1>4, <1>c, <2>1, <2>3, StartKeepsBooks DEF RunBegins, JobsInv
<1>5. ASSUME RunProcesses
      PROVE  JobsInv' /\ \A k \in Jobs : HasEnded(k) => tasks'[k].status = tasks[k].status
  <2>1. stack # <<>> /\ Top.kind = "runStarted" BY <1>5 DEF RunProcesses, OnTop
  <2>2. [Top EXCEPT !.kind = "runProcessing"] \in RightFrames BY <1>g, <2>1 DEF FrameKinds
  <2>3. FramesRight' BY <1>5, <1>d, <1>e, <2>1, <2>2 DEF RunProcesses
  <2> QED BY <1>5, <1>a, <1>c, <2>3 DEF RunProcesses, JobsInv
<1>6. ASSUME RunReturns
      PROVE  JobsInv' /\ \A k \in Jobs : HasEnded(k) => tasks'[k].status = tasks[k].status
  <2>1. stack # <<>> /\ Top.kind = "runProcessing" /\ stack' = Below /\ UNCHANGED consumer
    BY <1>6 DEF RunReturns, OnTop
  <2>2. Top.job \in Jobs BY <1>g, <2>1 DEF FrameKinds
  <2>3. BooksInv' /\ \A k \in Jobs : HasEnded(k) => tasks'[k].status = tasks[k].status
    <3>1. ASSUME NEW status \in {"COMPLETED", "FAILED"}, EndJob(tasks[Top.job].id, status)
          PROVE  BooksInv' /\ \A k \in Jobs : HasEnded(k) => tasks'[k].status = tasks[k].status
      <4>1. status \in Ends /\ tasks[Top.job].id \in 0 .. MaxJobs
        BY <1>0, <2>2, MeansAnId DEF Ends
      <4> QED BY <1>0, <3>1, <4>1, EndKeepsBooks
    <3> QED BY <1>6, <1>a, <3>1 DEF RunReturns
  <2> QED BY <1>c, <1>d, <2>1, <2>3 DEF JobsInv
<1>7. ASSUME ClearQueueBegins
      PROVE  JobsInv' /\ \A k \in Jobs : HasEnded(k) => tasks'[k].status = tasks[k].status
  <2>1. Frame("clearQueue", Nothing, books.queue, FALSE) \in RightFrames
    BY <1>0, <1>f, QueueIs, FrameIsRight DEF FrameKinds, Nothing
  <2>2. FramesRight' BY <1>0, <1>7, <2>1, PushIsRight DEF ClearQueueBegins
  <2> QED BY <1>7, <1>a, <1>c, <2>2 DEF ClearQueueBegins, JobsInv
<1>8. ASSUME QueueIsErased
      PROVE  JobsInv' /\ \A k \in Jobs : HasEnded(k) => tasks'[k].status = tasks[k].status
  <2>1. UNCHANGED <<stack, consumer>> BY <1>8 DEF QueueIsErased
  <2> QED BY <1>0, <1>8, <1>b, <1>c, <2>1, EraseKeepsBooks DEF JobsInv
<1>9. ASSUME OneIsCleared
      PROVE  JobsInv' /\ \A k \in Jobs : HasEnded(k) => tasks'[k].status = tasks[k].status
  <2> DEFINE j == Head(Top.rest)
             due == Top.kind = "clearQueue" \/ ~HasEnded(j)
             told == due /\ Endable(tasks[j].id)
             f == [Top EXCEPT !.rest = Tail(@), !.open = told]
  <2>1. /\ stack # <<>> /\ Top.kind \in {"clearQueue", "clearAll"} /\ Top.rest # <<>>
        /\ IF due THEN EndJob(tasks[j].id, "CANCELLED") ELSE UNCHANGED <<tasks, books>>
        /\ stack' = Append(Below, f) /\ UNCHANGED consumer
    BY <1>9 DEF OneIsCleared, OnTop
  <2>2. Top \in RightFrames /\ Top.rest \in Seq(Jobs)
    BY <1>0, <2>1, TopOfStack DEF RightFrames, FrameRecords
  <2>3. j \in Jobs /\ Tail(Top.rest) \in Seq(Jobs) BY <2>1, <2>2, HeadTailProperties
  <2>4. f \in RightFrames
    <3>1. told \in BOOLEAN BY DEF Endable
    <3> HIDE DEF told
    <3> QED BY <2>1, <2>2, <2>3, <3>1 DEF RightFrames, FrameRecords
  <2>5. FramesRight' BY <1>e, <2>1, <2>4
  <2>6. CASE due
    <3>1. "CANCELLED" \in Ends /\ tasks[j].id \in 0 .. MaxJobs BY <1>0, <2>3, MeansAnId DEF Ends
    <3>2. EndJob(tasks[j].id, "CANCELLED") BY <2>1, <2>6
    <3>3. BooksInv' /\ \A k \in Jobs : HasEnded(k) => tasks'[k].status = tasks[k].status
      BY <1>0, <3>1, <3>2, EndKeepsBooks
    <3> QED BY <1>c, <2>1, <2>5, <3>3 DEF JobsInv
  <2>7. CASE ~due BY <1>a, <1>c, <2>1, <2>5, <2>7 DEF JobsInv
  <2> QED BY <2>6, <2>7
<1>10. ASSUME ClearQueueEnds
       PROVE  JobsInv' /\ \A k \in Jobs : HasEnded(k) => tasks'[k].status = tasks[k].status
  <2>1. stack # <<>> /\ stack' = Below /\ UNCHANGED consumer BY <1>10 DEF ClearQueueEnds, OnTop
  <2>2. CASE Top.cleared = books.cleared
    <3>1. tasks' = Drop(Range(books.queue)) /\ books' = [books EXCEPT !.queue = <<>>]
      BY <1>10, <2>2 DEF ClearQueueEnds
    <3>2. BooksInv' /\ \A k \in Jobs : tasks'[k].status = tasks[k].status
      BY <1>0, <3>1, ClearQueueKeepsBooks, Dropped
    <3> QED BY <1>c, <1>d, <2>1, <3>2 DEF JobsInv
  <2>3. CASE Top.cleared # books.cleared
    <3>1. UNCHANGED <<tasks, books>> BY <1>10, <2>3 DEF ClearQueueEnds
    <3> QED BY <1>a, <1>c, <1>d, <2>1, <3>1 DEF JobsInv
  <2> QED BY <2>2, <2>3
<1>11. ASSUME ClearAllBegins
       PROVE  JobsInv' /\ \A k \in Jobs : HasEnded(k) => tasks'[k].status = tasks[k].status
  <2>1. PICK line \in [1 .. Cardinality(Known) -> Known] :
          Push(Frame("clearAll", Nothing, line, FALSE))
    BY <1>11 DEF ClearAllBegins
  <2>2. line \in Seq(Jobs) BY <1>0, LineOfKnown
  <2>3. Frame("clearAll", Nothing, line, FALSE) \in RightFrames
    BY <1>0, <1>f, <2>2, FrameIsRight DEF FrameKinds, Nothing
  <2>4. FramesRight' BY <1>0, <2>1, <2>3, PushIsRight
  <2> QED BY <1>11, <1>a, <1>c, <2>4 DEF ClearAllBegins, JobsInv
<1>12. ASSUME ClearAllEnds
       PROVE  JobsInv' /\ \A k \in Jobs : HasEnded(k) => tasks'[k].status = tasks[k].status
  <2>1. /\ stack # <<>> /\ stack' = Below /\ UNCHANGED consumer
        /\ tasks' = Drop(Known) /\ books' = [NoBooks EXCEPT !.cleared = books.cleared + 1]
    BY <1>12 DEF ClearAllEnds, OnTop
  <2>2. BooksInv' /\ \A k \in Jobs : tasks'[k].status = tasks[k].status
    BY <1>0, <2>1, ClearAllKeepsBooks, Dropped
  <2> QED BY <1>c, <1>d, <2>1, <2>2 DEF JobsInv
<1>h. ASSUME consumer' = [AtRest EXCEPT !.busy = TRUE] \/ consumer' = AtRest
      PROVE  ConsumerRight'
  <2>1. AtRest \in [busy : BOOLEAN, waitsFor : 0 .. MaxJobs,
                    signalled : BOOLEAN, cancelled : BOOLEAN]
    BY <1>f DEF AtRest, Nothing
  <2> QED BY <1>h, <2>1 DEF ConsumerRight
<1>13. ASSUME WorkBegins
       PROVE  JobsInv' /\ \A k \in Jobs : HasEnded(k) => tasks'[k].status = tasks[k].status
  <2>1. PICK j \in Jobs : StartJob(j) /\ Push(Frame("workStarted", j, <<>>, TRUE))
    BY <1>13 DEF WorkBegins
  <2>2. Frame("workStarted", j, <<>>, TRUE) \in RightFrames
    <3>1. j \in 0 .. MaxJobs /\ "workStarted" \in FrameKinds BY DEF Jobs, FrameKinds
    <3> QED BY <1>0, <1>f, <3>1, FrameIsRight
  <2>3. FramesRight' BY <1>0, <2>1, <2>2, PushIsRight
  <2> QED BY <1>0, <1>13, <1>h, <2>1, <2>3, StartKeepsBooks DEF WorkBegins, JobsInv
<1>14. ASSUME WorkProcesses
       PROVE  JobsInv' /\ \A k \in Jobs : HasEnded(k) => tasks'[k].status = tasks[k].status
  <2>1. stack # <<>> /\ Top.kind = "workStarted" /\ UNCHANGED <<tasks, books>>
    BY <1>14 DEF WorkProcesses, OnTop
  <2>2. [Top EXCEPT !.kind = "workProcessing"] \in RightFrames BY <1>g, <2>1 DEF FrameKinds
  <2>3. FramesRight' /\ ConsumerRight'
    BY <1>14, <1>c, <1>d, <1>e, <1>h, <2>1, <2>2 DEF WorkProcesses
  <2> QED BY <1>a, <2>1, <2>3 DEF JobsInv
<1>i. ASSUME NEW j \in Jobs, Apply(j)
      PROVE  BooksInv' /\ \A k \in Jobs : HasEnded(k) => tasks'[k].status = tasks[k].status
  <2>1. ASSUME NEW status \in {"COMPLETED", "FAILED"}, EndJob(tasks[j].id, status)
        PROVE  BooksInv' /\ \A k \in Jobs : HasEnded(k) => tasks'[k].status = tasks[k].status
    <3>1. status \in Ends /\ tasks[j].id \in 0 .. MaxJobs BY <1>0, MeansAnId DEF Ends
    <3> QED BY <1>0, <2>1, <3>1, EndKeepsBooks
  <2> QED BY <1>i, <1>a, <2>1 DEF Apply
<1>15. ASSUME WorkReturns
       PROVE  JobsInv' /\ \A k \in Jobs : HasEnded(k) => tasks'[k].status = tasks[k].status
  <2>1. /\ stack # <<>> /\ Top.kind = "workProcessing" /\ Apply(Top.job)
        /\ stack' = Append(Below, [Top EXCEPT !.kind = "workDone"]) /\ UNCHANGED consumer
    BY <1>15 DEF WorkReturns, OnTop
  <2>2. [Top EXCEPT !.kind = "workDone"] \in RightFrames /\ Top.job \in Jobs
    BY <1>g, <2>1 DEF FrameKinds
  <2> QED BY <1>c, <1>e, <1>i, <2>1, <2>2 DEF JobsInv
<1>16. ASSUME WorkAwaits
       PROVE  JobsInv' /\ \A k \in Jobs : HasEnded(k) => tasks'[k].status = tasks[k].status
  <2>1. /\ stack # <<>> /\ Top.kind = "workProcessing" /\ UNCHANGED <<tasks, books>>
        /\ stack' = Below /\ consumer' = [consumer EXCEPT !.waitsFor = Top.job]
    BY <1>16 DEF WorkAwaits, OnTop
  <2>2. Top.job \in 0 .. MaxJobs
    <3>1. Top.job \in Jobs BY <1>g, <2>1 DEF FrameKinds
    <3> QED BY <3>1 DEF Jobs
  <2>3. ConsumerRight' BY <1>0, <2>1, <2>2 DEF ConsumerRight
  <2> QED BY <1>a, <1>d, <2>1, <2>3 DEF JobsInv
<1>17. ASSUME WaitIsSettled
       PROVE  JobsInv' /\ \A k \in Jobs : HasEnded(k) => tasks'[k].status = tasks[k].status
  <2>1. ConsumerRight' BY <1>0, <1>17 DEF ConsumerRight, WaitIsSettled
  <2> QED BY <1>17, <1>a, <1>b, <2>1 DEF WaitIsSettled, JobsInv
<1>18. ASSUME WaitReturns
       PROVE  JobsInv' /\ \A k \in Jobs : HasEnded(k) => tasks'[k].status = tasks[k].status
  <2> DEFINE j == consumer.waitsFor
  <2>1. j \in Jobs /\ j \in 0 .. MaxJobs
    BY <1>0, <1>18, Bounds DEF WaitReturns, ConsumerRight, Jobs, Nothing
  <2>2. tasks[j].id \in 0 .. MaxJobs /\ "CANCELLED" \in Ends /\ "FAILED" \in Ends
    BY <1>0, <2>1, MeansAnId DEF Ends
  <2>3. \/ UNCHANGED <<tasks, books>> \/ Apply(j)
        \/ EndJob(tasks[j].id, "CANCELLED") \/ EndJob(tasks[j].id, "FAILED")
    BY <1>18 DEF WaitReturns
  <2>4. BooksInv' /\ \A k \in Jobs : HasEnded(k) => tasks'[k].status = tasks[k].status
    BY <1>0, <1>a, <1>i, <2>1, <2>2, <2>3, EndKeepsBooks
  <2>5. Frame("workDone", j, <<>>, TRUE) \in RightFrames
    BY <1>0, <1>f, <2>1, FrameIsRight DEF FrameKinds
  <2>6. stack' = <<Frame("workDone", j, <<>>, TRUE)>> /\ consumer' = [AtRest EXCEPT !.busy = TRUE]
    BY <1>18 DEF WaitReturns
  <2>7. FramesRight'
    <3>1. \A f \in RightFrames : <<f>> \in Seq(RightFrames) OBVIOUS
    <3> QED BY <2>5, <2>6, <3>1 DEF FramesRight
  <2> QED BY <1>h, <2>4, <2>6, <2>7 DEF JobsInv
<1>19. ASSUME WorkEnds
       PROVE  JobsInv' /\ \A k \in Jobs : HasEnded(k) => tasks'[k].status = tasks[k].status
  BY <1>19, <1>a, <1>d, <1>h DEF WorkEnds, OnTop, JobsInv
<1> QED BY <1>1, <1>2, <1>3, <1>4, <1>5, <1>6, <1>7, <1>8, <1>9, <1>10, <1>11, <1>12, <1>13,
     <1>14, <1>15, <1>16, <1>17, <1>18, <1>19 DEF JobsNext

LEMMA JobsStart ==
  ASSUME JobsInit
  PROVE  JobsInv
<1>1. <<>> \in Seq(Jobs) /\ Len(<<>>) = 0 /\ IsInjective(<<>>) /\ Range(<<>>) = {}
  BY EmptySeq DEF IsInjective, Range
<1>2. 0 \in 0 .. MaxJobs BY Bounds
<1> DEFINE index == [i \in Jobs |-> Nothing]
           history == [s \in Ends |-> <<>>]
           queue == <<>>
<1>3. books = [serial |-> 0, index |-> index, queue |-> queue, history |-> history,
               cleared |-> 0]
  BY DEF JobsInit, NoBooks
<1>4. /\ books.queue = <<>>
      /\ \A i \in Jobs : books.index[i] = Nothing
      /\ \A s \in Ends : books.history[s] = <<>>
  BY <1>3
<1>5. books \in BookRecords
  <2>1. index \in [Jobs -> 0 .. MaxJobs] BY <1>2 DEF Nothing
  <2>2. history \in [Ends -> Seq(Jobs)] /\ queue \in Seq(Jobs) BY <1>1
  <2> HIDE DEF index, history, queue
  <2> QED BY ONLY <1>2, <1>3, <2>1, <2>2 DEF BookRecords
<1>6. /\ tasks \in [Jobs -> JobRecords]
      /\ \A j \in Jobs : tasks[j].id = Nothing /\ tasks[j].status = "unborn"
  BY <1>2 DEF JobsInit, JobRecords, JobStatuses, Nothing
<1>7. IdsGiven /\ IndexIsTrue BY <1>4, <1>6 DEF IdsGiven, IndexIsTrue
<1>8. JobsAccounted
  <2>1. IsInjective(books.queue) /\ Range(books.queue) = {} BY <1>1, <1>4
  <2>2. ASSUME NEW s \in Ends
        PROVE  /\ Len(books.history[s]) <= HistoryLimit
               /\ IsInjective(books.history[s]) /\ Range(books.history[s]) = {}
    BY <1>1, <1>4, Bounds
  <2> QED BY <1>6, <2>1, <2>2 DEF JobsAccounted
<1>9. FramesRight BY EmptySeq DEF JobsInit, FramesRight
<1>10. ConsumerRight BY <1>2 DEF JobsInit, AtRest, ConsumerRight, Nothing
<1> QED BY <1>5, <1>6, <1>7, <1>8, <1>9, <1>10 DEF JobsInv, BooksInv

\* In every state the books are right, and so is every frame that names a job.
THEOREM JobsInvariant == JobsSpec => []JobsInv
<1>1. JobsInv /\ [JobsNext]_jobVars => JobsInv'
  <2> SUFFICES ASSUME JobsInv, [JobsNext]_jobVars PROVE JobsInv' OBVIOUS
  <2>1. CASE JobsNext BY <2>1, JobsStep
  <2>2. CASE UNCHANGED jobVars
    BY <2>2 DEF jobVars, JobsInv, BooksInv, IdsGiven, IndexIsTrue, JobsAccounted,
                FramesRight, ConsumerRight
  <2> QED BY <2>1, <2>2
<1> QED BY <1>1, JobsStart, PTL DEF JobsSpec

\* Every variable keeps its type.
THEOREM JobsTypes == JobsSpec => []JobsTypeOK
<1>1. JobsInv => JobsTypeOK
  <2> SUFFICES ASSUME JobsInv PROVE JobsTypeOK OBVIOUS
  <2>1. stack \in Seq(FrameRecords)
    <3>1. Len(stack) \in Nat /\ DOMAIN stack = 1 .. Len(stack)
      BY LenProperties DEF JobsInv, FramesRight
    <3>2. \A n \in 1 .. Len(stack) : stack[n] \in FrameRecords
      BY ElementOfSeq DEF JobsInv, FramesRight, RightFrames
    <3>3. stack = [n \in 1 .. Len(stack) |-> stack[n]] BY DEF JobsInv, FramesRight
    <3> QED BY <3>1, <3>2, <3>3
  <2> QED
    BY <2>1 DEF JobsInv, BooksInv, ConsumerRight, JobsTypeOK,
                JobRecords, BookRecords, FrameRecords
<1> QED BY <1>1, JobsInvariant, PTL

\* Whatever handlers and processors call in the middle of an operation: the queue holds
\* who waits, a job that has not ended is known by its id, and a history who ended so.
THEOREM BooksAreRight == JobsSpec => []JobsAccounted
<1>1. JobsInv => JobsAccounted BY DEF JobsInv, BooksInv
<1> QED BY <1>1, JobsInvariant, PTL

-----------------------------------------------------------------------------
\* Ending the job that an id still means changes no other job.
LEMMA EndsHimself ==
  ASSUME BooksInv, NEW j \in Jobs, NEW status \in Ends, EndJob(tasks[j].id, status),
         tasks[j].status # "unborn" => books.index[tasks[j].id] = j
  PROVE  OwnResult(j)
<1>1. tasks[j].id \in 0 .. MaxJobs BY MeansAnId
<1>2. \A k \in Jobs : k # Means(tasks[j].id) => tasks'[k] = tasks[k] BY <1>1, EndKeepsBooks
<1>3. Means(tasks[j].id) \in {j, Nothing} BY DEF BooksInv, IdsGiven, Means
<1> QED BY <1>2, <1>3, Bounds DEF OwnResult

\* A job that has not ended and was not dropped is the one its id means.
LEMMA StillMeant ==
  ASSUME BooksInv, NEW j \in Jobs, ~HasEnded(j), ~tasks[j].dropped
  PROVE  tasks[j].status # "unborn" => books.index[tasks[j].id] = j
BY DEF BooksInv, JobsAccounted, JobRecords, JobStatuses, HasEnded

LEMMA AppliedToOne ==
  ASSUME BooksInv, NEW j \in Jobs, ~tasks[j].dropped, Apply(j)
  PROVE  OwnResult(j)
<1>1. CASE HasEnded(j) BY <1>1 DEF Apply, OwnResult
<1>2. CASE ~HasEnded(j)
  <2>1. PICK status \in {"COMPLETED", "FAILED"} : EndJob(tasks[j].id, status) BY <1>2 DEF Apply
  <2>2. status \in Ends BY DEF Ends
  <2> QED BY <1>2, <2>1, <2>2, StillMeant, EndsHimself
<1> QED BY <1>1, <1>2

\* A job ends once, and a result ends the job it belongs to or none, for any number of
\* jobs, any limit of the histories and calls nested as deep as they like.
THEOREM OneResultPerJob == JobsSpec => ResultsAreOwn
<1> DEFINE Own ==
      /\ \A j \in Jobs : HasEnded(j) => tasks'[j].status = tasks[j].status
      /\ RunReturns => OwnResult(Top.job)
      /\ WorkReturns /\ ~tasks[Top.job].dropped => OwnResult(Top.job)
      /\ WaitReturns /\ ~tasks[consumer.waitsFor].dropped => OwnResult(consumer.waitsFor)
<1>1. JobsInv /\ [JobsNext]_jobVars => [Own]_jobVars
  <2> SUFFICES ASSUME JobsInv, JobsNext PROVE Own BY DEF jobVars
  <2>0. BooksInv /\ FramesRight BY DEF JobsInv
  <2>1. \A j \in Jobs : HasEnded(j) => tasks'[j].status = tasks[j].status BY JobsStep
  <2>2. ASSUME stack # <<>>, Top.kind \notin {"clearQueue", "clearAll"} PROVE Top.job \in Jobs
    BY <2>0, <2>2, TopOfStack DEF RightFrames
  <2>3. ASSUME RunReturns PROVE OwnResult(Top.job)
    <3>1. Top.job \in Jobs BY <2>2, <2>3 DEF RunReturns, OnTop
    <3>2. CASE StillOurs(Top.job)
      <4>1. PICK status \in {"COMPLETED", "FAILED"} : EndJob(tasks[Top.job].id, status)
        BY <2>3, <3>2 DEF RunReturns
      <4>2. status \in Ends /\ books.index[tasks[Top.job].id] = Top.job
        BY <3>2 DEF Ends, StillOurs
      <4> QED BY <2>0, <3>1, <4>1, <4>2, EndsHimself
    <3>3. CASE ~StillOurs(Top.job) BY <2>3, <3>3 DEF RunReturns, OwnResult
    <3> QED BY <3>2, <3>3
  <2>4. ASSUME WorkReturns, ~tasks[Top.job].dropped PROVE OwnResult(Top.job)
    <3>1. Top.job \in Jobs /\ Apply(Top.job) BY <2>2, <2>4 DEF WorkReturns, OnTop
    <3> QED BY <2>0, <2>4, <3>1, AppliedToOne
  <2>5. ASSUME WaitReturns, ~tasks[consumer.waitsFor].dropped
        PROVE  OwnResult(consumer.waitsFor)
    <3> DEFINE j == consumer.waitsFor
    <3>1. j \in Jobs BY <2>5, Bounds DEF JobsInv, WaitReturns, ConsumerRight, Jobs, Nothing
    <3>2. CASE HasEnded(j) BY <2>5, <3>2 DEF WaitReturns, OwnResult
    <3>3. CASE ~HasEnded(j)
      <4>1. \/ Apply(j)
            \/ EndJob(tasks[j].id, "CANCELLED") \/ EndJob(tasks[j].id, "FAILED")
        BY <2>5, <3>3 DEF WaitReturns
      <4>2. "CANCELLED" \in Ends /\ "FAILED" \in Ends BY DEF Ends
      <4>3. tasks[j].status # "unborn" => books.index[tasks[j].id] = j
        BY <2>0, <2>5, <3>1, <3>3, StillMeant
      <4> QED BY <2>0, <2>5, <3>1, <4>1, <4>2, <4>3, AppliedToOne, EndsHimself
    <3> QED BY <3>2, <3>3
  <2> QED BY <2>1, <2>3, <2>4, <2>5
<1> QED BY <1>1, JobsInvariant, PTL DEF JobsSpec, ResultsAreOwn

-----------------------------------------------------------------------------
(***************************************************************************)
(* DispatchQueue.  First, induction for facts about lines, as a fact about *)
(* sets: every line is in a set that has <<>> and, with a line, whatever   *)
(* is appended to it.                                                      *)
(***************************************************************************)
LEMMA LeastOf ==
  ASSUME NEW S \in SUBSET Nat, S # {}
  PROVE  \E n \in S : \A m \in S : n <= m
<1> DEFINE R == {ss \in Nat \X Nat : ss[1] < ss[2]}
<1>1. IsWellFoundedOn(R, Nat) BY NatLessThanWellFounded DEF OpToRel
<1>2. PICK n \in S : \A m \in S : ~(<<m, n>> \in R)
  <2> HIDE DEF R
  <2> QED BY <1>1, WFMin
<1>3. ASSUME NEW m \in S PROVE n <= m
  <2>1. <<m, n>> \notin R /\ m \in Nat /\ n \in Nat BY <1>2, <1>3
  <2> QED BY <2>1
<1> QED BY <1>2, <1>3

LEMMA OfAllNumbers ==
  ASSUME NEW P, 0 \in P, \A n \in Nat : n \in P => n + 1 \in P
  PROVE  Nat \subseteq P
<1> DEFINE bad == {n \in Nat : n \notin P}
<1>1. CASE bad # {}
  <2>1. PICK n \in bad : \A m \in bad : n <= m
    <3>1. bad \in SUBSET Nat OBVIOUS
    <3> HIDE DEF bad
    <3> QED BY <1>1, <3>1, LeastOf
  <2>2. n \in Nat /\ n # 0 /\ n - 1 \in Nat /\ (n - 1) + 1 = n BY <2>1
  <2>3. n - 1 \in P BY <2>1, <2>2
  <2> QED BY <2>1, <2>2, <2>3
<1> QED BY <1>1

LEMMA LastOf ==
  ASSUME NEW S, NEW q \in Seq(S), NEW n \in Nat, Len(q) = n + 1
  PROVE  \E r \in Seq(S), e \in S : q = Append(r, e) /\ Len(r) = n
<1>1. q # <<>> BY EmptySeq
<1>2. PICK r \in Seq(S), e \in S : q = Append(r, e) BY <1>1, SequenceEmptyOrAppend
<1>3. Len(r) \in Nat /\ Len(q) = Len(r) + 1 BY <1>2, LenProperties, AppendProperties
<1> QED BY <1>2, <1>3

LEMMA OfAllLines ==
  ASSUME NEW S, NEW P,
         <<>> \in P,
         \A q \in Seq(S), e \in S : q \in P => Append(q, e) \in P
  PROVE  Seq(S) \subseteq P
<1> DEFINE N == {n \in Nat : \A q \in Seq(S) : Len(q) = n => q \in P}
<1>1. 0 \in N BY EmptySeq
<1>2. ASSUME NEW n \in Nat, n \in N PROVE n + 1 \in N
  <2>1. \A q \in Seq(S) : Len(q) = n => q \in P BY <1>2
  <2>2. ASSUME NEW q \in Seq(S), Len(q) = n + 1 PROVE q \in P
    <3>1. PICK r \in Seq(S), e \in S : q = Append(r, e) /\ Len(r) = n BY <2>2, LastOf
    <3> QED BY <2>1, <3>1
  <2> QED BY <2>2
<1> HIDE DEF N
<1>3. Nat \subseteq N BY <1>1, <1>2, OfAllNumbers
<1> QED BY <1>3, LenProperties DEF N

-----------------------------------------------------------------------------
(***************************************************************************)
(* What is kept of a line.                                                 *)
(***************************************************************************)
KeptUpTo(f, q, kept) ==
  f = [n \in 0 .. Len(q) |->
         IF n = 0 THEN <<>>
         ELSE IF q[n] \in kept THEN Append(f[n - 1], q[n]) ELSE f[n - 1]]

\* The recursion of Keeping defines something.
LEMMA KeptExists ==
  ASSUME NEW S, NEW kept, NEW q \in Seq(S)
  PROVE  \E f : KeptUpTo(f, q, kept)
<1> DEFINE P == {r \in Seq(S) : \E f : KeptUpTo(f, r, kept)}
<1>1. <<>> \in P
  <2> DEFINE f == [n \in 0 .. 0 |-> <<>>]
  <2>1. f = [n \in 0 .. Len(<<>>) |->
               IF n = 0 THEN <<>>
               ELSE IF <<>>[n] \in kept THEN Append(f[n - 1], <<>>[n]) ELSE f[n - 1]]
    <3>1. Len(<<>>) = 0 OBVIOUS
    <3>2. \A n \in 0 .. 0 : n = 0 OBVIOUS
    <3> QED BY <3>1, <3>2
  <2>2. KeptUpTo(f, <<>>, kept) BY <2>1 DEF KeptUpTo
  <2> QED BY <2>2, EmptySeq
<1>2. ASSUME NEW r \in Seq(S), NEW e \in S, r \in P PROVE Append(r, e) \in P
  <2>1. PICK f : KeptUpTo(f, r, kept) BY <1>2
  <2> DEFINE l == Len(r)
             a == Append(r, e)
             g == [n \in 0 .. l + 1 |->
                     IF n <= l THEN f[n]
                     ELSE IF e \in kept THEN Append(f[l], e) ELSE f[l]]
  <2>2. /\ l \in Nat /\ a \in Seq(S) /\ Len(a) = l + 1 /\ a[l + 1] = e
        /\ \A n \in 1 .. l : a[n] = r[n]
    BY LenProperties, AppendProperties
  <2> HIDE DEF a
  <2>3. f = [n \in 0 .. l |->
               IF n = 0 THEN <<>>
               ELSE IF r[n] \in kept THEN Append(f[n - 1], r[n]) ELSE f[n - 1]]
    BY <2>1 DEF KeptUpTo
  <2> HIDE DEF l
  <2> DEFINE h == [n \in 0 .. l + 1 |->
                     IF n = 0 THEN <<>>
                     ELSE IF a[n] \in kept THEN Append(g[n - 1], a[n]) ELSE g[n - 1]]
  <2>4. ASSUME NEW n \in 0 .. l + 1 PROVE g[n] = h[n]
    <3>1. CASE n = 0 BY <2>2, <2>3, <3>1
    <3>2. CASE n \in 1 .. l
      <4>1. n \in 0 .. l /\ n # 0 /\ n - 1 \in 0 .. l + 1 /\ n - 1 <= l /\ n <= l BY <2>2, <3>2
      <4>2. g[n] = f[n] /\ g[n - 1] = f[n - 1] /\ a[n] = r[n] BY <2>2, <3>2, <4>1
      <4>3. f[n] = IF r[n] \in kept THEN Append(f[n - 1], r[n]) ELSE f[n - 1] BY <2>3, <4>1
      <4>4. h[n] = IF a[n] \in kept THEN Append(g[n - 1], a[n]) ELSE g[n - 1] BY <2>4, <4>1
      <4> HIDE DEF g, h
      <4> QED BY <4>2, <4>3, <4>4
    <3>3. CASE n = l + 1
      <4>1. n # 0 /\ ~(n <= l) /\ n - 1 = l /\ l \in 0 .. l + 1 /\ l <= l /\ n \in 0 .. l + 1
        BY <2>2, <3>3
      <4>2. g[n] = (IF e \in kept THEN Append(f[l], e) ELSE f[l]) /\ g[l] = f[l] /\ a[n] = e
        BY <2>2, <3>3, <4>1
      <4>3. h[n] = IF a[n] \in kept THEN Append(g[n - 1], a[n]) ELSE g[n - 1] BY <4>1
      <4> HIDE DEF g, h
      <4> QED BY <4>1, <4>2, <4>3
    <3> QED BY <2>2, <3>1, <3>2, <3>3
  <2>5. g = h
    <3>1. DOMAIN g = 0 .. l + 1 /\ DOMAIN h = 0 .. l + 1 OBVIOUS
    <3>2. g = [n \in 0 .. l + 1 |-> g[n]] /\ h = [n \in 0 .. l + 1 |-> h[n]] OBVIOUS
    <3> HIDE DEF g, h
    <3> QED BY <2>4, <3>2
  <2>6. KeptUpTo(g, a, kept)
    <3>1. g = [n \in 0 .. Len(a) |->
                 IF n = 0 THEN <<>>
                 ELSE IF a[n] \in kept THEN Append(g[n - 1], a[n]) ELSE g[n - 1]]
      BY <2>2, <2>5
    <3> HIDE DEF g
    <3> QED BY <3>1 DEF KeptUpTo
  <2> HIDE DEF g
  <2> QED BY <2>2, <2>6 DEF a
<1> HIDE DEF P
<1>3. q \in P BY <1>1, <1>2, OfAllLines
<1> QED BY <1>3 DEF P

\* It is so of the first n of two lines that begin with them.
LEMMA KeptIsOne ==
  ASSUME NEW f, NEW g, NEW q, NEW r, NEW kept, NEW k \in Nat, NEW l \in Nat,
         Len(q) = k, Len(r) = l, k <= l,
         KeptUpTo(f, q, kept), KeptUpTo(g, r, kept),
         \A n \in 1 .. k : q[n] = r[n]
  PROVE  \A n \in 0 .. k : f[n] = g[n]
<1> DEFINE P == {n \in Nat : n <= k => f[n] = g[n]}
<1>1. /\ f = [n \in 0 .. k |->
                IF n = 0 THEN <<>>
                ELSE IF q[n] \in kept THEN Append(f[n - 1], q[n]) ELSE f[n - 1]]
      /\ g = [n \in 0 .. l |->
                IF n = 0 THEN <<>>
                ELSE IF r[n] \in kept THEN Append(g[n - 1], r[n]) ELSE g[n - 1]]
  BY DEF KeptUpTo
<1>2. 0 \in P
  <2>1. 0 \in 0 .. k /\ 0 \in 0 .. l OBVIOUS
  <2>2. f[0] = <<>> /\ g[0] = <<>> BY <1>1, <2>1
  <2> QED BY <2>2
<1>3. ASSUME NEW n \in Nat, n \in P PROVE n + 1 \in P
  <2> SUFFICES ASSUME n + 1 <= k PROVE f[n + 1] = g[n + 1] OBVIOUS
  <2>1. /\ n + 1 \in 0 .. k /\ n + 1 \in 0 .. l /\ n + 1 # 0 /\ (n + 1) - 1 = n /\ n <= k
        /\ n + 1 \in 1 .. k
    OBVIOUS
  <2>2. f[n] = g[n] /\ q[n + 1] = r[n + 1] BY <1>3, <2>1
  <2>3. f[n + 1] = IF q[n + 1] \in kept THEN Append(f[n], q[n + 1]) ELSE f[n] BY <1>1, <2>1
  <2>4. g[n + 1] = IF r[n + 1] \in kept THEN Append(g[n], r[n + 1]) ELSE g[n] BY <1>1, <2>1
  <2> QED BY <2>2, <2>3, <2>4
<1>4. Nat \subseteq P
  <2> HIDE DEF P
  <2> QED BY <1>2, <1>3, OfAllNumbers
<1> QED BY <1>4

LEMMA KeepingIs ==
  ASSUME NEW S, NEW kept, NEW q \in Seq(S)
  PROVE  \E f : KeptUpTo(f, q, kept) /\ Keeping(q, kept) = f[Len(q)]
<1> DEFINE f == CHOOSE g : KeptUpTo(g, q, kept)
<1>1. KeptUpTo(f, q, kept) BY KeptExists
<1>2. Keeping(q, kept) = f[Len(q)] BY DEF Keeping, KeptUpTo
<1> QED BY <1>1, <1>2

\* Keeping, one by one.
LEMMA KeepNone ==
  ASSUME NEW kept
  PROVE  Keeping(<<>>, kept) = <<>>
<1>1. PICK f : KeptUpTo(f, <<>>, kept) /\ Keeping(<<>>, kept) = f[Len(<<>>)]
  BY KeepingIs, EmptySeq
<1>2. Len(<<>>) = 0 /\ 0 \in 0 .. 0 OBVIOUS
<1> QED BY <1>1, <1>2 DEF KeptUpTo

LEMMA KeepNext ==
  ASSUME NEW S, NEW kept, NEW q \in Seq(S), NEW e \in S
  PROVE  Keeping(Append(q, e), kept) =
           IF e \in kept THEN Append(Keeping(q, kept), e) ELSE Keeping(q, kept)
<1> DEFINE a == Append(q, e)
           l == Len(q)
<1>1. /\ l \in Nat /\ a \in Seq(S) /\ Len(a) = l + 1 /\ a[l + 1] = e
      /\ \A n \in 1 .. l : a[n] = q[n]
  BY LenProperties, AppendProperties
<1> HIDE DEF a
<1>2. PICK f : KeptUpTo(f, q, kept) /\ Keeping(q, kept) = f[l] BY KeepingIs
<1>3. PICK g : KeptUpTo(g, a, kept) /\ Keeping(a, kept) = g[l + 1] BY <1>1, KeepingIs
<1>4. Len(q) = l OBVIOUS
<1> HIDE DEF l
<1>5. f[l] = g[l]
  <2>1. l + 1 \in Nat /\ l <= l + 1 /\ l \in 0 .. l BY <1>1
  <2>2. \A n \in 0 .. l : f[n] = g[n] BY <1>1, <1>2, <1>3, <1>4, <2>1, KeptIsOne
  <2> QED BY <2>1, <2>2
<1>6. g[l + 1] = IF e \in kept THEN Append(g[l], e) ELSE g[l]
  <2>1. l + 1 \in 0 .. l + 1 /\ l + 1 # 0 /\ (l + 1) - 1 = l BY <1>1
  <2>2. g = [n \in 0 .. l + 1 |->
               IF n = 0 THEN <<>>
               ELSE IF a[n] \in kept THEN Append(g[n - 1], a[n]) ELSE g[n - 1]]
    BY <1>1, <1>3 DEF KeptUpTo
  <2>3. g[l + 1] = IF a[l + 1] \in kept THEN Append(g[l], a[l + 1]) ELSE g[l] BY <2>1, <2>2
  <2> QED BY <1>1, <2>3
<1> QED BY <1>2, <1>3, <1>5, <1>6 DEF a

\* What is kept are the elements of the line that were to be kept.
LEMMA KeepRange ==
  ASSUME NEW S, NEW kept, NEW q \in Seq(S)
  PROVE  /\ Keeping(q, kept) \in Seq(S)
         /\ Range(Keeping(q, kept)) = Range(q) \cap kept
<1> DEFINE P == {r \in Seq(S) : /\ Keeping(r, kept) \in Seq(S)
                                /\ Range(Keeping(r, kept)) = Range(r) \cap kept}
<1>1. <<>> \in P
  <2>1. Keeping(<<>>, kept) = <<>> BY KeepNone
  <2>2. Range(<<>>) = {} BY DEF Range
  <2> QED BY <2>1, <2>2, EmptySeq
<1>2. ASSUME NEW r \in Seq(S), NEW e \in S, r \in P PROVE Append(r, e) \in P
  <2> DEFINE k == Keeping(r, kept)
  <2>1. k \in Seq(S) /\ Range(k) = Range(r) \cap kept BY <1>2
  <2>2. Keeping(Append(r, e), kept) = IF e \in kept THEN Append(k, e) ELSE k BY KeepNext
  <2> HIDE DEF k
  <2>3. /\ Append(r, e) \in Seq(S) /\ Range(Append(r, e)) = Range(r) \cup {e}
        /\ Append(k, e) \in Seq(S) /\ Range(Append(k, e)) = Range(k) \cup {e}
    BY <2>1, AppendedOnce
  <2>4. CASE e \in kept BY <2>1, <2>2, <2>3, <2>4
  <2>5. CASE e \notin kept BY <2>1, <2>2, <2>3, <2>5
  <2> QED BY <2>4, <2>5
<1>3. Seq(S) \subseteq P
  <2> HIDE DEF P
  <2> QED BY <1>1, <1>2, OfAllLines
<1> QED BY <1>3

\* All of a line, or nothing, when all or none are to be kept.
LEMMA KeepAll ==
  ASSUME NEW S, NEW kept, NEW q \in Seq(S), Range(q) \subseteq kept
  PROVE  Keeping(q, kept) = q
<1> DEFINE P == {r \in Seq(S) : Range(r) \subseteq kept => Keeping(r, kept) = r}
<1>1. <<>> \in P BY KeepNone, EmptySeq
<1>2. ASSUME NEW r \in Seq(S), NEW e \in S, r \in P PROVE Append(r, e) \in P
  <2>1. Append(r, e) \in Seq(S) /\ Range(Append(r, e)) = Range(r) \cup {e} BY AppendedOnce
  <2>2. Keeping(Append(r, e), kept) =
          IF e \in kept THEN Append(Keeping(r, kept), e) ELSE Keeping(r, kept)
    BY KeepNext
  <2>3. ASSUME Range(Append(r, e)) \subseteq kept PROVE Keeping(Append(r, e), kept) = Append(r, e)
    <3>1. Range(r) \subseteq kept /\ e \in kept BY <2>1, <2>3
    <3>2. Keeping(r, kept) = r BY <1>2, <3>1
    <3> QED BY <2>2, <3>1, <3>2
  <2> QED BY <2>1, <2>3
<1>3. Seq(S) \subseteq P
  <2> HIDE DEF P
  <2> QED BY <1>1, <1>2, OfAllLines
<1> QED BY <1>3

LEMMA KeepNobody ==
  ASSUME NEW S, NEW kept, NEW q \in Seq(S), Range(q) \cap kept = {}
  PROVE  Keeping(q, kept) = <<>>
<1>1. Keeping(q, kept) \in Seq(S) /\ Range(Keeping(q, kept)) = {} BY KeepRange
<1> DEFINE r == Keeping(q, kept)
<1> HIDE DEF r
<1>2. r \in Seq(S) /\ Range(r) = {} BY <1>1 DEF r
<1>3. CASE r # <<>>
  <2>1. Len(r) \in Nat \ {0} /\ DOMAIN r = 1 .. Len(r) BY <1>2, <1>3, EmptySeq, LenProperties
  <2>2. 1 \in DOMAIN r BY <2>1
  <2> QED BY <1>2, <2>2 DEF Range
<1> QED BY <1>3 DEF r

\* Joining lines and single calls.
LEMMA JoinedLast ==
  ASSUME NEW S, NEW p \in Seq(S), NEW q \in Seq(S), NEW e \in S
  PROVE  p \o Append(q, e) = Append(p \o q, e)
<1> DEFINE ee == <<e>>
           pq == p \o q
<1>1. ee \in Seq(S) OBVIOUS
<1>2. pq \in Seq(S) /\ Append(q, e) = q \o ee BY ConcatProperties, AppendIsConcat
<1>3. Append(pq, e) = pq \o ee
  <2> HIDE DEF pq
  <2> QED BY <1>2, AppendIsConcat
<1> HIDE DEF ee
<1>4. (p \o q) \o ee = p \o (q \o ee)
  BY ONLY <1>1, p \in Seq(S), q \in Seq(S), ConcatAssociative
<1> QED BY <1>2, <1>3, <1>4

LEMMA JoinedNext ==
  ASSUME NEW S, NEW p \in Seq(S), NEW q \in Seq(S), NEW e \in S
  PROVE  /\ p \o q \in Seq(S) /\ Append(q, e) \in Seq(S) /\ <<e>> \o p \in Seq(S)
         /\ p \o Append(q, e) = Append(p \o q, e)
         /\ (<<e>> \o p) \o q = <<e>> \o (p \o q)
<1> DEFINE ee == <<e>>
<1>1. ee \in Seq(S) OBVIOUS
<1>2. p \o q \in Seq(S) /\ Append(q, e) \in Seq(S) /\ p \o Append(q, e) = Append(p \o q, e)
  BY ConcatProperties, AppendProperties, JoinedLast
<1> HIDE DEF ee
<1>3. (ee \o p) \o q = ee \o (p \o q)
  BY ONLY <1>1, p \in Seq(S), q \in Seq(S), ConcatAssociative
<1>4. ee \o p \in Seq(S) BY ONLY <1>1, p \in Seq(S), ConcatProperties
<1> QED BY <1>2, <1>3, <1>4 DEF ee

\* Of two lines behind each other, what is kept of each.
LEMMA KeepJoined ==
  ASSUME NEW S, NEW kept, NEW p \in Seq(S), NEW q \in Seq(S)
  PROVE  Keeping(p \o q, kept) = Keeping(p, kept) \o Keeping(q, kept)
<1> DEFINE kp == Keeping(p, kept)
           P == {r \in Seq(S) : Keeping(p \o r, kept) = kp \o Keeping(r, kept)}
<1>0. kp \in Seq(S) BY KeepRange
<1>1. <<>> \in P
  <2>1. p \o <<>> = p /\ Keeping(<<>>, kept) = <<>> BY KeepNone, ConcatEmptySeq
  <2> HIDE DEF kp
  <2>2. kp \o <<>> = kp BY <1>0, ConcatEmptySeq
  <2> QED BY <2>1, <2>2, EmptySeq DEF kp
<1>2. ASSUME NEW r \in Seq(S), NEW e \in S, r \in P PROVE Append(r, e) \in P
  <2> DEFINE k == Keeping(r, kept)
  <2>1. p \o r \in Seq(S) /\ k \in Seq(S) /\ Append(r, e) \in Seq(S) /\ <<e>> \in Seq(S)
    BY ConcatProperties, KeepRange, AppendProperties
  <2>2. p \o Append(r, e) = Append(p \o r, e)
    BY ONLY p \in Seq(S), r \in Seq(S), e \in S, JoinedLast
  <2>3. Keeping(p \o Append(r, e), kept) =
          IF e \in kept THEN Append(Keeping(p \o r, kept), e) ELSE Keeping(p \o r, kept)
    <3> DEFINE pr == p \o r
    <3>1. pr \in Seq(S) /\ p \o Append(r, e) = Append(pr, e) BY <2>1, <2>2
    <3> HIDE DEF pr
    <3>2. Keeping(Append(pr, e), kept) =
            IF e \in kept THEN Append(Keeping(pr, kept), e) ELSE Keeping(pr, kept)
      BY <3>1, KeepNext
    <3>3. Keeping(p \o Append(r, e), kept) = Keeping(Append(pr, e), kept) BY <3>1
    <3> QED BY <3>2, <3>3 DEF pr
  <2>4. Keeping(Append(r, e), kept) = IF e \in kept THEN Append(k, e) ELSE k BY KeepNext
  <2>5. Keeping(p \o r, kept) = kp \o k BY <1>2
  <2> HIDE DEF k, kp
  <2>6. Append(kp \o k, e) = kp \o Append(k, e)
    <3>1. kp \in Seq(S) /\ k \in Seq(S) BY <1>0, <2>1
    <3>2. \A u \in Seq(S), v \in Seq(S) : u \o Append(v, e) = Append(u \o v, e) BY JoinedLast
    <3> QED BY ONLY <3>1, <3>2
  <2> QED BY <2>1, <2>3, <2>4, <2>5, <2>6
<1>3. Seq(S) \subseteq P
  <2> HIDE DEF P
  <2> QED BY <1>1, <1>2, OfAllLines
<1> QED BY <1>3

\* What is kept of what was kept.
LEMMA KeepTwice ==
  ASSUME NEW S, NEW kept, NEW again, NEW q \in Seq(S)
  PROVE  Keeping(Keeping(q, kept), again) = Keeping(q, kept \cap again)
<1> DEFINE P == {r \in Seq(S) :
                   Keeping(Keeping(r, kept), again) = Keeping(r, kept \cap again)}
<1>1. <<>> \in P BY KeepNone, EmptySeq
<1>2. ASSUME NEW r \in Seq(S), NEW e \in S, r \in P PROVE Append(r, e) \in P
  <2> DEFINE k == Keeping(r, kept)
             both == kept \cap again
  <2>1. k \in Seq(S) /\ Append(r, e) \in Seq(S) BY KeepRange, AppendProperties
  <2>2. Keeping(Append(r, e), kept) = IF e \in kept THEN Append(k, e) ELSE k BY KeepNext
  <2>3. Keeping(Append(r, e), both) =
          IF e \in both THEN Append(Keeping(r, both), e) ELSE Keeping(r, both)
    BY KeepNext
  <2>4. Keeping(k, again) = Keeping(r, both) BY <1>2
  <2> HIDE DEF k
  <2>5. Keeping(Append(k, e), again) =
          IF e \in again THEN Append(Keeping(k, again), e) ELSE Keeping(k, again)
    BY <2>1, KeepNext
  <2>6. CASE e \in both
    <3>1. e \in kept /\ e \in again BY <2>6
    <3> QED BY <2>1, <2>2, <2>3, <2>4, <2>5, <2>6, <3>1
  <2>7. CASE e \in kept /\ e \notin again
    <3>1. e \notin both BY <2>7
    <3> QED BY <2>1, <2>2, <2>3, <2>4, <2>5, <2>7, <3>1
  <2>8. CASE e \notin kept
    <3>1. e \notin both BY <2>8
    <3> QED BY <2>1, <2>2, <2>3, <2>4, <2>5, <2>8, <3>1
  <2> QED BY <2>6, <2>7, <2>8
<1>3. Seq(S) \subseteq P
  <2> HIDE DEF P
  <2> QED BY <1>1, <1>2, OfAllLines
<1> QED BY <1>3

\* The other way round.
LEMMA ReverseProperties ==
  ASSUME NEW S, NEW q \in Seq(S)
  PROVE  /\ Reverse(q) \in Seq(S) /\ Len(Reverse(q)) = Len(q)
         /\ Range(Reverse(q)) = Range(q)
         /\ \A e \in S : Reverse(Append(q, e)) = <<e>> \o Reverse(q)
<1> DEFINE l == Len(q)
<1>1. /\ l \in Nat /\ DOMAIN q = 1 .. l /\ \A i \in 1 .. l : q[i] \in S
  BY LenProperties, ElementOfSeq
<1>2. Reverse(q) = [i \in 1 .. l |-> q[(l - i) + 1]] BY DEF Reverse
<1> HIDE DEF l
<1>3. \A i \in 1 .. l : (l - i) + 1 \in 1 .. l BY <1>1
<1>4. /\ Reverse(q) \in [1 .. l -> S] /\ DOMAIN Reverse(q) = 1 .. l
      /\ \A i \in 1 .. l : Reverse(q)[i] = q[(l - i) + 1]
  BY <1>1, <1>2, <1>3
<1> DEFINE r == Reverse(q)
<1> HIDE DEF r
<1>5. r \in [1 .. l -> S] /\ \A i \in 1 .. l : r[i] = q[(l - i) + 1] BY <1>4 DEF r
<1>6. r \in Seq(S) /\ Len(r) = l BY <1>1, <1>5
<1>7. Range(r) = Range(q)
  <2>1. DOMAIN r = 1 .. l BY <1>5
  <2>2. \A i \in 1 .. l : r[i] \in Range(q) BY <1>1, <1>3, <1>5 DEF Range
  <2>3. ASSUME NEW i \in 1 .. l PROVE \E j \in 1 .. l : r[j] = q[i]
    <3>1. (l - i) + 1 \in 1 .. l /\ (l - ((l - i) + 1)) + 1 = i BY <1>1, <2>3
    <3>2. r[(l - i) + 1] = q[(l - ((l - i) + 1)) + 1] BY <1>5, <3>1
    <3> QED BY <3>1, <3>2
  <2>4. \A x \in Range(q) : \E j \in 1 .. l : r[j] = x BY <1>1, <2>3 DEF Range
  <2> QED BY <2>1, <2>2, <2>4, RangeIs
<1>8. ASSUME NEW e \in S PROVE Reverse(Append(q, e)) = <<e>> \o r
  <2> DEFINE a == Append(q, e)
             s == Reverse(a)
             t == <<e>> \o r
  <2>1. /\ a \in Seq(S) /\ Len(a) = l + 1 /\ a[l + 1] = e
        /\ \A i \in 1 .. l : a[i] = q[i]
    BY AppendProperties DEF l
  <2>2. <<e>> \in Seq(S) /\ Len(<<e>>) = 1 /\ <<e>>[1] = e OBVIOUS
  <2>3. /\ t \in Seq(S) /\ Len(t) = 1 + l
        /\ \A i \in 1 .. 1 + l : t[i] = IF i <= 1 THEN <<e>>[i] ELSE r[i - 1]
    BY <1>6, <2>2, ConcatProperties
  <2> HIDE DEF a, t
  <2>4. s = [i \in 1 .. l + 1 |-> a[((l + 1) - i) + 1]] BY <2>1 DEF Reverse
  <2> HIDE DEF s
  <2>5. ASSUME NEW i \in 1 .. l + 1 PROVE s[i] = t[i]
    <3>1. s[i] = a[((l + 1) - i) + 1] /\ i \in 1 .. 1 + l BY <1>1, <2>4
    <3>2. CASE i = 1
      <4>1. ((l + 1) - i) + 1 = l + 1 /\ i <= 1 BY <1>1, <3>2
      <4>2. t[i] = <<e>>[i] BY <2>3, <3>1, <4>1
      <4> QED BY <2>1, <2>2, <3>1, <3>2, <4>1, <4>2
    <3>3. CASE i # 1
      <4>1. /\ i - 1 \in 1 .. l /\ ~(i <= 1) /\ ((l + 1) - i) + 1 = (l - (i - 1)) + 1
            /\ (l - (i - 1)) + 1 \in 1 .. l
        BY <1>1, <3>3
      <4>2. t[i] = r[i - 1] BY <2>3, <3>1, <4>1
      <4>3. r[i - 1] = q[(l - (i - 1)) + 1] BY <1>5, <4>1
      <4> QED BY <2>1, <3>1, <4>1, <4>2, <4>3
    <3> QED BY <3>2, <3>3
  <2>6. s \in Seq(S) /\ Len(s) = l + 1
    <3>1. \A i \in 1 .. l + 1 : ((l + 1) - i) + 1 \in 1 .. l + 1 BY <1>1
    <3>2. \A i \in 1 .. l + 1 : a[i] \in S BY <2>1, ElementOfSeq
    <3>3. s \in [1 .. l + 1 -> S] /\ l + 1 \in Nat BY <1>1, <2>4, <3>1, <3>2
    <3> QED BY <3>3
  <2>7. Len(t) = l + 1 BY <1>1, <2>3
  <2>8. s = t BY <2>3, <2>5, <2>6, <2>7, SeqEqual
  <2> QED BY <2>8 DEF s, t, a
<1> QED BY <1>6, <1>7, <1>8 DEF l, r

LEMMA ReverseNone == Reverse(<<>>) = <<>>
<1>1. Reverse(<<>>) \in Seq({}) /\ Len(Reverse(<<>>)) = 0 BY EmptySeq, ReverseProperties
<1>2. <<>> \in Seq({}) /\ Len(<<>>) = 0 BY EmptySeq
<1> QED BY <1>1, EmptySeq

\* Keeping from a line that was turned round turns round what is kept of it.
LEMMA KeepReversed ==
  ASSUME NEW S, NEW kept, NEW q \in Seq(S)
  PROVE  Keeping(Reverse(q), kept) = Reverse(Keeping(q, kept))
<1> DEFINE P == {r \in Seq(S) : Keeping(Reverse(r), kept) = Reverse(Keeping(r, kept))}
<1>1. <<>> \in P BY KeepNone, ReverseNone, EmptySeq
<1>2. ASSUME NEW r \in Seq(S), NEW e \in S, r \in P PROVE Append(r, e) \in P
  <2> DEFINE k == Keeping(r, kept)
             v == Reverse(r)
  <2>1. k \in Seq(S) /\ Append(r, e) \in Seq(S) /\ v \in Seq(S) /\ <<e>> \in Seq(S)
    BY KeepRange, AppendProperties, ReverseProperties
  <2>2. Reverse(Append(r, e)) = <<e>> \o v BY ReverseProperties
  <2>3. Keeping(Append(r, e), kept) = IF e \in kept THEN Append(k, e) ELSE k BY KeepNext
  <2>4. Keeping(v, kept) = Reverse(k) BY <1>2
  <2> HIDE DEF k, v
  <2>5. Keeping(<<e>> \o v, kept) = Keeping(<<e>>, kept) \o Reverse(k)
    <3> DEFINE ee == <<e>>
    <3>1. ee \in Seq(S) BY <2>1
    <3> HIDE DEF ee
    <3>0. v \in Seq(S) BY <2>1
    <3>2. Keeping(ee \o v, kept) = Keeping(ee, kept) \o Keeping(v, kept)
      BY ONLY <3>0, <3>1, KeepJoined
    <3> QED BY <2>4, <3>2 DEF ee
  <2>6. <<e>> = Append(<<>>, e) /\ <<>> \in Seq(S) BY EmptySeq
  <2>7. Keeping(<<e>>, kept) = IF e \in kept THEN <<e>> ELSE <<>>
    <3> DEFINE none == <<>>
    <3>0. none \in Seq(S) BY <2>6
    <3>1. Keeping(Append(none, e), kept) =
            IF e \in kept THEN Append(Keeping(none, kept), e) ELSE Keeping(none, kept)
      <4> HIDE DEF none
      <4> QED BY <3>0, KeepNext
    <3>2. Keeping(<<>>, kept) = <<>> BY KeepNone
    <3>3. Keeping(<<e>>, kept) = Keeping(Append(<<>>, e), kept) BY <2>6
    <3> QED BY ONLY <2>6, <3>1, <3>2, <3>3
  <2>8. Reverse(k) \in Seq(S) /\ Reverse(Append(k, e)) = <<e>> \o Reverse(k)
    BY <2>1, ReverseProperties
  <2>9. <<>> \o Reverse(k) = Reverse(k) BY <2>8, ConcatEmptySeq
  <2> QED BY <2>1, <2>2, <2>3, <2>5, <2>7, <2>8, <2>9
<1>3. Seq(S) \subseteq P
  <2> HIDE DEF P
  <2> QED BY <1>1, <1>2, OfAllLines
<1> QED BY <1>3

\* A part of a line is what has its places.
LEMMA PartIs ==
  ASSUME NEW S, NEW q \in Seq(S), NEW r \in Seq(S), NEW l \in Nat, NEW k \in Nat,
         Len(q) = l, Len(r) = k, NEW m \in Nat \ {0}, NEW n \in Nat, n <= l, n + 1 = m + k,
         \A i \in 1 .. k : r[i] = q[m + i - 1]
  PROVE  SubSeq(q, m, n) = r
<1> DEFINE s == SubSeq(q, m, n)
<1>1. \A i \in 1 .. l : q[i] \in S BY ElementOfSeq
<1>2. \A i \in m .. n : q[i] \in S BY <1>1
<1>3. m \in Int /\ n \in Int OBVIOUS
<1>4. /\ s \in Seq(S) /\ Len(s) = IF m <= n THEN n - m + 1 ELSE 0
      /\ \A i \in 1 .. n - m + 1 : s[i] = q[m + i - 1]
  BY ONLY <1>2, <1>3, SubSeqProperties
<1> HIDE DEF s
<1>5. (IF m <= n THEN n - m + 1 ELSE 0) = k /\ n - m + 1 = k OBVIOUS
<1>6. Len(s) = k /\ \A i \in 1 .. k : s[i] = r[i] BY <1>4, <1>5
<1> QED BY <1>4, <1>6, SeqEqual DEF s


\* A line in which what was not to be kept left an empty slot.
LEMMA KeepBlanked ==
  ASSUME NEW S, NEW kept, kept \subseteq Calls, NEW q \in Seq(S), NEW w \in Seq(S),
         Len(w) = Len(q),
         \A n \in 1 .. Len(q) : w[n] = IF q[n] \in kept THEN q[n] ELSE NoCall
  PROVE  Keeping(w, Calls) = Keeping(q, kept)
<1> DEFINE Blanked(r, v) == /\ Len(v) = Len(r)
                            /\ \A n \in 1 .. Len(r) :
                                 v[n] = IF r[n] \in kept THEN r[n] ELSE NoCall
           P == {r \in Seq(S) : \A v \in Seq(S) :
                   Blanked(r, v) => Keeping(v, Calls) = Keeping(r, kept)}
<1>1. <<>> \in P
  <2>1. Len(<<>>) = 0 /\ <<>> \in Seq(S) BY EmptySeq
  <2>2. \A v \in Seq(S) : Len(v) = 0 => v = <<>> BY EmptySeq
  <2>3. Keeping(<<>>, Calls) = Keeping(<<>>, kept) BY KeepNone
  <2> QED BY <2>1, <2>2, <2>3
<1>2. ASSUME NEW r \in Seq(S), NEW e \in S, r \in P PROVE Append(r, e) \in P
  <2> DEFINE a == Append(r, e)
             l == Len(r)
  <2>1. /\ l \in Nat /\ a \in Seq(S) /\ Len(a) = l + 1 /\ a[l + 1] = e
        /\ \A n \in 1 .. l : a[n] = r[n]
    BY LenProperties, AppendProperties
  <2>2. Keeping(a, kept) = IF e \in kept THEN Append(Keeping(r, kept), e) ELSE Keeping(r, kept)
    BY KeepNext
  <2>3. \A v \in Seq(S) : Blanked(r, v) => Keeping(v, Calls) = Keeping(r, kept) BY <1>2
  <2>4. Len(r) = l OBVIOUS
  <2> HIDE DEF a, l
  <2>5. ASSUME NEW v \in Seq(S), Blanked(a, v) PROVE Keeping(v, Calls) = Keeping(a, kept)
    <3>1. Len(v) = l + 1 BY <2>1, <2>5
    <3>2. PICK u \in Seq(S), d \in S : v = Append(u, d) /\ Len(u) = l
      <4>1. l \in Nat BY <2>1
      <4> QED BY ONLY v \in Seq(S), <3>1, <4>1, LastOf
    <3>3. v[l + 1] = d /\ \A n \in 1 .. l : v[n] = u[n] BY <3>2, AppendProperties
    <3>4. \A n \in 1 .. l + 1 : v[n] = IF a[n] \in kept THEN a[n] ELSE NoCall BY <2>1, <2>5
    <3>5. l + 1 \in 1 .. l + 1 /\ \A n \in 1 .. l : n \in 1 .. l + 1 BY <2>1
    <3>6. d = IF e \in kept THEN e ELSE NoCall BY <2>1, <3>3, <3>4, <3>5
    <3>7. \A n \in 1 .. l : u[n] = IF r[n] \in kept THEN r[n] ELSE NoCall
      BY <2>1, <3>3, <3>4, <3>5
    <3>8. Keeping(u, Calls) = Keeping(r, kept) BY <2>3, <2>4, <3>2, <3>7
    <3>9. Keeping(v, Calls) = IF d \in Calls THEN Append(Keeping(u, Calls), d) ELSE Keeping(u, Calls)
      BY <3>2, KeepNext
    <3>10. d \in Calls <=> e \in kept
      <4>1. NoCall \notin Calls BY DEF NoCall, Calls
      <4> QED BY <3>6, <4>1
    <3>11. e \in kept => d = e BY <3>6
    <3> QED BY <2>2, <3>8, <3>9, <3>10, <3>11
  <2> QED BY <2>1, <2>5 DEF a
<1>3. Seq(S) \subseteq P
  <2> HIDE DEF P
  <2> QED BY <1>1, <1>2, OfAllLines
<1> QED BY <1>3

\* Nobody stands twice in what is left of a line in which nobody does.
LEMMA KeptOnce ==
  ASSUME NEW S, NEW kept, NEW q \in Seq(S), IsInjective(q)
  PROVE  IsInjective(Keeping(q, kept))
<1> DEFINE P == {r \in Seq(S) : IsInjective(r) => IsInjective(Keeping(r, kept))}
<1>1. <<>> \in P BY KeepNone, EmptySeq
<1>2. ASSUME NEW r \in Seq(S), NEW e \in S, r \in P PROVE Append(r, e) \in P
  <2> DEFINE a == Append(r, e)
             k == Keeping(r, kept)
  <2>1. /\ Len(r) \in Nat /\ a \in Seq(S) /\ Len(a) = Len(r) + 1 /\ a[Len(r) + 1] = e
        /\ \A n \in 1 .. Len(r) : a[n] = r[n]
        /\ DOMAIN a = 1 .. Len(r) + 1 /\ DOMAIN r = 1 .. Len(r)
    BY LenProperties, AppendProperties
  <2>2. Keeping(a, kept) = IF e \in kept THEN Append(k, e) ELSE k BY KeepNext
  <2>3. k \in Seq(S) /\ Range(k) = Range(r) \cap kept BY KeepRange
  <2> HIDE DEF a, k
  <2>4. ASSUME IsInjective(a) PROVE IsInjective(Keeping(a, kept))
    <3>1. IsInjective(r) BY <2>1, <2>4 DEF IsInjective
    <3>2. e \notin Range(r) BY <2>1, <2>4 DEF IsInjective, Range
    <3>3. IsInjective(k) BY <1>2, <3>1 DEF k
    <3>4. IsInjective(Append(k, e)) BY <2>3, <3>2, <3>3, AppendedOnce
    <3> QED BY <2>2, <3>3, <3>4
  <2> QED BY <2>1, <2>4 DEF a
<1>3. Seq(S) \subseteq P
  <2> HIDE DEF P
  <2> QED BY <1>1, <1>2, OfAllLines
<1> QED BY <1>3

\* Two lines behind each other.
LEMMA JoinedOnce ==
  ASSUME NEW S, NEW p \in Seq(S), NEW q \in Seq(S)
  PROVE  /\ Range(p \o q) = Range(p) \cup Range(q)
         /\ IsInjective(p) /\ IsInjective(q) /\ Range(p) \cap Range(q) = {}
              => IsInjective(p \o q)
<1>1. Range(p \o q) = Range(p) \cup Range(q) BY RangeConcatenation
<1>2. ASSUME IsInjective(p), IsInjective(q), Range(p) \cap Range(q) = {}
      PROVE  IsInjective(p \o q)
  <2> DEFINE k == Len(p)
             l == Len(q)
             r == p \o q
  <2>1. /\ k \in Nat /\ l \in Nat /\ DOMAIN p = 1 .. k /\ DOMAIN q = 1 .. l
        /\ r \in Seq(S) /\ Len(r) = k + l
        /\ \A i \in 1 .. k + l : r[i] = IF i <= k THEN p[i] ELSE q[i - k]
    BY LenProperties, ConcatProperties
  <2>2. DOMAIN r = 1 .. k + l BY <2>1, LenProperties
  <2> HIDE DEF r, k, l
  <2>3. ASSUME NEW i \in 1 .. k + l PROVE i \in 1 .. k \/ (~(i <= k) /\ i - k \in 1 .. l)
    BY <2>1
  <2>4. ASSUME NEW i \in 1 .. k + l, NEW j \in 1 .. k + l, r[i] = r[j] PROVE i = j
    <3>1. CASE i \in 1 .. k /\ j \in 1 .. k
      <4>1. r[i] = p[i] /\ r[j] = p[j] BY <2>1, <3>1
      <4> QED BY <1>2, <2>1, <2>4, <3>1, <4>1 DEF IsInjective
    <3>2. CASE ~(i <= k) /\ ~(j <= k)
      <4>1. i - k \in 1 .. l /\ j - k \in 1 .. l BY <2>1, <2>3, <3>2
      <4>2. r[i] = q[i - k] /\ r[j] = q[j - k] BY <2>1, <3>2
      <4>3. i - k = j - k BY <1>2, <2>1, <2>4, <4>1, <4>2 DEF IsInjective
      <4> QED BY <2>1, <4>3
    <3>3. CASE i \in 1 .. k /\ ~(j <= k)
      <4>1. j - k \in 1 .. l BY <2>1, <2>3, <3>3
      <4>2. r[i] = p[i] /\ r[j] = q[j - k] BY <2>1, <3>3
      <4> QED BY <1>2, <2>1, <2>4, <3>3, <4>1, <4>2 DEF Range
    <3>4. CASE ~(i <= k) /\ j \in 1 .. k
      <4>1. i - k \in 1 .. l BY <2>1, <2>3, <3>4
      <4>2. r[j] = p[j] /\ r[i] = q[i - k] BY <2>1, <3>4
      <4> QED BY <1>2, <2>1, <2>4, <3>4, <4>1, <4>2 DEF Range
    <3> QED BY <2>3, <3>1, <3>2, <3>3, <3>4
  <2>5. IsInjective(r) BY <2>2, <2>4 DEF IsInjective
  <2> QED BY <2>5 DEF r
<1> QED BY <1>1, <1>2

LEMMA ReversedOnce ==
  ASSUME NEW S, NEW q \in Seq(S), IsInjective(q)
  PROVE  IsInjective(Reverse(q))
<1> DEFINE l == Len(q)
           r == Reverse(q)
<1>1. l \in Nat /\ DOMAIN q = 1 .. l BY LenProperties
<1>2. r = [i \in 1 .. l |-> q[(l - i) + 1]] BY DEF Reverse
<1> HIDE DEF l, r
<1>3. ASSUME NEW i \in 1 .. l, NEW j \in 1 .. l, r[i] = r[j] PROVE i = j
  <2>1. (l - i) + 1 \in 1 .. l /\ (l - j) + 1 \in 1 .. l BY <1>1
  <2>2. q[(l - i) + 1] = q[(l - j) + 1] BY <1>2, <1>3
  <2>3. (l - i) + 1 = (l - j) + 1 BY <1>1, <2>1, <2>2 DEF IsInjective
  <2> QED BY <1>1, <2>3
<1>4. IsInjective(r) BY <1>2, <1>3 DEF IsInjective
<1> QED BY <1>4 DEF r

\* A line has as many handles as places, when nobody stands in it twice.
LEMMA HandlesCounted ==
  ASSUME NEW S, NEW line \in Seq(S), IsInjective(line),
         \A a, b \in Range(line) : a.handle = b.handle => a = b
  PROVE  Cardinality(HandlesOf(line)) = Len(line)
<1> DEFINE l == Len(line)
           H == HandlesOf(line)
           f == [n \in 1 .. l |-> line[n].handle]
<1>1. l \in Nat /\ DOMAIN line = 1 .. l BY LenProperties
<1>2. H = {line[n].handle : n \in 1 .. l} BY <1>1 DEF HandlesOf
<1> HIDE DEF l, H
<1>3. f \in [1 .. l -> H] BY <1>2
<1>4. ASSUME NEW i \in 1 .. l, NEW j \in 1 .. l, f[i] = f[j] PROVE i = j
  <2>1. line[i] \in Range(line) /\ line[j] \in Range(line) BY <1>1 DEF Range
  <2>2. line[i].handle = line[j].handle BY <1>4
  <2>3. line[i] = line[j] BY <2>1, <2>2
  <2> QED BY <1>1, <2>3 DEF IsInjective
<1>5. \A h \in H : \E n \in 1 .. l : f[n] = h BY <1>2
<1>6. DOMAIN f = 1 .. l OBVIOUS
<1> HIDE DEF f
<1>7. f \in Bijection(1 .. l, H)
  BY <1>3, <1>4, <1>5, <1>6 DEF Bijection, Injection, Surjection, IsInjective
<1>8. ExistsBijection(1 .. l, H) BY <1>7 DEF ExistsBijection
<1>9. IsFiniteSet(1 .. l) /\ Cardinality(1 .. l) = l
  <2>1. 1 \in Int /\ l \in Int BY <1>1
  <2>2. IsFiniteSet(1 .. l) /\ Cardinality(1 .. l) = IF 1 > l THEN 0 ELSE l - 1 + 1
    BY <2>1, FS_Interval
  <2> QED BY <1>1, <2>2
<1>10. Cardinality(H) = l BY <1>8, <1>9, FS_Bijection
<1> QED BY <1>10 DEF H, l

\* The first of a line, and what is behind it.
LEMMA HeadOnce ==
  ASSUME NEW S, NEW q \in Seq(S), NEW e \in S, IsInjective(<<e>> \o q)
  PROVE  IsInjective(q) /\ e \notin Range(q) /\ Len(<<e>> \o q) = Len(q) + 1
<1> DEFINE l == Len(q)
           r == <<e>> \o q
<1>1. <<e>> \in Seq(S) /\ Len(<<e>>) = 1 /\ <<e>>[1] = e OBVIOUS
<1>2. /\ l \in Nat /\ DOMAIN q = 1 .. l
      /\ r \in Seq(S) /\ Len(r) = 1 + l
      /\ \A i \in 1 .. 1 + l : r[i] = IF i <= 1 THEN <<e>>[i] ELSE q[i - 1]
  BY <1>1, LenProperties, ConcatProperties
<1>3. DOMAIN r = 1 .. 1 + l /\ IsInjective(r) BY <1>2, LenProperties
<1> HIDE DEF l, r
<1>4. r[1] = e /\ \A i \in 1 .. l : r[i + 1] = q[i]
  <2>1. 1 \in 1 .. 1 + l BY <1>2
  <2>2. ASSUME NEW i \in 1 .. l PROVE r[i + 1] = q[i]
    <3>1. i + 1 \in 1 .. 1 + l /\ ~(i + 1 <= 1) /\ (i + 1) - 1 = i BY <1>2
    <3> QED BY <1>2, <3>1
  <2> QED BY <1>1, <1>2, <2>1, <2>2
<1>5. ASSUME NEW i \in 1 .. l, NEW j \in 1 .. l, q[i] = q[j] PROVE i = j
  <2>1. i + 1 \in 1 .. 1 + l /\ j + 1 \in 1 .. 1 + l BY <1>2
  <2>2. i + 1 = j + 1 BY <1>3, <1>4, <1>5, <2>1 DEF IsInjective
  <2> QED BY <1>2, <2>2
<1>6. ASSUME NEW i \in 1 .. l PROVE q[i] # e
  <2>1. i + 1 \in 1 .. 1 + l /\ 1 \in 1 .. 1 + l /\ i + 1 # 1 BY <1>2
  <2> QED BY <1>3, <1>4, <2>1 DEF IsInjective
<1>7. IsInjective(q) /\ e \notin Range(q) BY <1>2, <1>5, <1>6 DEF IsInjective, Range
<1>8. Len(r) = Len(q) + 1 BY <1>2 DEF l
<1> QED BY <1>7, <1>8 DEF r

\* Taking one out of the middle of a line.
LEMMA TakenFromMiddle ==
  ASSUME NEW S, NEW p \in Seq(S), NEW c \in S, NEW q \in Seq(S),
         NEW line, line = p \o (<<c>> \o q), NEW n, n = Len(p) + 1
  PROVE  /\ line \in Seq(S) /\ n \in 1 .. Len(line) /\ line[n] = c
         /\ \A m \in 1 .. n - 1 : m \in 1 .. Len(p) /\ line[m] = p[m]
         /\ SubSeq(line, 1, n - 1) = p /\ SubSeq(line, n + 1, Len(line)) = q
<1> DEFINE k == Len(p)
           l == Len(q)
           t == <<c>> \o q
<1>1. <<c>> \in Seq(S) /\ Len(<<c>>) = 1 /\ <<c>>[1] = c OBVIOUS
<1>2. /\ k \in Nat /\ l \in Nat
      /\ t \in Seq(S) /\ Len(t) = 1 + l
      /\ \A i \in 1 .. 1 + l : t[i] = IF i <= 1 THEN <<c>>[i] ELSE q[i - 1]
  BY <1>1, LenProperties, ConcatProperties
<1>3. line = p \o t OBVIOUS
<1>4. Len(p) = k /\ Len(q) = l OBVIOUS
<1> HIDE DEF k, l, t
<1>5. /\ line \in Seq(S) /\ Len(line) = k + (1 + l)
      /\ \A i \in 1 .. k + (1 + l) : line[i] = IF i <= k THEN p[i] ELSE t[i - k]
  BY <1>2, <1>3, <1>4, ConcatProperties
<1>6. n = k + 1 /\ n \in 1 .. k + (1 + l) /\ n - 1 = k /\ ~(n <= k) /\ n - k = 1 BY <1>2, <1>4
<1>7. line[n] = c
  <2>1. line[n] = t[1] BY <1>5, <1>6
  <2>2. 1 \in 1 .. 1 + l BY <1>2
  <2> QED BY <1>1, <1>2, <2>1, <2>2
<1>8. ASSUME NEW m \in 1 .. n - 1 PROVE m \in 1 .. k /\ line[m] = p[m]
  <2>1. m \in 1 .. k /\ m <= k /\ m \in 1 .. k + (1 + l) BY <1>2, <1>6
  <2> QED BY <1>5, <2>1
<1>9. SubSeq(line, 1, n - 1) = p
  <2>1. \A i \in 1 .. k : p[i] = line[1 + i - 1]
    <3>1. ASSUME NEW i \in 1 .. k PROVE p[i] = line[1 + i - 1]
      <4>1. i \in 1 .. n - 1 /\ 1 + i - 1 = i BY <1>2, <1>6
      <4> QED BY <1>8, <4>1
    <3> QED BY <3>1
  <2>2. 1 \in Nat \ {0} /\ k <= k + (1 + l) /\ k + 1 = 1 + k /\ k + (1 + l) \in Nat BY <1>2
  <2>3. SubSeq(line, 1, k) = p BY ONLY <1>2, <1>4, <1>5, <2>1, <2>2, p \in Seq(S), PartIs
  <2> QED BY <1>6, <2>3
<1>10. SubSeq(line, n + 1, Len(line)) = q
  <2>1. \A i \in 1 .. l : q[i] = line[(n + 1) + i - 1]
    <3>1. ASSUME NEW i \in 1 .. l PROVE q[i] = line[(n + 1) + i - 1]
      <4>1. /\ (n + 1) + i - 1 \in 1 .. k + (1 + l) /\ ~((n + 1) + i - 1 <= k)
            /\ ((n + 1) + i - 1) - k = i + 1
            /\ i + 1 \in 1 .. 1 + l /\ ~(i + 1 <= 1) /\ (i + 1) - 1 = i
        <5>1. k \in Nat /\ l \in Nat /\ n = k + 1 BY <1>2, <1>6
        <5> QED BY ONLY <5>1, i \in 1 .. l
      <4>2. line[(n + 1) + i - 1] = t[i + 1] BY <1>5, <4>1
      <4>3. t[i + 1] = q[i] BY <1>2, <4>1
      <4> QED BY <4>2, <4>3
    <3> QED BY <3>1
  <2> DEFINE z == k + (1 + l)
             m == n + 1
  <2>2. m \in Nat \ {0} /\ z \in Nat /\ z <= z /\ z + 1 = m + l
    <3>1. k \in Nat /\ l \in Nat /\ n = k + 1 BY <1>2, <1>6
    <3> QED BY ONLY <3>1
  <2>3. Len(line) = z /\ \A i \in 1 .. l : q[i] = line[m + i - 1] BY <1>5, <2>1
  <2> HIDE DEF z, m
  <2>4. SubSeq(line, m, z) = q BY ONLY <1>2, <1>4, <1>5, <2>2, <2>3, q \in Seq(S), PartIs
  <2> QED BY <2>3, <2>4 DEF m
<1> QED BY <1>4, <1>5, <1>6, <1>7, <1>8, <1>9, <1>10

-----------------------------------------------------------------------------
(***************************************************************************)
(* The lists of the queue and the line they stand for.                     *)
(***************************************************************************)
Slots == Calls \cup {NoCall}

ListsOf == [queue : Seq(Calls), snapshot : Seq(Slots), front : Seq(Calls),
            back : Seq(Calls), cursor : Nat, left : Int, active : BOOLEAN, count : Int]

\* Outside a dispatch there is only the queue, during one only the rest.
InPlace(l) ==
  /\ l \in ListsOf /\ l.cursor <= Len(l.snapshot)
  /\ IF l.active THEN l.queue = <<>>
     ELSE l.front = <<>> /\ l.back = <<>> /\ l.snapshot = <<>> /\ l.cursor = 0

Counted(l) == l.count = Len(Pending(l)) /\ l.left = Len(Rest(l))

\* Nobody stands in two lists, or in one twice, and handles tell calls apart.
Apart(l, top) ==
  /\ IsInjective(l.queue) /\ IsInjective(l.front)
  /\ IsInjective(l.back) /\ IsInjective(Rest(l))
  /\ Range(l.front) \cap Range(Rest(l)) = {}
  /\ Range(l.front) \cap Range(l.back) = {}
  /\ Range(l.back) \cap Range(Rest(l)) = {}
  /\ \A a, b \in Range(Pending(l)) : a.handle = b.handle => a = b
  /\ \A a \in Range(Pending(l)) : a.handle <= top

DispatchInv ==
  /\ InPlace(lists) /\ Counted(lists) /\ Apart(lists, handles)
  /\ handles \in Nat
  /\ dispatch \in [at : {"idle", "loop", "call"}, handle : Nat, made : Int]
  /\ lists.active <=> dispatch.at # "idle"
  /\ dispatch.handle # 0 <=> dispatch.at = "call"

LEMMA RestIs ==
  ASSUME NEW l, InPlace(l)
  PROVE  /\ SubSeq(l.snapshot, l.cursor + 1, Len(l.snapshot)) \in Seq(Slots)
         /\ Rest(l) \in Seq(Calls)
         /\ ~l.active => Rest(l) = <<>>
<1> DEFINE u == SubSeq(l.snapshot, l.cursor + 1, Len(l.snapshot))
<1>1. l.snapshot \in Seq(Slots) /\ l.cursor \in Nat /\ Len(l.snapshot) \in Nat
  BY LenProperties DEF InPlace, ListsOf
<1>2. u \in Seq(Slots)
  <2> DEFINE s == l.snapshot
             m == l.cursor + 1
             n == Len(s)
  <2>1. m \in Int /\ n \in Int /\ \A i \in m .. n : i \in 1 .. n BY <1>1
  <2>2. \A i \in 1 .. n : s[i] \in Slots BY <1>1, ElementOfSeq
  <2> HIDE DEF s, m, n
  <2>3. \A i \in m .. n : s[i] \in Slots BY <2>1, <2>2
  <2>4. SubSeq(s, m, n) \in Seq(Slots) BY ONLY <2>1, <2>3, SubSeqProperties
  <2> QED BY <2>4 DEF s, m, n
<1> HIDE DEF u
<1>3. Rest(l) = Keeping(u, Calls) BY DEF Rest, u
<1>4. Keeping(u, Calls) \in Seq(Slots) /\ Range(Keeping(u, Calls)) \subseteq Calls
  BY <1>2, KeepRange
<1>5. Rest(l) \in Seq(Calls)
  <2> DEFINE r == Rest(l)
  <2>1. r \in Seq(Slots) /\ Range(r) \subseteq Calls BY <1>3, <1>4
  <2> HIDE DEF r
  <2>2. Len(r) \in Nat /\ r \in [1 .. Len(r) -> Slots] /\ DOMAIN r = 1 .. Len(r)
    BY <2>1, LenProperties
  <2>3. \A i \in 1 .. Len(r) : r[i] \in Calls BY <2>1, <2>2 DEF Range
  <2>4. r \in [1 .. Len(r) -> Calls] BY <2>2, <2>3
  <2>5. r \in Seq(Calls) BY <2>2, <2>4
  <2> QED BY <2>5 DEF r
<1>6. ASSUME ~l.active PROVE Rest(l) = <<>>
  <2>1. l.snapshot = <<>> /\ l.cursor = 0 BY <1>6 DEF InPlace
  <2>2. Len(l.snapshot) = 0 BY <2>1
  <2>3. u = SubSeq(<<>>, 1, 0) BY <2>1, <2>2 DEF u
  <2>4. u = <<>> BY <2>3, SubSeqEmpty
  <2> QED BY <1>3, <2>4, KeepNone
<1> QED BY <1>2, <1>5, <1>6 DEF u

LEMMA PendingIs ==
  ASSUME NEW l, InPlace(l)
  PROVE  /\ Pending(l) \in Seq(Calls)
         /\ l.active => /\ Reverse(l.front) \in Seq(Calls)
                        /\ Len(Reverse(l.front)) = Len(l.front)
                        /\ Pending(l) = Reverse(l.front) \o (Rest(l) \o l.back)
         /\ ~l.active => Pending(l) = l.queue
         /\ Range(Pending(l)) = Range(l.queue) \cup Range(l.front) \cup Range(Rest(l))
                                  \cup Range(l.back)
<1>1. /\ l.queue \in Seq(Calls) /\ l.front \in Seq(Calls) /\ l.back \in Seq(Calls)
      /\ l.active \in BOOLEAN
  BY DEF InPlace, ListsOf
<1>2. Rest(l) \in Seq(Calls) /\ (~l.active => Rest(l) = <<>>) BY RestIs
<1>3. Range(<<>>) = {} BY DEF Range
<1>4. CASE ~l.active
  <2>1. Pending(l) = l.queue /\ l.front = <<>> /\ l.back = <<>> BY <1>4 DEF Pending, InPlace
  <2> QED BY <1>1, <1>2, <1>3, <1>4, <2>1
<1>5. CASE l.active
  <2> DEFINE f == Reverse(l.front)
             b == l.back
             r == Rest(l)
  <2>1. f \in Seq(Calls) /\ Range(f) = Range(l.front) /\ Len(f) = Len(l.front)
    BY <1>1, ReverseProperties
  <2>2. Pending(l) = f \o r \o b /\ l.queue = <<>> BY <1>5 DEF Pending, InPlace
  <2>3. b \in Seq(Calls) /\ r \in Seq(Calls) BY <1>1, <1>2
  <2> HIDE DEF f, b, r
  <2>4. f \o r \in Seq(Calls) /\ f \o r \o b \in Seq(Calls) /\ r \o b \in Seq(Calls)
    <3>1. f \o r \in Seq(Calls) /\ r \o b \in Seq(Calls) BY <2>1, <2>3, ConcatProperties
    <3> DEFINE fr == f \o r
    <3>2. fr \in Seq(Calls) BY <3>1
    <3> HIDE DEF fr
    <3>3. fr \o b \in Seq(Calls) BY <2>3, <3>2, ConcatProperties
    <3> QED BY <3>1, <3>3 DEF fr
  <2>5. f \o r \o b = f \o (r \o b) BY ONLY <2>1, <2>3, ConcatAssociative
  <2>6. Range(r \o b) = Range(r) \cup Range(b) BY <2>3, RangeConcatenation
  <2>7. Range(f \o (r \o b)) = Range(f) \cup Range(r \o b)
    <3> DEFINE rb == r \o b
    <3>1. rb \in Seq(Calls) BY <2>4
    <3> HIDE DEF rb
    <3>2. Range(f \o rb) = Range(f) \cup Range(rb) BY <2>1, <3>1, RangeConcatenation
    <3> QED BY <3>2 DEF rb
  <2>8. Range(Pending(l)) = Range(l.queue) \cup Range(l.front) \cup Range(r) \cup Range(b)
    BY <1>3, <2>1, <2>2, <2>5, <2>6, <2>7
  <2> QED BY <1>5, <2>1, <2>2, <2>4, <2>5, <2>8 DEF f, b, r
<1> QED BY <1>1, <1>4, <1>5

\* The rest has as many handles as calls.
LEMMA RestCounted ==
  ASSUME NEW l, NEW top, InPlace(l), Apart(l, top)
  PROVE  Cardinality(HandlesOf(Rest(l))) = Len(Rest(l))
<1>1. Rest(l) \in Seq(Calls) /\ IsInjective(Rest(l)) BY RestIs DEF Apart
<1>2. \A a, b \in Range(Rest(l)) : a.handle = b.handle => a = b BY PendingIs DEF Apart
<1> QED BY <1>1, <1>2, HandlesCounted

\* What a cancellation leaves of the lists is what it leaves of the line.
LEMMA ThinIs ==
  ASSUME NEW l, NEW kept, kept \subseteq Calls, InPlace(l)
  PROVE  /\ InPlace(Thin(l, kept))
         /\ Thin(l, kept).active = l.active
         /\ Thin(l, kept).queue = Keeping(l.queue, kept)
         /\ Thin(l, kept).front = Keeping(l.front, kept)
         /\ Thin(l, kept).back = Keeping(l.back, kept)
         /\ Rest(Thin(l, kept)) = Keeping(Rest(l), kept)
         /\ Pending(Thin(l, kept)) = Keeping(Pending(l), kept)
         /\ Counted(l) => Counted(Thin(l, kept))
<1> DEFINE slots == [n \in DOMAIN l.snapshot |->
                       IF n > l.cursor /\ l.snapshot[n] \notin kept THEN NoCall
                       ELSE l.snapshot[n]]
           d == IF l.active
                THEN [l EXCEPT !.front = Keeping(@, kept), !.back = Keeping(@, kept),
                               !.snapshot = slots]
                ELSE [l EXCEPT !.queue = Keeping(@, kept)]
           t == Thin(l, kept)
           c == l.cursor
           s == l.snapshot
           z == Len(s)
<1>1. /\ l \in ListsOf /\ l.active \in BOOLEAN /\ c \in Nat /\ c <= z /\ z \in Nat
      /\ s \in Seq(Slots) /\ DOMAIN s = 1 .. z
      /\ l.queue \in Seq(Calls) /\ l.front \in Seq(Calls) /\ l.back \in Seq(Calls)
      /\ l.count \in Int /\ l.left \in Int
  BY LenProperties DEF InPlace, ListsOf
<1>2. slots \in Seq(Slots) /\ Len(slots) = z
  <2>1. NoCall \in Slots /\ \A n \in 1 .. z : s[n] \in Slots BY <1>1, ElementOfSeq DEF Slots
  <2>2. slots \in [1 .. z -> Slots]
    <3> DEFINE sl(n) == IF n > c /\ s[n] \notin kept THEN NoCall ELSE s[n]
    <3>1. \A n \in 1 .. z : sl(n) \in Slots BY ONLY <2>1
    <3>2. slots = [n \in 1 .. z |-> sl(n)] BY <1>1
    <3> HIDE DEF sl, slots
    <3> QED BY <3>1, <3>2
  <2>3. z \in Nat BY <1>1
  <2> HIDE DEF slots, z
  <2> QED BY ONLY <2>2, <2>3
<1>3. Keeping(<<>>, kept) = <<>> BY KeepNone
<1>4. /\ Keeping(l.queue, kept) \in Seq(Calls) /\ Keeping(l.front, kept) \in Seq(Calls)
      /\ Keeping(l.back, kept) \in Seq(Calls)
  BY <1>1, KeepRange
<1>5. t = [d EXCEPT !.count = @ - (Len(Pending(l)) - Len(Pending(d))),
                    !.left = IF l.active THEN @ - (Len(Rest(l)) - Len(Rest(d))) ELSE @]
  BY DEF Thin
<1> HIDE DEF t
<1>6. CASE l.active
  <2>1. l.queue = <<>> BY <1>6 DEF InPlace
  <2>2. d = [l EXCEPT !.front = Keeping(@, kept), !.back = Keeping(@, kept),
                      !.snapshot = slots]
    BY <1>6
  <2> HIDE DEF slots, d
  <2>3. /\ d \in ListsOf /\ d.active = l.active /\ d.queue = l.queue /\ d.cursor = c
        /\ d.front = Keeping(l.front, kept) /\ d.back = Keeping(l.back, kept)
        /\ d.snapshot = slots /\ d.count = l.count /\ d.left = l.left
    BY <1>1, <1>2, <1>4, <2>2 DEF ListsOf
  <2>4. InPlace(d) BY <1>1, <1>2, <1>6, <2>1, <2>3 DEF InPlace
  <2>5. Rest(d) = Keeping(Rest(l), kept)
    <3> DEFINE u == SubSeq(s, c + 1, z)
               w == SubSeq(slots, c + 1, z)
    <3>1. Rest(l) = Keeping(u, Calls) /\ Rest(d) = Keeping(w, Calls) BY <1>2, <2>3 DEF Rest
    <3>2. u \in Seq(Slots) /\ w \in Seq(Slots)
      <4>1. SubSeq(l.snapshot, l.cursor + 1, Len(l.snapshot)) \in Seq(Slots) BY RestIs
      <4>2. SubSeq(d.snapshot, d.cursor + 1, Len(d.snapshot)) \in Seq(Slots) BY <2>4, RestIs
      <4> QED BY <1>2, <2>3, <4>1, <4>2
    <3>3. /\ Len(u) = z - c /\ \A i \in 1 .. z - c : u[i] = s[c + i]
          /\ Len(w) = z - c /\ \A i \in 1 .. z - c : w[i] = slots[c + i]
      <4> HIDE DEF c, z, s
      <4> DEFINE m == c + 1
      <4>1. m \in Int /\ z \in Int BY <1>1
      <4>2. \A i \in m .. z : i \in 1 .. z BY <1>1
      <4>3. /\ (IF m <= z THEN z - m + 1 ELSE 0) = z - c /\ z - m + 1 = z - c
            /\ \A i \in 1 .. z - c : m + i - 1 = c + i
        BY <1>1
      <4>4. \A i \in 1 .. z : s[i] \in Slots /\ slots[i] \in Slots
        BY <1>1, <1>2, ElementOfSeq DEF z
      <4> HIDE DEF m
      <4>5. \A i \in m .. z : s[i] \in Slots BY <4>2, <4>4
      <4>6. \A i \in m .. z : slots[i] \in Slots BY <4>2, <4>4
      <4>7. /\ Len(SubSeq(s, m, z)) = IF m <= z THEN z - m + 1 ELSE 0
            /\ \A i \in 1 .. z - m + 1 : SubSeq(s, m, z)[i] = s[m + i - 1]
        BY ONLY <4>1, <4>5, SubSeqProperties
      <4>8. /\ Len(SubSeq(slots, m, z)) = IF m <= z THEN z - m + 1 ELSE 0
            /\ \A i \in 1 .. z - m + 1 : SubSeq(slots, m, z)[i] = slots[m + i - 1]
        BY ONLY <4>1, <4>6, SubSeqProperties
      <4> QED BY <4>3, <4>7, <4>8 DEF m
    <3>4. ASSUME NEW i \in 1 .. z - c PROVE w[i] = IF u[i] \in kept THEN u[i] ELSE NoCall
      <4>1. c + i \in 1 .. z /\ c + i > c BY <1>1, <3>4
      <4>2. slots[c + i] = IF s[c + i] \notin kept THEN NoCall ELSE s[c + i]
        BY <1>1, <4>1 DEF slots
      <4> QED BY <3>3, <4>2
    <3> HIDE DEF u, w
    <3>5. Len(w) = Len(u) /\ \A i \in 1 .. Len(u) : w[i] = IF u[i] \in kept THEN u[i] ELSE NoCall
      BY <3>3, <3>4
    <3>6. Keeping(w, Calls) = Keeping(u, kept) BY <3>2, <3>5, KeepBlanked
    <3>7. Keeping(Keeping(u, Calls), kept) = Keeping(u, Calls \cap kept) BY <3>2, KeepTwice
    <3>8. Calls \cap kept = kept OBVIOUS
    <3> QED BY <3>1, <3>6, <3>7, <3>8
  <2>6. Pending(d) = Keeping(Pending(l), kept)
    <3> DEFINE f == Reverse(l.front)
               r == Rest(l)
               b == l.back
    <3>1. f \in Seq(Calls) /\ Pending(l) = f \o (r \o b) BY <1>6, PendingIs
    <3>2. r \in Seq(Calls) /\ b \in Seq(Calls) BY <1>1, RestIs
    <3>3. Keeping(f, kept) = Reverse(d.front) BY <1>1, <2>3, KeepReversed
    <3>4. Pending(d) = Reverse(d.front) \o (Rest(d) \o d.back) BY <1>6, <2>3, <2>4, PendingIs
    <3>5. Rest(d) = Keeping(r, kept) /\ d.back = Keeping(b, kept) BY <2>3, <2>5
    <3> HIDE DEF f, r, b
    <3>6. Keeping(r \o b, kept) = Keeping(r, kept) \o Keeping(b, kept) /\ r \o b \in Seq(Calls)
      BY <3>2, KeepJoined, ConcatProperties
    <3> DEFINE rb == r \o b
    <3>7. Keeping(f \o rb, kept) = Keeping(f, kept) \o Keeping(rb, kept)
      <4>1. rb \in Seq(Calls) BY <3>6
      <4> HIDE DEF rb
      <4> QED BY <3>1, <4>1, KeepJoined
    <3> QED BY <3>1, <3>3, <3>4, <3>5, <3>6, <3>7
  <2>7. /\ t \in ListsOf /\ t.active = l.active /\ t.queue = l.queue /\ t.cursor = c
        /\ t.front = d.front /\ t.back = d.back /\ t.snapshot = d.snapshot
        /\ t.count = l.count - (Len(Pending(l)) - Len(Pending(d)))
        /\ t.left = l.left - (Len(Rest(l)) - Len(Rest(d)))
    <3>1. t = [d EXCEPT !.count = @ - (Len(Pending(l)) - Len(Pending(d))),
                        !.left = @ - (Len(Rest(l)) - Len(Rest(d)))]
      BY <1>5, <1>6
    <3>2. /\ Len(Pending(l)) \in Int /\ Len(Pending(d)) \in Int
          /\ Len(Rest(l)) \in Int /\ Len(Rest(d)) \in Int
      BY <2>4, PendingIs, RestIs, LenProperties
    <3>3. /\ l.count - (Len(Pending(l)) - Len(Pending(d))) \in Int
          /\ l.left - (Len(Rest(l)) - Len(Rest(d))) \in Int
      BY <1>1, <3>2
    <3> QED BY <2>3, <3>1, <3>3 DEF ListsOf
  <2>8. Rest(t) = Rest(d) /\ Pending(t) = Pending(d) BY <2>3, <2>7 DEF Rest, Pending
  <2>9. InPlace(t) BY <2>3, <2>4, <2>7 DEF InPlace
  <2>10. ASSUME Counted(l) PROVE Counted(t)
    <3>1. l.count = Len(Pending(l)) /\ l.left = Len(Rest(l)) BY <2>10 DEF Counted
    <3>2. /\ Len(Pending(l)) \in Int /\ Len(Pending(d)) \in Int
          /\ Len(Rest(l)) \in Int /\ Len(Rest(d)) \in Int
      BY <2>4, PendingIs, RestIs, LenProperties
    <3>3. t.count = Len(Pending(d)) /\ t.left = Len(Rest(d)) BY <2>7, <3>1, <3>2
    <3> QED BY <2>8, <3>3 DEF Counted
  <2> QED BY <1>3, <2>1, <2>3, <2>5, <2>6, <2>7, <2>8, <2>9, <2>10 DEF t
<1>7. CASE ~l.active
  <2>1. /\ l.front = <<>> /\ l.back = <<>> /\ l.snapshot = <<>> /\ l.cursor = 0
    BY <1>7 DEF InPlace
  <2>2. d = [l EXCEPT !.queue = Keeping(@, kept)] BY <1>7
  <2> HIDE DEF slots, d
  <2>3. /\ d \in ListsOf /\ d.active = l.active /\ d.queue = Keeping(l.queue, kept)
        /\ d.cursor = c /\ d.front = l.front /\ d.back = l.back
        /\ d.snapshot = l.snapshot /\ d.count = l.count /\ d.left = l.left
    BY <1>1, <1>4, <2>2 DEF ListsOf
  <2>4. InPlace(d) BY <1>1, <1>7, <2>1, <2>3 DEF InPlace
  <2>5. Rest(d) = <<>> /\ Rest(l) = <<>> BY <1>7, <2>3, <2>4, RestIs
  <2>6. Pending(d) = Keeping(Pending(l), kept) BY <1>7, <2>3, <2>4, PendingIs
  <2>7. /\ t \in ListsOf /\ t.active = l.active /\ t.queue = d.queue /\ t.cursor = c
        /\ t.front = l.front /\ t.back = l.back /\ t.snapshot = l.snapshot
        /\ t.count = l.count - (Len(Pending(l)) - Len(Pending(d)))
        /\ t.left = l.left
    <3>1. t = [d EXCEPT !.count = @ - (Len(Pending(l)) - Len(Pending(d))), !.left = @]
      BY <1>5, <1>7
    <3>2. /\ Len(Pending(l)) \in Int /\ Len(Pending(d)) \in Int
      BY <2>4, PendingIs, LenProperties
    <3>3. l.count - (Len(Pending(l)) - Len(Pending(d))) \in Int BY <1>1, <3>2
    <3> QED BY <2>3, <3>1, <3>3 DEF ListsOf
  <2>8. Rest(t) = Rest(d) /\ Pending(t) = Pending(d) BY <2>3, <2>7 DEF Rest, Pending
  <2>9. InPlace(t) BY <2>3, <2>4, <2>7 DEF InPlace
  <2>10. ASSUME Counted(l) PROVE Counted(t)
    <3>1. l.count = Len(Pending(l)) /\ l.left = Len(Rest(l)) BY <2>10 DEF Counted
    <3>2. Len(Pending(l)) \in Int /\ Len(Pending(d)) \in Int BY <2>4, PendingIs, LenProperties
    <3>3. t.count = Len(Pending(d)) /\ t.left = Len(Rest(d)) BY <2>5, <2>7, <3>1, <3>2
    <3> QED BY <2>8, <3>3 DEF Counted
  <2> QED BY <1>3, <2>1, <2>3, <2>5, <2>6, <2>7, <2>8, <2>9, <2>10 DEF t
<1> QED BY <1>1, <1>6, <1>7

LEMMA HandlesAre ==
  ASSUME NEW line
  PROVE  HandlesOf(line) = {a.handle : a \in Range(line)}
BY DEF HandlesOf, Range

\* The rest of a cancellation: the calls that stay are apart, and due are those that
\* were due and are still in the line.
LEMMA ThinApart ==
  ASSUME NEW l, NEW top, NEW kept, kept \subseteq Calls, InPlace(l), Apart(l, top)
  PROVE  /\ Apart(Thin(l, kept), top)
         /\ HandlesOf(Rest(Thin(l, kept))) =
              HandlesOf(Rest(l)) \cap HandlesOf(Keeping(Pending(l), kept))
<1> DEFINE t == Thin(l, kept)
<1>1. /\ InPlace(t)
      /\ t.queue = Keeping(l.queue, kept) /\ t.front = Keeping(l.front, kept)
      /\ t.back = Keeping(l.back, kept) /\ Rest(t) = Keeping(Rest(l), kept)
      /\ Pending(t) = Keeping(Pending(l), kept)
  BY ThinIs
<1>2. /\ l.queue \in Seq(Calls) /\ l.front \in Seq(Calls) /\ l.back \in Seq(Calls)
      /\ Rest(l) \in Seq(Calls) /\ Pending(l) \in Seq(Calls)
  BY RestIs, PendingIs DEF InPlace, ListsOf
<1>3. /\ IsInjective(l.queue) /\ IsInjective(l.front) /\ IsInjective(l.back)
      /\ IsInjective(Rest(l))
  BY DEF Apart
<1>4. /\ IsInjective(t.queue) /\ IsInjective(t.front) /\ IsInjective(t.back)
      /\ IsInjective(Rest(t))
  BY <1>1, <1>2, <1>3, KeptOnce
<1>5. /\ Range(t.front) = Range(l.front) \cap kept
      /\ Range(t.back) = Range(l.back) \cap kept
      /\ Range(Rest(t)) = Range(Rest(l)) \cap kept
      /\ Range(Pending(t)) = Range(Pending(l)) \cap kept
  BY <1>1, <1>2, KeepRange
<1>6. Apart(t, top)
  <2>1. /\ Range(l.front) \cap Range(Rest(l)) = {} /\ Range(l.front) \cap Range(l.back) = {}
        /\ Range(l.back) \cap Range(Rest(l)) = {}
    BY DEF Apart
  <2>2. /\ \A a, b \in Range(Pending(t)) : a.handle = b.handle => a = b
        /\ \A a \in Range(Pending(t)) : a.handle <= top
    BY <1>5 DEF Apart
  <2>3. /\ Range(t.front) \cap Range(Rest(t)) = {} /\ Range(t.front) \cap Range(t.back) = {}
        /\ Range(t.back) \cap Range(Rest(t)) = {}
    BY <1>5, <2>1
  <2> HIDE DEF t
  <2> QED BY <1>4, <2>2, <2>3 DEF Apart
<1>7. HandlesOf(Rest(t)) = HandlesOf(Rest(l)) \cap HandlesOf(Keeping(Pending(l), kept))
  <2> DEFINE R == Range(Rest(l))
             P == Range(Pending(l))
  <2>1. R \subseteq P /\ \A a, b \in P : a.handle = b.handle => a = b BY PendingIs DEF Apart
  <2>2. /\ HandlesOf(Rest(t)) = {a.handle : a \in R \cap kept}
        /\ HandlesOf(Rest(l)) = {a.handle : a \in R}
        /\ HandlesOf(Pending(t)) = {a.handle : a \in P \cap kept}
    BY <1>5, HandlesAre
  <2> HIDE DEF R, P, t
  <2>3. {a.handle : a \in R \cap kept} =
          {a.handle : a \in R} \cap {a.handle : a \in P \cap kept}
    <3>1. ASSUME NEW h, h \in {a.handle : a \in R}, h \in {a.handle : a \in P \cap kept}
          PROVE  h \in {a.handle : a \in R \cap kept}
      <4>1. PICK a \in R : h = a.handle BY <3>1
      <4>2. PICK b \in P \cap kept : h = b.handle BY <3>1
      <4>3. a = b BY <2>1, <4>1, <4>2
      <4> QED BY <4>1, <4>2, <4>3
    <3>2. ASSUME NEW h, h \in {a.handle : a \in R \cap kept}
          PROVE  h \in {a.handle : a \in R} /\ h \in {a.handle : a \in P \cap kept}
      BY <2>1, <3>2
    <3> QED BY <3>1, <3>2
  <2> QED BY <1>1, <2>2, <2>3
<1> QED BY <1>6, <1>7 DEF t

-----------------------------------------------------------------------------
Posted(l, call, front) ==
  LET counted == [l EXCEPT !.count = @ + 1]
  IN  CASE l.active /\ front  -> [counted EXCEPT !.front = Append(@, call)]
        [] l.active /\ ~front -> [counted EXCEPT !.back = Append(@, call)]
        [] ~l.active /\ front -> [counted EXCEPT !.queue = <<call>> \o @]
        [] OTHER              -> [counted EXCEPT !.queue = Append(@, call)]

\* A post puts the call at one end of the line, wherever the lists hold that end.
LEMMA PostIs ==
  ASSUME NEW l, NEW top \in Nat, InPlace(l), Counted(l), Apart(l, top),
         NEW call \in Calls, call.handle = top + 1, NEW front \in BOOLEAN, NEW t,
         t = Posted(l, call, front)
  PROVE  /\ InPlace(t) /\ Counted(t) /\ Apart(t, top + 1)
         /\ t.active = l.active /\ Rest(t) = Rest(l)
         /\ Pending(t) = Append(Pending(l), call) \/ Pending(t) = <<call>> \o Pending(l)
<1>1. /\ l \in ListsOf /\ l.active \in BOOLEAN
      /\ l.queue \in Seq(Calls) /\ l.front \in Seq(Calls) /\ l.back \in Seq(Calls)
      /\ l.count \in Int /\ l.left \in Int /\ l.cursor <= Len(l.snapshot)
      /\ Rest(l) \in Seq(Calls) /\ Pending(l) \in Seq(Calls)
  BY RestIs, PendingIs DEF InPlace, ListsOf
<1>2. /\ Range(Pending(l)) = Range(l.queue) \cup Range(l.front) \cup Range(Rest(l))
                               \cup Range(l.back)
      /\ call \notin Range(Pending(l))
  <2>1. \A a \in Range(Pending(l)) : a.handle <= top BY DEF Apart
  <2>2. ~(top + 1 <= top) OBVIOUS
  <2> QED BY <2>1, <2>2, PendingIs
<1> DEFINE Added(m) == /\ m \in Seq(Calls) /\ Range(m) = Range(Pending(l)) \cup {call}
                       /\ Len(m) = Len(Pending(l)) + 1
<1>3. /\ Added(Append(Pending(l), call)) /\ Added(<<call>> \o Pending(l))
  <2> DEFINE p == Pending(l)
  <2>1. p \in Seq(Calls) /\ <<call>> \in Seq(Calls) /\ Len(<<call>>) = 1 /\ Len(p) \in Nat
    BY <1>1, LenProperties
  <2> HIDE DEF p
  <2>2. /\ Append(p, call) \in Seq(Calls) /\ Range(Append(p, call)) = Range(p) \cup {call}
        /\ Len(Append(p, call)) = Len(p) + 1
    BY <2>1, AppendedOnce
  <2>3. <<call>> \o p \in Seq(Calls) /\ Range(<<call>> \o p) = Range(p) \cup {call}
    BY <2>1, PutBefore
  <2>4. Len(<<call>> \o p) = Len(p) + 1
    <3>1. Len(<<call>> \o p) = Len(<<call>>) + Len(p) BY <2>1, ConcatProperties
    <3> QED BY <2>1, <3>1
  <2> QED BY <2>2, <2>3, <2>4 DEF p
<1>4. /\ t \in ListsOf /\ t.active = l.active /\ t.snapshot = l.snapshot /\ t.cursor = l.cursor
      /\ t.count = l.count + 1 /\ t.left = l.left
      /\ t.front = IF l.active /\ front THEN Append(l.front, call) ELSE l.front
      /\ t.back = IF l.active /\ ~front THEN Append(l.back, call) ELSE l.back
      /\ t.queue = IF l.active THEN l.queue
                   ELSE IF front THEN <<call>> \o l.queue ELSE Append(l.queue, call)
  <2> DEFINE counted == [l EXCEPT !.count = @ + 1]
  <2>1. /\ counted \in ListsOf /\ counted.active = l.active /\ counted.snapshot = l.snapshot
        /\ counted.cursor = l.cursor /\ counted.count = l.count + 1 /\ counted.left = l.left
        /\ counted.front = l.front /\ counted.back = l.back /\ counted.queue = l.queue
    <3>1. l \in ListsOf /\ l.count + 1 \in Int BY <1>1
    <3> QED BY ONLY <3>1 DEF ListsOf
  <2>2. t = CASE l.active /\ front  -> [counted EXCEPT !.front = Append(@, call)]
              [] l.active /\ ~front -> [counted EXCEPT !.back = Append(@, call)]
              [] ~l.active /\ front -> [counted EXCEPT !.queue = <<call>> \o @]
              [] OTHER              -> [counted EXCEPT !.queue = Append(@, call)]
    BY DEF Posted
  <2>3. /\ Append(l.front, call) \in Seq(Calls) /\ Append(l.back, call) \in Seq(Calls)
        /\ Append(l.queue, call) \in Seq(Calls) /\ <<call>> \o l.queue \in Seq(Calls)
    BY <1>1, JoinedNext
  <2> HIDE DEF counted
  <2>4. CASE l.active /\ front
    <3>1. t = [counted EXCEPT !.front = Append(@, call)] BY <2>2, <2>4
    <3> QED BY ONLY <2>1, <2>3, <2>4, <3>1 DEF ListsOf
  <2>5. CASE l.active /\ ~front
    <3>1. t = [counted EXCEPT !.back = Append(@, call)] BY <2>2, <2>5
    <3> QED BY ONLY <2>1, <2>3, <2>5, <3>1 DEF ListsOf
  <2>6. CASE ~l.active /\ front
    <3>1. t = [counted EXCEPT !.queue = <<call>> \o @] BY <2>2, <2>6
    <3> QED BY ONLY <2>1, <2>3, <2>6, <3>1 DEF ListsOf
  <2>7. CASE ~l.active /\ ~front
    <3>1. t = [counted EXCEPT !.queue = Append(@, call)] BY <2>2, <2>7
    <3> QED BY ONLY <2>1, <2>3, <2>7, <3>1 DEF ListsOf
  <2> QED BY <1>1, <2>4, <2>5, <2>6, <2>7
<1> HIDE DEF Added
<1>5. InPlace(t) /\ Rest(t) = Rest(l) BY <1>1, <1>4 DEF InPlace, Rest
<1>6. Pending(t) = Append(Pending(l), call) \/ Pending(t) = <<call>> \o Pending(l)
  <2>1. CASE ~l.active BY <1>4, <1>5, <2>1, PendingIs
  <2>2. CASE l.active
    <3> DEFINE f == Reverse(l.front)
               rb == Rest(l) \o l.back
    <3>1. /\ f \in Seq(Calls) /\ Pending(l) = f \o rb
          /\ Pending(t) = Reverse(t.front) \o (Rest(t) \o t.back)
      BY <1>4, <1>5, <2>2, PendingIs
    <3>2. rb \in Seq(Calls) /\ Rest(l) \o Append(l.back, call) = Append(rb, call)
      <4> DEFINE r == Rest(l)
                 b == l.back
      <4>1. r \in Seq(Calls) /\ b \in Seq(Calls) BY <1>1
      <4> HIDE DEF r, b
      <4>2. r \o b \in Seq(Calls) /\ r \o Append(b, call) = Append(r \o b, call)
        BY <4>1, JoinedNext
      <4> QED BY <4>2 DEF r, b
    <3>3. Reverse(Append(l.front, call)) = <<call>> \o f BY <1>1, ReverseProperties
    <3> HIDE DEF f, rb
    <3>4. f \o Append(rb, call) = Append(f \o rb, call) /\ (<<call>> \o f) \o rb = <<call>> \o (f \o rb)
      <4>1. f \in Seq(Calls) /\ rb \in Seq(Calls) /\ call \in Calls BY <3>1, <3>2
      <4> QED BY ONLY <4>1, JoinedNext
    <3>5. CASE front
      <4>1. Pending(t) = (<<call>> \o f) \o rb BY <1>4, <1>5, <2>2, <3>1, <3>3, <3>5 DEF rb
      <4> QED BY <3>1, <3>4, <4>1
    <3>6. CASE ~front
      <4>1. Pending(t) = f \o Append(rb, call) BY <1>4, <1>5, <2>2, <3>1, <3>2, <3>6 DEF f
      <4> QED BY <3>1, <3>4, <4>1
    <3> QED BY <3>5, <3>6
  <2> QED BY <2>1, <2>2
<1>7. Added(Pending(t)) BY <1>3, <1>6
<1>8. Counted(t) BY <1>1, <1>4, <1>5, <1>7 DEF Counted, Added
<1>9. Apart(t, top + 1)
  <2>1. /\ IsInjective(l.queue) /\ IsInjective(l.front) /\ IsInjective(l.back)
        /\ IsInjective(Rest(l))
        /\ Range(l.front) \cap Range(Rest(l)) = {} /\ Range(l.front) \cap Range(l.back) = {}
        /\ Range(l.back) \cap Range(Rest(l)) = {}
        /\ \A a, b \in Range(Pending(l)) : a.handle = b.handle => a = b
        /\ \A a \in Range(Pending(l)) : a.handle <= top
    BY DEF Apart
  <2>2. /\ call \notin Range(l.queue) /\ call \notin Range(l.front)
        /\ call \notin Range(l.back) /\ call \notin Range(Rest(l))
    BY <1>2
  <2>3. /\ Range(Append(l.front, call)) = Range(l.front) \cup {call}
        /\ IsInjective(Append(l.front, call))
        /\ Range(Append(l.back, call)) = Range(l.back) \cup {call}
        /\ IsInjective(Append(l.back, call))
        /\ IsInjective(Append(l.queue, call)) /\ IsInjective(<<call>> \o l.queue)
    BY <1>1, <2>1, <2>2, AppendedOnce, PutBefore
  <2>4. IsInjective(t.queue) /\ IsInjective(t.front) /\ IsInjective(t.back)
    BY ONLY <1>4, <2>1, <2>3
  <2>5. /\ Range(t.front) \cap Range(Rest(t)) = {} /\ Range(t.front) \cap Range(t.back) = {}
        /\ Range(t.back) \cap Range(Rest(t)) = {}
    <3>1. Range(t.front) = Range(l.front) \/ (Range(t.front) = Range(l.front) \cup {call} /\ front)
      BY ONLY <1>4, <2>3
    <3>2. Range(t.back) = Range(l.back) \/ (Range(t.back) = Range(l.back) \cup {call} /\ ~front)
      BY ONLY <1>4, <2>3
    <3> QED BY ONLY <1>5, <2>1, <2>2, <3>1, <3>2
  <2>6. \A a \in Range(Pending(t)) : a = call \/ a \in Range(Pending(l)) BY <1>7 DEF Added
  <2>7. \A a \in Range(Pending(l)) : a.handle <= top + 1 /\ a.handle # top + 1
    <3>1. ASSUME NEW a \in Range(Pending(l)) PROVE a.handle <= top + 1 /\ a.handle # top + 1
      <4>1. a \in Calls /\ a.handle <= top BY <1>1, <2>1, RangeOfSeq
      <4>2. a.handle \in Nat BY <4>1 DEF Calls
      <4> QED BY ONLY <4>1, <4>2, top \in Nat
    <3> QED BY <3>1
  <2>8. /\ \A a, b \in Range(Pending(t)) : a.handle = b.handle => a = b
        /\ \A a \in Range(Pending(t)) : a.handle <= top + 1
    <3>1. top + 1 <= top + 1 OBVIOUS
    <3> QED BY ONLY <2>1, <2>6, <2>7, <3>1, call.handle = top + 1
  <2> QED BY ONLY <1>5, <2>1, <2>4, <2>5, <2>8 DEF Apart
<1> QED BY <1>4, <1>5, <1>6, <1>8, <1>9

\* Two parts of lines that agree there.
LEMMA SamePart ==
  ASSUME NEW S, NEW q \in Seq(S), NEW r \in Seq(S), NEW z \in Nat, Len(q) = z, Len(r) = z,
         NEW m \in Nat \ {0}, \A i \in m .. z : q[i] = r[i]
  PROVE  SubSeq(q, m, z) = SubSeq(r, m, z) /\ SubSeq(q, m, z) \in Seq(S)
<1>1. (\A i \in 1 .. z : q[i] \in S /\ r[i] \in S) /\ \A i \in m .. z : i \in 1 .. z
  BY ElementOfSeq
<1>2. (\A i \in m .. z : q[i] \in S) /\ (\A i \in m .. z : r[i] \in S) /\ m \in Int /\ z \in Int
  BY <1>1
<1> DEFINE a == SubSeq(q, m, z)
           b == SubSeq(r, m, z)
<1>3. /\ a \in Seq(S) /\ Len(a) = IF m <= z THEN z - m + 1 ELSE 0
      /\ \A i \in 1 .. z - m + 1 : a[i] = q[m + i - 1]
  BY ONLY <1>2, SubSeqProperties
<1>4. /\ b \in Seq(S) /\ Len(b) = IF m <= z THEN z - m + 1 ELSE 0
      /\ \A i \in 1 .. z - m + 1 : b[i] = r[m + i - 1]
  BY ONLY <1>2, SubSeqProperties
<1> HIDE DEF a, b
<1>5. Len(a) = Len(b) BY <1>3, <1>4
<1>6. ASSUME NEW i \in 1 .. Len(a) PROVE a[i] = b[i]
  <2>1. m <= z /\ Len(a) = z - m + 1 BY <1>3, <1>6
  <2>2. i \in 1 .. z - m + 1 /\ m + i - 1 \in m .. z BY <1>6, <2>1
  <2> QED BY <1>3, <1>4, <2>2
<1>7. a = b BY <1>3, <1>4, <1>5, <1>6, SeqEqual
<1> QED BY <1>3, <1>7 DEF a, b

Taken(l, n) ==
  [l EXCEPT !.cursor = n, !.left = @ - 1, !.count = @ - 1,
            !.snapshot = [m \in DOMAIN @ |-> IF m <= n THEN NoCall ELSE @[m]]]

\* The call that is taken is the first of the rest.
LEMMA TakenIs ==
  ASSUME NEW l, NEW top, InPlace(l), Counted(l), Apart(l, top), l.active,
         NEW n \in l.cursor + 1 .. Len(l.snapshot), l.snapshot[n] \in Calls,
         \A m \in l.cursor + 1 .. n - 1 : l.snapshot[m] \notin Calls,
         NEW t, t = Taken(l, n)
  PROVE  /\ InPlace(t) /\ Counted(t) /\ Apart(t, top) /\ t.active
         /\ t.front = l.front /\ t.back = l.back
         /\ Rest(l) = <<l.snapshot[n]>> \o Rest(t)
<1> DEFINE s == l.snapshot
           z == Len(s)
           c == l.cursor
           e == s[n]
           slots == [m \in DOMAIN s |-> IF m <= n THEN NoCall ELSE s[m]]
<1>1. /\ l \in ListsOf /\ s \in Seq(Slots) /\ z \in Nat /\ c \in Nat /\ c <= z
      /\ DOMAIN s = 1 .. z /\ l.count \in Int /\ l.left \in Int
      /\ l.front \in Seq(Calls) /\ l.back \in Seq(Calls) /\ l.queue = <<>>
      /\ \A i \in 1 .. z : s[i] \in Slots
  BY LenProperties, ElementOfSeq DEF InPlace, ListsOf
<1>2. n \in Nat /\ n \in 1 .. z /\ c + 1 <= n /\ n <= z BY <1>1
<1>3. slots \in Seq(Slots) /\ Len(slots) = z
  <2> DEFINE sl(m) == IF m <= n THEN NoCall ELSE s[m]
  <2>1. NoCall \in Slots /\ \A m \in 1 .. z : s[m] \in Slots BY <1>1 DEF Slots
  <2>2. \A m \in 1 .. z : sl(m) \in Slots BY ONLY <2>1
  <2>3. slots = [m \in 1 .. z |-> sl(m)] /\ z \in Nat BY <1>1
  <2> HIDE DEF sl, slots, z
  <2>4. slots \in [1 .. z -> Slots] BY <2>2, <2>3
  <2> QED BY ONLY <2>3, <2>4
<1>4. /\ t \in ListsOf /\ t.active = l.active /\ t.queue = l.queue /\ t.front = l.front
      /\ t.back = l.back /\ t.snapshot = slots /\ t.cursor = n
      /\ t.left = l.left - 1 /\ t.count = l.count - 1
  <2>1. t = [l EXCEPT !.cursor = n, !.left = @ - 1, !.count = @ - 1, !.snapshot = slots]
    BY DEF Taken
  <2>2. l.left - 1 \in Int /\ l.count - 1 \in Int BY <1>1
  <2> HIDE DEF slots, s, z, c
  <2> QED BY ONLY <1>1, <1>2, <1>3, <2>1, <2>2 DEF ListsOf
<1>5. InPlace(t)
  <2> HIDE DEF slots
  <2> QED BY <1>1, <1>2, <1>3, <1>4 DEF InPlace
<1>6. Rest(l) = <<e>> \o Rest(t)
  <2> DEFINE u == SubSeq(s, c + 1, z)
             v == SubSeq(s, n + 1, z)
             w == SubSeq(s, c + 1, n)
             x == SubSeq(s, c + 1, n - 1)
  <2>1. v = SubSeq(slots, n + 1, z) /\ v \in Seq(Slots)
    <3>1. \A i \in n + 1 .. z : s[i] = slots[i]
      <4>1. ASSUME NEW i \in n + 1 .. z PROVE s[i] = slots[i]
        <5>1. i \in 1 .. z /\ ~(i <= n) BY <1>1, <1>2
        <5> QED BY <1>1, <5>1
      <4> QED BY <4>1
    <3> DEFINE m == n + 1
    <3>2. m \in Nat \ {0} /\ Len(s) = z /\ \A i \in m .. z : s[i] = slots[i] BY <1>2, <3>1
    <3> HIDE DEF m, slots, s, z
    <3>3. SubSeq(s, m, z) = SubSeq(slots, m, z) /\ SubSeq(s, m, z) \in Seq(Slots)
      BY ONLY <1>1, <1>3, <3>2, SamePart
    <3> QED BY <3>3 DEF m
  <2>2. u = w \o v
    <3> HIDE DEF s
    <3>1. c + 1 \in 1 .. Len(s) + 1 /\ n \in (c + 1) - 1 .. Len(s) /\ z \in n .. Len(s)
      BY <1>1, <1>2
    <3> HIDE DEF z, c
    <3> DEFINE m == c + 1
    <3>2. m \in 1 .. Len(s) + 1 /\ n \in m - 1 .. Len(s) BY <3>1
    <3> HIDE DEF m
    <3>3. SubSeq(s, m, n) \o SubSeq(s, n + 1, z) = SubSeq(s, m, z)
      BY ONLY <1>1, <3>1, <3>2, ConcatAdjacentSubSeq
    <3> QED BY <3>3 DEF m
  <2>3. w = x \o <<e>>
    <3> HIDE DEF s
    <3> DEFINE m == c + 1
    <3>1. m \in 1 .. Len(s) /\ n \in m .. Len(s) BY <1>1, <1>2
    <3> HIDE DEF z, c, m
    <3>2. SubSeq(s, m, n) = SubSeq(s, m, n - 1) \o <<s[n]>>
      BY ONLY <1>1, <3>1, SubSeqRecursiveSecond
    <3> QED BY <3>2 DEF m
  <2>4. x \in Seq(Slots) /\ Keeping(x, Calls) = <<>>
    <3> DEFINE m == c + 1
               k == n - 1
    <3>1. m \in Int /\ k \in Int /\ m >= 1 /\ \A i \in m .. k : i \in 1 .. z BY <1>1, <1>2
    <3>2. \A i \in m .. k : s[i] \notin Calls OBVIOUS
    <3> HIDE DEF m, k, s, z, c
    <3>3. \A i \in m .. k : s[i] \in Slots BY <1>1, <3>1
    <3> DEFINE y == SubSeq(s, m, k)
    <3>4. /\ y \in Seq(Slots) /\ Len(y) = IF m <= k THEN k - m + 1 ELSE 0
          /\ \A i \in 1 .. k - m + 1 : y[i] = s[m + i - 1]
      BY ONLY <3>1, <3>3, SubSeqProperties
    <3> HIDE DEF y
    <3>5. Range(y) \cap Calls = {}
      <4>1. Len(y) \in Nat /\ DOMAIN y = 1 .. Len(y) BY <3>4, LenProperties
      <4>2. ASSUME NEW i \in 1 .. Len(y) PROVE y[i] \notin Calls
        <5>1. i \in 1 .. k - m + 1 /\ m + i - 1 \in m .. k BY <3>1, <3>4, <4>1, <4>2
        <5> QED BY <3>2, <3>4, <5>1
      <4> QED BY <4>1, <4>2 DEF Range
    <3>6. Keeping(y, Calls) = <<>> BY <3>4, <3>5, KeepNobody
    <3>7. y = x BY DEF y, m, k
    <3> QED BY <3>4, <3>6, <3>7
  <2>5. e \in Calls /\ Calls \subseteq Slots BY DEF Slots
  <2>6. Keeping(u, Calls) = Rest(l) /\ Keeping(v, Calls) = Rest(t)
    <3>1. Rest(l) = Keeping(u, Calls) BY DEF Rest
    <3> HIDE DEF slots, s, z, c, v
    <3>2. Rest(t) = Keeping(SubSeq(slots, n + 1, z), Calls) BY <1>3, <1>4 DEF Rest
    <3> QED BY <2>1, <3>1, <3>2
  <2> HIDE DEF u, v, w, x, e, slots, s, z, c
  <2> DEFINE ee == <<e>>
  <2>7. ee \in Seq(Slots) /\ Range(ee) \subseteq Calls
    <3>1. ee \in Seq(Slots) BY <2>5
    <3>2. Range(ee) = {e} BY DEF Range
    <3> QED BY <2>5, <3>1, <3>2
  <2>8. w = x \o ee BY <2>3
  <2>9. Rest(t) \in Seq(Calls) BY <1>5, RestIs
  <2> HIDE DEF ee
  <2>10. Keeping(ee, Calls) = ee BY <2>7, KeepAll
  <2>11. w \in Seq(Slots) /\ Keeping(w, Calls) = <<>> \o ee
    <3>0. x \in Seq(Slots) /\ ee \in Seq(Slots) BY <2>4, <2>7
    <3>1. Keeping(x \o ee, Calls) = Keeping(x, Calls) \o Keeping(ee, Calls)
      BY ONLY <3>0, KeepJoined
    <3>2. x \o ee \in Seq(Slots) BY <2>4, <2>7, ConcatProperties
    <3> QED BY <2>4, <2>8, <2>10, <3>1, <3>2
  <2>12. <<>> \o ee = ee BY <2>7, ConcatEmptySeq
  <2>13. Keeping(w \o v, Calls) = Keeping(w, Calls) \o Keeping(v, Calls)
    <3>1. w \in Seq(Slots) /\ v \in Seq(Slots) BY <2>1, <2>11
    <3> QED BY ONLY <3>1, KeepJoined
  <2> QED BY <2>2, <2>6, <2>11, <2>12, <2>13 DEF ee
<1> DEFINE r == Rest(t)
<1>7. r \in Seq(Calls) /\ e \in Calls /\ Len(r) \in Nat BY <1>5, RestIs, LenProperties
<1>8. IsInjective(Rest(l)) BY DEF Apart
<1> HIDE DEF e, s, z, c, slots, r
<1>9. IsInjective(r) /\ e \notin Range(r) /\ Len(<<e>> \o r) = Len(r) + 1
  <2>1. IsInjective(<<e>> \o r) BY <1>6, <1>8 DEF r
  <2> QED BY ONLY <1>7, <2>1, HeadOnce
<1>10. Range(Rest(l)) = Range(r) \cup {e}
  <2>1. Range(<<e>> \o r) = Range(r) \cup {e} BY <1>7, PutBefore
  <2> QED BY <1>6, <2>1 DEF r
<1>11. t.active BY <1>4
<1>12. Apart(t, top)
  <2>1. Range(Pending(t)) \subseteq Range(Pending(l))
    <3>1. Range(Pending(t)) = Range(t.queue) \cup Range(t.front) \cup Range(r) \cup Range(t.back)
      BY <1>5, PendingIs DEF r
    <3>2. Range(Pending(l)) = Range(l.queue) \cup Range(l.front) \cup Range(Rest(l)) \cup Range(l.back)
      BY PendingIs
    <3> QED BY ONLY <1>4, <1>10, <3>1, <3>2
  <2>2. /\ IsInjective(l.queue) /\ IsInjective(l.front) /\ IsInjective(l.back)
        /\ Range(l.front) \cap Range(Rest(l)) = {} /\ Range(l.front) \cap Range(l.back) = {}
        /\ Range(l.back) \cap Range(Rest(l)) = {}
        /\ \A a, b \in Range(Pending(l)) : a.handle = b.handle => a = b
        /\ \A a \in Range(Pending(l)) : a.handle <= top
    BY DEF Apart
  <2>3. /\ IsInjective(t.queue) /\ IsInjective(t.front) /\ IsInjective(t.back)
        /\ Range(t.front) \cap Range(r) = {} /\ Range(t.front) \cap Range(t.back) = {}
        /\ Range(t.back) \cap Range(r) = {}
        /\ \A a, b \in Range(Pending(t)) : a.handle = b.handle => a = b
        /\ \A a \in Range(Pending(t)) : a.handle <= top
    BY ONLY <1>4, <1>10, <2>1, <2>2
  <2> QED BY ONLY <1>9, <2>3 DEF Apart, r
<1>13. Counted(t)
  <2>1. l.count = Len(Pending(l)) /\ l.left = Len(Rest(l)) BY DEF Counted
  <2>2. Len(Rest(l)) = Len(r) + 1 BY <1>6, <1>9 DEF r
  <2>3. Len(Pending(l)) = Len(Pending(t)) + 1 /\ Len(Pending(t)) \in Nat
    <3> DEFINE f == Reverse(l.front)
               b == l.back
               a == Rest(l)
    <3>1. f \in Seq(Calls) /\ b \in Seq(Calls) /\ a \in Seq(Calls) BY <1>1, PendingIs, RestIs
    <3>2. Pending(l) = f \o (a \o b) BY PendingIs
    <3>3. Pending(t) = f \o (r \o b)
      <4>1. Pending(t) = Reverse(t.front) \o (Rest(t) \o t.back) BY <1>5, <1>11, PendingIs
      <4> QED BY <1>4, <4>1 DEF r
    <3>4. Len(a) = Len(r) + 1 BY <2>2
    <3> HIDE DEF f, b, a
    <3>5. a \o b \in Seq(Calls) /\ Len(a \o b) = Len(a) + Len(b) BY <3>1, ConcatProperties
    <3>6. r \o b \in Seq(Calls) /\ Len(r \o b) = Len(r) + Len(b) BY <1>7, <3>1, ConcatProperties
    <3>7. Len(f) \in Nat /\ Len(b) \in Nat BY <3>1, LenProperties
    <3> DEFINE ab == a \o b
               rb == r \o b
    <3>8. Len(f \o ab) = Len(f) + Len(ab)
      <4>1. ab \in Seq(Calls) BY <3>5
      <4> HIDE DEF ab
      <4> QED BY <3>1, <4>1, ConcatProperties
    <3>9. Len(f \o rb) = Len(f) + Len(rb)
      <4>1. rb \in Seq(Calls) BY <3>6
      <4> HIDE DEF rb
      <4> QED BY <3>1, <4>1, ConcatProperties
    <3> QED BY ONLY <1>7, <3>2, <3>3, <3>4, <3>5, <3>6, <3>7, <3>8, <3>9
  <2>4. t.count = Len(Pending(t)) /\ t.left = Len(r) BY ONLY <1>4, <1>7, <2>1, <2>2, <2>3
  <2> QED BY <2>4 DEF Counted, r
<1> QED BY <1>4, <1>5, <1>6, <1>11, <1>12, <1>13 DEF e, s

Cleared(active) == [NoLists EXCEPT !.active = active]

\* A line that was cleared.
LEMMA ClearedIs ==
  ASSUME NEW active \in BOOLEAN, NEW top, NEW t,
         t = Cleared(active) \/ (t = NoLists /\ ~active)
  PROVE  /\ InPlace(t) /\ Counted(t) /\ Apart(t, top) /\ t.active = active
         /\ Pending(t) = <<>> /\ Rest(t) = <<>>
<1>1. <<>> \in Seq(Calls) /\ <<>> \in Seq(Slots) /\ Len(<<>>) = 0 BY EmptySeq
<1>2. /\ t \in ListsOf /\ t.active = active /\ t.queue = <<>> /\ t.front = <<>>
      /\ t.back = <<>> /\ t.snapshot = <<>> /\ t.cursor = 0 /\ t.left = 0 /\ t.count = 0
  <2> DEFINE none == <<>>
  <2>1. /\ NoLists = [queue |-> none, snapshot |-> none, front |-> none, back |-> none,
                      cursor |-> 0, left |-> 0, active |-> FALSE, count |-> 0]
        /\ none \in Seq(Calls) /\ none \in Seq(Slots)
    BY <1>1 DEF NoLists
  <2>2. t = [NoLists EXCEPT !.active = active] \/ (t = NoLists /\ ~active) BY DEF Cleared
  <2> HIDE DEF none
  <2>3. /\ t \in ListsOf /\ t.active = active /\ t.queue = none /\ t.front = none
        /\ t.back = none /\ t.snapshot = none /\ t.cursor = 0 /\ t.left = 0 /\ t.count = 0
    <3>1. t = [queue |-> none, snapshot |-> none, front |-> none, back |-> none,
               cursor |-> 0, left |-> 0, active |-> active, count |-> 0]
      <4>1. CASE t = [NoLists EXCEPT !.active = active] BY ONLY <2>1, <4>1
      <4>2. CASE t = NoLists /\ ~active
        <5>1. active = FALSE BY <4>2
        <5> QED BY ONLY <2>1, <4>2, <5>1
      <4> QED BY <2>2, <4>1, <4>2
    <3> QED BY ONLY <2>1, <3>1, active \in BOOLEAN DEF ListsOf
  <2> QED BY <2>3 DEF none
<1>3. InPlace(t) BY <1>1, <1>2 DEF InPlace
<1>4. Rest(t) = <<>>
  <2>1. SubSeq(<<>>, 0 + 1, 0) = <<>> BY SubSeqEmpty
  <2>2. Rest(t) = Keeping(SubSeq(<<>>, 0 + 1, 0), Calls) BY <1>1, <1>2 DEF Rest
  <2> QED BY <2>1, <2>2, KeepNone
<1>5. Pending(t) = <<>>
  <2>1. CASE active
    <3>1. Pending(t) = Reverse(<<>>) \o (<<>> \o <<>>) BY <1>2, <1>3, <1>4, <2>1, PendingIs
    <3>2. <<>> \o <<>> = <<>> BY <1>1, ConcatEmptySeq
    <3> QED BY <3>1, <3>2, ReverseNone
  <2>2. CASE ~active BY <1>2, <1>3, <2>2, PendingIs
  <2> QED BY <2>1, <2>2
<1>6. Range(<<>>) = {} /\ IsInjective(<<>>) BY DEF Range, IsInjective
<1>7. Apart(t, top) BY <1>2, <1>4, <1>5, <1>6 DEF Apart
<1>8. Counted(t) BY <1>1, <1>2, <1>4, <1>5 DEF Counted
<1> QED BY <1>2, <1>3, <1>4, <1>5, <1>7, <1>8

Begun(l) == [l EXCEPT !.snapshot = l.queue, !.queue = <<>>, !.front = <<>>, !.back = <<>>,
                      !.cursor = 0, !.left = Len(l.queue), !.active = TRUE]

\* A dispatch begins with the whole line.
LEMMA BegunIs ==
  ASSUME NEW l, NEW top, InPlace(l), Counted(l), Apart(l, top), ~l.active, NEW t,
         t = Begun(l)
  PROVE  /\ InPlace(t) /\ Counted(t) /\ Apart(t, top) /\ t.active
         /\ Pending(t) = Pending(l) /\ Rest(t) = Pending(l)
<1> DEFINE q == l.queue
<1>1. /\ l \in ListsOf /\ q \in Seq(Calls) /\ Len(q) \in Nat /\ Pending(l) = q
      /\ l.count = Len(q)
  BY PendingIs, LenProperties DEF InPlace, ListsOf, Counted
<1>2. q \in Seq(Slots) /\ Range(q) \subseteq Calls
  <2>1. Calls \subseteq Slots BY DEF Slots
  <2>2. q \in Seq(Slots) BY <1>1, <2>1, SeqMonotonic
  <2> HIDE DEF q
  <2>3. Range(q) \subseteq Calls BY <1>1, RangeOfSeq
  <2> QED BY <2>2, <2>3
<1>3. <<>> \in Seq(Calls) /\ Len(<<>>) = 0 BY EmptySeq
<1>4. /\ t \in ListsOf /\ t.active = TRUE /\ t.queue = <<>> /\ t.front = <<>> /\ t.back = <<>>
      /\ t.snapshot = q /\ t.cursor = 0 /\ t.left = Len(q) /\ t.count = l.count
  <2>1. t = [l EXCEPT !.snapshot = q, !.queue = <<>>, !.front = <<>>, !.back = <<>>,
                      !.cursor = 0, !.left = Len(q), !.active = TRUE]
    BY DEF Begun
  <2> HIDE DEF q
  <2> QED BY ONLY <1>1, <1>2, <1>3, <2>1 DEF ListsOf
<1>5. InPlace(t) BY <1>1, <1>4 DEF InPlace
<1> HIDE DEF q
<1>6. Rest(t) = q
  <2>1. SubSeq(q, 1, Len(q)) = q BY <1>1, SubSeqFull
  <2>2. Rest(t) = Keeping(SubSeq(q, 0 + 1, Len(q)), Calls) BY <1>4 DEF Rest
  <2>3. Keeping(q, Calls) = q BY <1>1, <1>2, KeepAll
  <2>4. 0 + 1 = 1 OBVIOUS
  <2> QED BY <2>1, <2>2, <2>3, <2>4
<1>7. Pending(t) = q
  <2>1. Pending(t) = Reverse(<<>>) \o (q \o <<>>) BY <1>4, <1>5, <1>6, PendingIs
  <2>2. q \o <<>> = q /\ <<>> \o q = q BY <1>1, ConcatEmptySeq
  <2> QED BY <2>1, <2>2, ReverseNone
<1>8. Range(<<>>) = {} /\ IsInjective(<<>>) BY DEF Range, IsInjective
<1>9. Apart(t, top)
  <2>1. /\ IsInjective(q)
        /\ \A a, b \in Range(q) : a.handle = b.handle => a = b
        /\ \A a \in Range(q) : a.handle <= top
    BY <1>1 DEF Apart, q
  <2> QED BY <1>4, <1>6, <1>7, <1>8, <2>1 DEF Apart
<1>10. Counted(t) BY <1>1, <1>4, <1>6, <1>7 DEF Counted
<1> QED BY <1>1, <1>4, <1>5, <1>6, <1>7, <1>9, <1>10

Concluded(l) == [NoLists EXCEPT !.queue = Merged(l), !.count = Len(Merged(l))]

\* A dispatch ends with the line in one list again.
LEMMA EndedIs ==
  ASSUME NEW l, NEW top, InPlace(l), Counted(l), Apart(l, top), l.active, NEW t,
         t = Concluded(l)
  PROVE  /\ InPlace(t) /\ Counted(t) /\ Apart(t, top) /\ ~t.active
         /\ Pending(t) = Pending(l) /\ Rest(t) = <<>>
<1> DEFINE q == Pending(l)
<1>1. q \in Seq(Calls) /\ Len(q) \in Nat /\ Merged(l) = q
  BY PendingIs, LenProperties DEF Merged, Pending
<1>2. <<>> \in Seq(Calls) /\ <<>> \in Seq(Slots) /\ Len(<<>>) = 0 BY EmptySeq
<1>3. /\ t \in ListsOf /\ t.active = FALSE /\ t.queue = q /\ t.front = <<>> /\ t.back = <<>>
      /\ t.snapshot = <<>> /\ t.cursor = 0 /\ t.left = 0 /\ t.count = Len(q)
  <2>1. t = [NoLists EXCEPT !.queue = q, !.count = Len(q)] BY <1>1 DEF Concluded
  <2> DEFINE none == <<>>
             n == Len(q)
  <2>2. /\ NoLists = [queue |-> none, snapshot |-> none, front |-> none, back |-> none,
                      cursor |-> 0, left |-> 0, active |-> FALSE, count |-> 0]
        /\ none \in Seq(Calls) /\ none \in Seq(Slots)
        /\ q \in Seq(Calls) /\ n \in Nat
    BY <1>1, <1>2 DEF NoLists
  <2>4. t = [NoLists EXCEPT !.queue = q, !.count = n] BY <2>1
  <2> HIDE DEF q, none, n
  <2>3. /\ t \in ListsOf /\ t.active = FALSE /\ t.queue = q /\ t.front = none
        /\ t.back = none /\ t.snapshot = none /\ t.cursor = 0 /\ t.left = 0
        /\ t.count = n
    <3>1. t = [queue |-> q, snapshot |-> none, front |-> none, back |-> none,
               cursor |-> 0, left |-> 0, active |-> FALSE, count |-> n]
      BY ONLY <2>2, <2>4
    <3> QED BY ONLY <2>2, <3>1 DEF ListsOf
  <2> QED BY <2>3 DEF none, n
<1>4. InPlace(t) BY <1>2, <1>3 DEF InPlace
<1>5. Rest(t) = <<>> /\ Pending(t) = q BY <1>3, <1>4, RestIs, PendingIs
<1>6. IsInjective(q)
  <2> DEFINE f == Reverse(l.front)
             r == Rest(l)
             b == l.back
  <2>1. l.front \in Seq(Calls) /\ b \in Seq(Calls) /\ r \in Seq(Calls)
    BY RestIs DEF InPlace, ListsOf
  <2>2. /\ IsInjective(l.front) /\ IsInjective(b) /\ IsInjective(r)
        /\ Range(l.front) \cap Range(r) = {} /\ Range(l.front) \cap Range(b) = {}
        /\ Range(b) \cap Range(r) = {}
    BY DEF Apart
  <2>3. f \in Seq(Calls) /\ Range(f) = Range(l.front) /\ IsInjective(f) /\ q = f \o (r \o b)
    BY <2>1, <2>2, ReverseProperties, ReversedOnce, PendingIs
  <2> HIDE DEF f, r, b, q
  <2> DEFINE rb == r \o b
  <2>4. rb \in Seq(Calls) /\ Range(rb) = Range(r) \cup Range(b) /\ IsInjective(rb)
    BY <2>1, <2>2, JoinedOnce, ConcatProperties
  <2> HIDE DEF rb
  <2>5. Range(f) \cap Range(rb) = {} BY <2>2, <2>3, <2>4
  <2>6. IsInjective(f \o rb) BY <2>3, <2>4, <2>5, JoinedOnce
  <2> QED BY <2>3, <2>6 DEF rb
<1>7. Range(<<>>) = {} /\ IsInjective(<<>>) BY DEF Range, IsInjective
<1>8. Apart(t, top)
  <2>1. /\ \A a, b \in Range(q) : a.handle = b.handle => a = b
        /\ \A a \in Range(q) : a.handle <= top
    BY DEF Apart
  <2> HIDE DEF q
  <2> QED BY <1>3, <1>5, <1>6, <1>7, <2>1 DEF Apart
<1>9. Counted(t) BY <1>2, <1>3, <1>5 DEF Counted
<1> QED BY <1>3, <1>4, <1>5, <1>8, <1>9

-----------------------------------------------------------------------------
(***************************************************************************)
(* The refinement, action by action.                                       *)
(***************************************************************************)
\* The promise speaks of the same lines and calls.
LEMMA SameWords ==
  ASSUME NEW line, NEW kept
  PROVE  /\ Promise!Keeping(line, kept) = Keeping(line, kept)
         /\ Promise!HandlesOf(line) = HandlesOf(line)
         /\ Promise!Calls = Calls
         /\ Promise!Cardinality(kept) = Cardinality(kept)
<1>1. Promise!Keeping(line, kept) = Keeping(line, kept) BY DEF Promise!Keeping, Keeping
<1>2. Promise!HandlesOf(line) = HandlesOf(line) BY DEF Promise!HandlesOf, HandlesOf
<1>3. Promise!Calls = Calls BY DEF Promise!Calls, Calls
<1>4. Promise!Cardinality(kept) = Cardinality(kept) BY DEF Promise!Cardinality, Cardinality
<1> QED BY <1>1, <1>2, <1>3, <1>4

\* Whatever the lists become, the counts are right again.
LEMMA Became ==
  ASSUME DispatchInv'
  PROVE  Promise!Becomes(Pending(lists'), HandlesOf(Rest(lists')))
<1>1. InPlace(lists') /\ Counted(lists') /\ Apart(lists', handles') BY DEF DispatchInv
<1>2. Cardinality(HandlesOf(Rest(lists'))) = Len(Rest(lists')) BY <1>1, RestCounted
<1>3. lists'.count = Len(Pending(lists')) /\ lists'.left = Len(Rest(lists')) BY <1>1 DEF Counted
<1> QED BY <1>2, <1>3, SameWords DEF Promise!Becomes

LEMMA DispatchStarts ==
  ASSUME DispatchInit
  PROVE  DispatchInv /\ Promise!Init
<1>1. lists = NoLists /\ dispatch = Idle /\ handles = 0 BY DEF DispatchInit
<1>2. /\ InPlace(lists) /\ Counted(lists) /\ Apart(lists, handles) /\ ~lists.active
      /\ Pending(lists) = <<>> /\ Rest(lists) = <<>>
  <2>1. FALSE \in BOOLEAN /\ ~FALSE OBVIOUS
  <2> QED BY ONLY <1>1, <2>1, ClearedIs
<1>3. /\ dispatch \in [at : {"idle", "loop", "call"}, handle : Nat, made : Int]
      /\ dispatch.at = "idle" /\ dispatch.handle = 0
  BY <1>1 DEF Idle
<1>4. DispatchInv BY <1>1, <1>2, <1>3 DEF DispatchInv
<1>5. HandlesOf(<<>>) = {} BY DEF HandlesOf
<1>6. lists.count = 0 /\ lists.left = 0 BY <1>2 DEF Counted
<1>7. Promise!Init BY <1>1, <1>2, <1>3, <1>5, <1>6 DEF Promise!Init
<1> QED BY <1>4, <1>7

LEMMA PostStep ==
  ASSUME DispatchInv, NEW owner \in {0} \cup Owners, NEW front \in BOOLEAN,
         PostCall(owner, front)
  PROVE  DispatchInv' /\ Promise!Post
<1> DEFINE call == [handle |-> handles', owner |-> owner]
<1>1. InPlace(lists) /\ Counted(lists) /\ Apart(lists, handles) /\ handles \in Nat
  BY DEF DispatchInv
<1>2. handles' = handles + 1 /\ call \in Calls /\ call.handle = handles + 1
  BY <1>1 DEF PostCall, Calls
<1>3. lists' = Posted(lists, call, front) BY DEF PostCall, Posted
<1> HIDE DEF call
<1>4. /\ InPlace(lists') /\ Counted(lists') /\ Apart(lists', handles + 1)
      /\ lists'.active = lists.active /\ Rest(lists') = Rest(lists)
      /\ Pending(lists') = Append(Pending(lists), call)
           \/ Pending(lists') = <<call>> \o Pending(lists)
  BY ONLY <1>1, <1>2, <1>3, front \in BOOLEAN, PostIs
<1>5. dispatch' = dispatch BY DEF PostCall
<1>6. DispatchInv' BY <1>1, <1>2, <1>4, <1>5 DEF DispatchInv
<1>7. Promise!Becomes(Pending(lists'), HandlesOf(Rest(lists))) BY <1>4, <1>6, Became
<1>8. Len(Pending(lists)) < Capacity BY <1>1 DEF PostCall, Counted
<1>9. \/ Promise!Becomes(Append(Pending(lists), call), HandlesOf(Rest(lists)))
      \/ Promise!Becomes(<<call>> \o Pending(lists), HandlesOf(Rest(lists)))
  BY <1>4, <1>7
<1>10. Promise!Post BY <1>2, <1>4, <1>5, <1>8, <1>9 DEF Promise!Post, call
<1> QED BY <1>6, <1>10

\* A cancellation, of a call or of an owner.
LEMMA ThinStep ==
  ASSUME DispatchInv, NEW kept, kept \subseteq Calls, lists' = Thin(lists, kept),
         dispatch' = dispatch, handles' = handles
  PROVE  DispatchInv' /\ Promise!Thinned(kept)
<1>1. InPlace(lists) /\ Counted(lists) /\ Apart(lists, handles) BY DEF DispatchInv
<1>2. /\ InPlace(lists') /\ Counted(lists') /\ lists'.active = lists.active
      /\ Pending(lists') = Keeping(Pending(lists), kept)
  BY <1>1, ThinIs
<1>3. /\ Apart(lists', handles)
      /\ HandlesOf(Rest(lists')) = HandlesOf(Rest(lists)) \cap HandlesOf(Keeping(Pending(lists), kept))
  BY <1>1, ThinApart
<1>4. DispatchInv' BY <1>2, <1>3 DEF DispatchInv
<1>5. Promise!Becomes(Keeping(Pending(lists), kept),
                      HandlesOf(Rest(lists)) \cap HandlesOf(Keeping(Pending(lists), kept)))
  BY <1>2, <1>3, <1>4, Became
<1>6. Promise!Thinned(kept) BY <1>2, <1>5, SameWords DEF Promise!Thinned
<1> QED BY <1>4, <1>6

LEMMA CancelStep ==
  ASSUME DispatchInv, NEW handle \in 1 .. handles, CancelCall(handle)
  PROVE  DispatchInv' /\ (Promise!Cancel \/ UNCHANGED Promise!promiseVars)
<1> DEFINE kept == {call \in Calls : call.handle # handle}
<1>1. /\ kept \subseteq Calls /\ lists' = Thin(lists, kept)
      /\ dispatch' = dispatch /\ handles' = handles
  BY DEF CancelCall
<1>2. DispatchInv' /\ Promise!Thinned(kept)
  <2> HIDE DEF kept
  <2> QED BY <1>1, ThinStep
<1>3. CASE handle \in HandlesOf(Pending(lists))
  <2>1. Promise!Cancel BY <1>2, <1>3, SameWords DEF Promise!Cancel
  <2> QED BY <1>2, <2>1
<1>4. CASE handle \notin HandlesOf(Pending(lists))
  <2> DEFINE p == Pending(lists)
             r == Rest(lists)
  <2>1. /\ InPlace(lists) /\ Counted(lists) /\ Apart(lists, handles)
        /\ p \in Seq(Calls) /\ Range(r) \subseteq Range(p)
    BY PendingIs DEF DispatchInv
  <2>2. Range(p) \subseteq kept
    <3>1. HandlesOf(p) = {a.handle : a \in Range(p)} BY HandlesAre
    <3>2. Range(p) \subseteq Calls
      <4> HIDE DEF p
      <4> QED BY <2>1, RangeOfSeq
    <3> QED BY <1>4, <3>1, <3>2
  <2>3. HandlesOf(r) \subseteq HandlesOf(p)
    <3>1. HandlesOf(p) = {a.handle : a \in Range(p)} /\ HandlesOf(r) = {a.handle : a \in Range(r)}
      BY HandlesAre
    <3> HIDE DEF p, r
    <3> QED BY <2>1, <3>1
  <2>4. Keeping(p, kept) = p
    <3> HIDE DEF p, kept
    <3> QED BY <2>1, <2>2, KeepAll
  <2>5. /\ Pending(lists') = p /\ HandlesOf(Rest(lists')) = HandlesOf(r) \cap HandlesOf(p)
        /\ Counted(lists') /\ lists'.active = lists.active
        /\ Cardinality(HandlesOf(r)) = Len(r) /\ Cardinality(HandlesOf(Rest(lists'))) = Len(Rest(lists'))
    <3> HIDE DEF kept
    <3>1. InPlace(lists') /\ Apart(lists', handles) /\ Counted(lists')
      BY <1>1, <2>1, ThinIs, ThinApart
    <3>2. Pending(lists') = p /\ lists'.active = lists.active BY <1>1, <2>1, <2>4, ThinIs
    <3>3. HandlesOf(Rest(lists')) = HandlesOf(r) \cap HandlesOf(Keeping(p, kept))
      BY <1>1, <2>1, ThinApart
    <3> QED BY <2>1, <2>4, <3>1, <3>2, <3>3, RestCounted
  <2>6. HandlesOf(Rest(lists')) = HandlesOf(Rest(lists)) /\ Pending(lists') = Pending(lists)
    BY <2>3, <2>5
  <2>7. lists'.count = lists.count /\ lists'.left = lists.left BY <2>1, <2>5, <2>6 DEF Counted
  <2>8. UNCHANGED Promise!promiseVars BY <1>1, <2>5, <2>6, <2>7 DEF Promise!promiseVars
  <2> QED BY <1>2, <2>8
<1> QED BY <1>3, <1>4

LEMMA CancelOwnerStep ==
  ASSUME DispatchInv, NEW owner \in Owners, CancelCallsOf(owner)
  PROVE  DispatchInv' /\ Promise!CancelOwner
<1> DEFINE kept == {call \in Calls : call.owner # owner}
<1>1. /\ kept \subseteq Calls /\ lists' = Thin(lists, kept)
      /\ dispatch' = dispatch /\ handles' = handles
  BY DEF CancelCallsOf
<1>2. DispatchInv' /\ Promise!Thinned(kept)
  <2> HIDE DEF kept
  <2> QED BY <1>1, ThinStep
<1> QED BY <1>2, SameWords DEF Promise!CancelOwner

LEMMA ClearStep ==
  ASSUME DispatchInv, ClearCalls
  PROVE  DispatchInv' /\ Promise!Clear
<1>1. lists' = Cleared(lists.active) /\ dispatch' = dispatch /\ handles' = handles
  BY DEF ClearCalls, Cleared
<1>2. lists.active \in BOOLEAN /\ Pending(lists) \in Seq(Calls)
  BY PendingIs DEF DispatchInv, InPlace, ListsOf
<1>3. /\ InPlace(lists') /\ Counted(lists') /\ Apart(lists', handles)
      /\ lists'.active = lists.active /\ Pending(lists') = <<>> /\ Rest(lists') = <<>>
  BY ONLY <1>1, <1>2, ClearedIs
<1>4. DispatchInv' BY <1>1, <1>3 DEF DispatchInv
<1>5. Keeping(Pending(lists), {}) = <<>> BY <1>2, KeepNobody
<1>6. HandlesOf(<<>>) = {} BY DEF HandlesOf
<1>7. Promise!Becomes(<<>>, {}) BY <1>3, <1>4, <1>6, Became
<1>8. Promise!Thinned({}) BY <1>1, <1>3, <1>5, <1>6, <1>7, SameWords DEF Promise!Thinned
<1> QED BY <1>4, <1>8 DEF Promise!Clear

LEMMA BeginStep ==
  ASSUME DispatchInv, DispatchBegins
  PROVE  DispatchInv' /\ Promise!Begin
<1>1. /\ InPlace(lists) /\ Counted(lists) /\ Apart(lists, handles) /\ ~lists.active
      /\ dispatch.handle = 0 /\ handles \in Nat
  BY DEF DispatchInv, DispatchBegins
<1>2. lists' = Begun(lists) /\ dispatch' = [Idle EXCEPT !.at = "loop"] /\ handles' = handles
  BY DEF DispatchBegins, Begun
<1>3. /\ InPlace(lists') /\ Counted(lists') /\ Apart(lists', handles) /\ lists'.active
      /\ Pending(lists') = Pending(lists) /\ Rest(lists') = Pending(lists)
  BY ONLY <1>1, <1>2, BegunIs
<1>4. dispatch' = [at |-> "loop", handle |-> 0, made |-> 0] BY <1>2 DEF Idle
<1>5. DispatchInv'
  <2>1. /\ dispatch' \in [at : {"idle", "loop", "call"}, handle : Nat, made : Int]
        /\ dispatch'.at = "loop" /\ dispatch'.handle = 0
    BY <1>4
  <2> QED BY <1>1, <1>2, <1>3, <2>1 DEF DispatchInv
<1>6. Promise!Becomes(Pending(lists), HandlesOf(Pending(lists))) BY <1>3, <1>5, Became
<1>7. /\ lists.active = FALSE /\ lists'.active = TRUE BY <1>1, <1>3 DEF InPlace, ListsOf
<1>8. Promise!Begin BY <1>1, <1>2, <1>4, <1>6, <1>7, SameWords DEF Promise!Begin
<1> QED BY <1>5, <1>8

LEMMA TakeStep ==
  ASSUME DispatchInv, CallIsTaken
  PROVE  DispatchInv' /\ Promise!Run
<1>1. /\ InPlace(lists) /\ Counted(lists) /\ Apart(lists, handles) /\ lists.active
      /\ dispatch.handle = 0 /\ handles \in Nat
      /\ dispatch \in [at : {"idle", "loop", "call"}, handle : Nat, made : Int]
  BY DEF DispatchInv, CallIsTaken
<1>2. PICK n \in lists.cursor + 1 .. Len(lists.snapshot) :
        /\ lists.snapshot[n] \in Calls
        /\ \A m \in lists.cursor + 1 .. n - 1 : lists.snapshot[m] \notin Calls
        /\ dispatch' = [dispatch EXCEPT !.at = "call", !.handle = lists.snapshot[n].handle]
        /\ lists' = Taken(lists, n)
  BY DEF CallIsTaken, Taken
<1> DEFINE e == lists.snapshot[n]
           f == Reverse(lists.front)
           r == Rest(lists')
           q == r \o lists.back
<1>3. handles' = handles /\ e \in Calls /\ e.handle \in Nat \ {0} BY <1>2 DEF CallIsTaken, Calls
<1>4. /\ InPlace(lists') /\ Counted(lists') /\ Apart(lists', handles) /\ lists'.active
      /\ lists'.front = lists.front /\ lists'.back = lists.back
      /\ Rest(lists) = <<e>> \o r
  BY ONLY <1>1, <1>2, TakenIs
<1>5. /\ dispatch' \in [at : {"idle", "loop", "call"}, handle : Nat, made : Int]
      /\ dispatch'.at = "call" /\ dispatch'.handle = e.handle
  BY <1>1, <1>2, <1>3
<1>6. DispatchInv' BY <1>1, <1>3, <1>4, <1>5 DEF DispatchInv
<1>7. /\ f \in Seq(Calls) /\ lists.back \in Seq(Calls) /\ r \in Seq(Calls)
      /\ Pending(lists) = f \o (Rest(lists) \o lists.back)
      /\ Pending(lists') = f \o q
  <2>1. f \in Seq(Calls) /\ Pending(lists) = f \o (Rest(lists) \o lists.back) BY <1>1, PendingIs
  <2>2. Pending(lists') = Reverse(lists'.front) \o (Rest(lists') \o lists'.back)
    BY <1>4, PendingIs
  <2>3. r \in Seq(Calls) BY <1>4, RestIs
  <2> QED BY <1>1, <1>4, <2>1, <2>2, <2>3 DEF InPlace, ListsOf
<1>8. q \in Seq(Calls) /\ Pending(lists) = f \o (<<e>> \o q)
  <2> DEFINE b == lists.back
  <2>1. b \in Seq(Calls) /\ Rest(lists) \o b = (<<e>> \o r) \o b BY <1>4, <1>7
  <2>3. e \in Calls /\ r \in Seq(Calls) /\ b \in Seq(Calls) BY <1>3, <1>7
  <2> HIDE DEF e, r, b
  <2>2. (<<e>> \o r) \o b = <<e>> \o (r \o b) /\ r \o b \in Seq(Calls) BY ONLY <2>3, JoinedNext
  <2> QED BY <1>7, <2>1, <2>2 DEF b
<1> DEFINE line == Pending(lists)
           i == Len(f) + 1
<1> HIDE DEF e, f, r, q, line, i
<1>9. /\ line \in Seq(Calls) /\ i \in 1 .. Len(line) /\ line[i] = e
      /\ \A m \in 1 .. i - 1 : m \in 1 .. Len(f) /\ line[m] = f[m]
      /\ SubSeq(line, 1, i - 1) = f /\ SubSeq(line, i + 1, Len(line)) = q
  <2>1. line = f \o (<<e>> \o q) /\ i = Len(f) + 1 BY <1>8 DEF line, i
  <2>2. e \in Calls /\ f \in Seq(Calls) /\ q \in Seq(Calls) BY <1>3, <1>7, <1>8
  <2> QED BY ONLY <2>1, <2>2, TakenFromMiddle
<1>10. Range(Rest(lists)) = Range(r) \cup {e} /\ e \notin Range(r)
  <2>1. Range(<<e>> \o r) = Range(r) \cup {e} BY <1>3, <1>7, PutBefore
  <2>2. IsInjective(<<e>> \o r) BY <1>1, <1>4 DEF Apart
  <2>3. e \notin Range(r) BY <1>3, <1>7, <2>2, HeadOnce
  <2> QED BY <1>4, <2>1, <2>3
<1>11. /\ \A a, b \in Range(line) : a.handle = b.handle => a = b
       /\ Range(Rest(lists)) \subseteq Range(line) /\ Range(f) = Range(lists.front)
       /\ Range(f) \subseteq Range(line)
       /\ Range(f) \cap Range(Rest(lists)) = {}
  <2>1. /\ \A a, b \in Range(line) : a.handle = b.handle => a = b
        /\ Range(lists.front) \cap Range(Rest(lists)) = {}
    BY <1>1 DEF Apart, line
  <2>2. Range(f) = Range(lists.front) BY <1>1, ReverseProperties DEF f, InPlace, ListsOf
  <2>3. Range(line) = Range(lists.queue) \cup Range(lists.front) \cup Range(Rest(lists))
                        \cup Range(lists.back)
    BY <1>1, PendingIs DEF line
  <2> QED BY ONLY <2>1, <2>2, <2>3
<1>12. /\ HandlesOf(Rest(lists)) = {a.handle : a \in Range(Rest(lists))}
       /\ HandlesOf(r) = {a.handle : a \in Range(r)}
  BY HandlesAre
<1>13. e.handle \in HandlesOf(Rest(lists)) BY <1>10, <1>12
<1>14. HandlesOf(r) = HandlesOf(Rest(lists)) \ {e.handle}
  <2>1. ASSUME NEW a \in Range(r) PROVE a.handle # e.handle BY <1>10, <1>11, <2>1
  <2> QED BY ONLY <1>10, <1>12, <2>1
<1>15. ASSUME NEW m \in 1 .. i - 1 PROVE line[m].handle \notin HandlesOf(Rest(lists))
  <2>1. f[m] \in Range(f) /\ line[m] = f[m]
    <3>1. DOMAIN f = 1 .. Len(f) BY <1>7, LenProperties
    <3> QED BY <1>9, <3>1 DEF Range
  <2>2. ASSUME NEW a \in Range(Rest(lists)) PROVE a.handle # f[m].handle BY <1>11, <2>1, <2>2
  <2> QED BY <1>12, <2>1, <2>2
<1>16. Promise!Becomes(SubSeq(line, 1, i - 1) \o SubSeq(line, i + 1, Len(line)),
                       HandlesOf(Rest(lists)) \ {e.handle})
  BY <1>6, <1>7, <1>9, <1>14, Became DEF r
<1>17. i \in DOMAIN line BY <1>9, LenProperties
<1>18. lists'.active = lists.active BY <1>1, <1>4 DEF InPlace, ListsOf
<1>19. Promise!Run
  <2>1. /\ line[i].handle \in HandlesOf(Rest(lists))
        /\ \A m \in 1 .. i - 1 : line[m].handle \notin HandlesOf(Rest(lists))
        /\ dispatch'.handle = line[i].handle
        /\ Promise!Becomes(SubSeq(line, 1, i - 1) \o SubSeq(line, i + 1, Len(line)),
                           HandlesOf(Rest(lists)) \ {line[i].handle})
    BY <1>5, <1>9, <1>13, <1>15, <1>16
  <2> QED BY <1>1, <1>3, <1>17, <1>18, <2>1 DEF Promise!Run, line
<1> QED BY <1>6, <1>19

LEMMA ReturnStep ==
  ASSUME DispatchInv, CallReturns
  PROVE  DispatchInv' /\ Promise!Return
<1>1. /\ dispatch.at = "call" /\ dispatch.handle # 0 /\ dispatch.made \in Int
      /\ dispatch' = [at |-> "loop", handle |-> 0, made |-> dispatch.made + 1]
      /\ lists' = lists /\ handles' = handles
  BY DEF DispatchInv, CallReturns
<1>2. DispatchInv' BY <1>1 DEF DispatchInv
<1>3. Promise!Return BY <1>1 DEF Promise!Return
<1> QED BY <1>2, <1>3

LEMMA EndStep ==
  ASSUME DispatchInv, DispatchEnds
  PROVE  DispatchInv' /\ Promise!End
<1>1. /\ InPlace(lists) /\ Counted(lists) /\ Apart(lists, handles) /\ lists.active
      /\ dispatch.handle = 0 /\ handles \in Nat
  BY DEF DispatchInv, DispatchEnds
<1>2. lists' = Concluded(lists) /\ dispatch' = Idle /\ handles' = handles
  BY DEF DispatchEnds, Concluded
<1>3. /\ InPlace(lists') /\ Counted(lists') /\ Apart(lists', handles) /\ ~lists'.active
      /\ Pending(lists') = Pending(lists) /\ Rest(lists') = <<>>
  BY ONLY <1>1, <1>2, EndedIs
<1>4. dispatch' = [at |-> "idle", handle |-> 0, made |-> 0] BY <1>2 DEF Idle
<1>5. DispatchInv' BY <1>1, <1>2, <1>3, <1>4 DEF DispatchInv
<1>6. HandlesOf(<<>>) = {} BY DEF HandlesOf
<1>7. Promise!Becomes(Pending(lists), {}) BY <1>3, <1>5, <1>6, Became
<1>8. lists.active = TRUE /\ lists'.active = FALSE BY <1>1, <1>3 DEF InPlace, ListsOf
<1>9. Promise!End BY <1>1, <1>2, <1>4, <1>7, <1>8 DEF Promise!End
<1> QED BY <1>5, <1>9

LEMMA DispatchSteps ==
  ASSUME DispatchInv, [DispatchNext]_dispatchVars
  PROVE  DispatchInv' /\ [Promise!Next]_Promise!promiseVars
<1>1. ASSUME NEW owner \in {0} \cup Owners, NEW front \in BOOLEAN, PostCall(owner, front)
      PROVE  DispatchInv' /\ Promise!Next
  BY <1>1, PostStep DEF Promise!Next
<1>2. ASSUME NEW handle \in 1 .. handles, CancelCall(handle)
      PROVE  DispatchInv' /\ [Promise!Next]_Promise!promiseVars
  BY <1>2, CancelStep DEF Promise!Next
<1>3. ASSUME NEW owner \in Owners, CancelCallsOf(owner)
      PROVE  DispatchInv' /\ Promise!Next
  BY <1>3, CancelOwnerStep DEF Promise!Next
<1>4. CASE ClearCalls BY <1>4, ClearStep DEF Promise!Next
<1>5. CASE DispatchBegins BY <1>5, BeginStep DEF Promise!Next
<1>6. CASE CallIsTaken BY <1>6, TakeStep DEF Promise!Next
<1>7. CASE CallReturns BY <1>7, ReturnStep DEF Promise!Next
<1>8. CASE DispatchEnds BY <1>8, EndStep DEF Promise!Next
<1>9. CASE UNCHANGED dispatchVars
  <2>1. lists' = lists /\ dispatch' = dispatch /\ handles' = handles BY <1>9 DEF dispatchVars
  <2>2. DispatchInv' BY <2>1 DEF DispatchInv
  <2>3. UNCHANGED Promise!promiseVars BY <2>1 DEF Promise!promiseVars
  <2> QED BY <2>2, <2>3
<1> QED BY <1>1, <1>2, <1>3, <1>4, <1>5, <1>6, <1>7, <1>8, <1>9 DEF DispatchNext

\* Nobody stands in two lists of the queue, the counts are right, and what is not
\* under dispatch is in one list.
THEOREM DispatchInvariant == DispatchSpec => []DispatchInv
<1>1. DispatchInit => DispatchInv BY DispatchStarts
<1>2. DispatchInv /\ [DispatchNext]_dispatchVars => DispatchInv' BY DispatchSteps
<1> QED BY <1>1, <1>2, PTL DEF DispatchSpec

\* GFMainThreadDispatchQueue keeps its promise.
THEOREM DispatchKeepsPromise == DispatchSpec => CallsAsPromised
<1>1. DispatchInit => Promise!Init BY DispatchStarts
<1>2. DispatchInv /\ [DispatchNext]_dispatchVars => [Promise!Next]_Promise!promiseVars
  BY DispatchSteps
<1> QED BY <1>1, <1>2, DispatchInvariant, PTL DEF DispatchSpec, CallsAsPromised, Promise!Spec
=============================================================================
