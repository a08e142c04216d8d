---------------------------- MODULE DispatchPromise ----------------------------
(***************************************************************************)
(* What GFMainThreadDispatchQueue promises: one line of pending calls that *)
(* any thread may lengthen, at either end, or thin out.  A dispatch runs,  *)
(* one after the other and in the order of the line, calls that were in it *)
(* when the dispatch began: what is posted meanwhile waits for the next    *)
(* one, and what is cancelled or cleared before its turn never runs.       *)
(***************************************************************************)
EXTENDS CallLines

CONSTANT Capacity

VARIABLES
  pending,   \* the line of calls
  due,       \* the handles of it that the dispatch under way may run
  executing, \* the handle that runs, or 0
  open,      \* a dispatch is under way
  last,      \* the last handle given out
  counts     \* what the queue believes: how many are pending, how many are due

promiseVars == <<pending, due, executing, open, last, counts>>

\* The line is what it is made, and the counts are right.
Becomes(line, ready) ==
  /\ pending' = line
  /\ due' = ready
  /\ counts' = [pending |-> Len(line), due |-> Cardinality(ready)]

Init ==
  /\ pending = <<>> /\ due = {} /\ executing = 0 /\ ~open /\ last = 0
  /\ counts = [pending |-> 0, due |-> 0]

Post ==
  /\ Len(pending) < Capacity
  /\ last' = last + 1
  /\ \E owner \in {0} \cup Owners :
       LET call == [handle |-> last', owner |-> owner]
       IN  Becomes(Append(pending, call), due) \/ Becomes(<<call>> \o pending, due)
  /\ UNCHANGED <<executing, open>>

Thinned(kept) ==
  LET line == Keeping(pending, kept)
  IN  Becomes(line, due \cap HandlesOf(line)) /\ UNCHANGED <<executing, open, last>>

Cancel ==
  \E handle \in HandlesOf(pending) : Thinned({call \in Calls : call.handle # handle})
CancelOwner == \E owner \in Owners : Thinned({call \in Calls : call.owner # owner})
Clear == Thinned({})

Begin ==
  /\ ~open /\ open' = TRUE
  /\ Becomes(pending, HandlesOf(pending))
  /\ UNCHANGED <<executing, last>>

Run ==
  /\ open /\ executing = 0
  /\ \E n \in DOMAIN pending :
       /\ pending[n].handle \in due
       /\ \A m \in 1 .. n - 1 : pending[m].handle \notin due
       /\ executing' = pending[n].handle
       /\ Becomes(SubSeq(pending, 1, n - 1) \o SubSeq(pending, n + 1, Len(pending)),
                  due \ {pending[n].handle})
  /\ UNCHANGED <<open, last>>

Return == executing # 0 /\ executing' = 0 /\ UNCHANGED <<pending, due, open, last, counts>>

End ==
  /\ open /\ executing = 0 /\ open' = FALSE
  /\ Becomes(pending, {})
  /\ UNCHANGED <<executing, last>>

Next == Post \/ Cancel \/ CancelOwner \/ Clear \/ Begin \/ Run \/ Return \/ End

Spec == Init /\ [][Next]_promiseVars
=============================================================================
