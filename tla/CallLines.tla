------------------------------- MODULE CallLines -------------------------------
(***************************************************************************)
(* Lines of posted calls, as GFMainThreadDispatchQueue keeps them and as   *)
(* DispatchPromise speaks of them.                                         *)
(***************************************************************************)
EXTENDS Integers, Sequences, FiniteSets

CONSTANT Owners   \* objects that methods are posted for

\* A call has a handle, from 1 on, and an owner, or 0.
Calls == [handle : Nat \ {0}, owner : {0} \cup Owners]

\* What is left of a line when only these are kept, in their order.
Keeping(line, kept) ==
  LET upTo[n \in 0 .. Len(line)] ==
        IF n = 0 THEN <<>>
        ELSE IF line[n] \in kept THEN Append(upTo[n - 1], line[n]) ELSE upTo[n - 1]
  IN  upTo[Len(line)]

HandlesOf(line) == {line[n].handle : n \in DOMAIN line}
=============================================================================
