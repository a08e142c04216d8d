----------------------------- MODULE DispatchQueue -----------------------------
(***************************************************************************)
(* GFMainThreadDispatchQueue (addons/gf/standard/common/                   *)
(* gf_main_thread_dispatch_queue.gd).  Every thread may post, cancel and   *)
(* clear; the main thread dispatches.  While it does, the calls live in    *)
(* three lists: the snapshot, of which it takes one after the other, and   *)
(* what was posted meanwhile for the front and for the back.               *)
(*                                                                         *)
(* An action is one hold of _mutex, or what is done without it.  Callbacks *)
(* do what any thread may do, at any moment while they run.  Abstracted:   *)
(* callables and their results, labels, statistics, time (the budget of a  *)
(* dispatch may end after any call), and dispatch() of a busy queue or of  *)
(* another thread, which change nothing.                                   *)
(***************************************************************************)
EXTENDS CallLines, SequencesExt

CONSTANTS
  Capacity,        \* max_pending_callbacks
  DispatchLimit,   \* max_callbacks_per_tick
  MaxHandle        \* bound of the model: so many posts

VARIABLES
  lists,    \* _queue, the snapshot and its front and back, and the two counts
  dispatch, \* the locals of dispatch(): where it is, how many calls it made
  handles   \* _next_handle - 1

dispatchVars == <<lists, dispatch, handles>>

NoCall == [handle |-> 0, owner |-> 0]

NoLists == [queue |-> <<>>, snapshot |-> <<>>, front |-> <<>>, back |-> <<>>,
            cursor |-> 0, left |-> 0, active |-> FALSE, count |-> 0]
Idle == [at |-> "idle", handle |-> 0, made |-> 0]

DispatchInit == lists = NoLists /\ dispatch = Idle /\ handles = 0

DispatchTypeOK ==
  LET Slots == [handle : 0 .. MaxHandle, owner : {0} \cup Owners]
  IN  /\ lists \in [queue : Seq(Slots), snapshot : Seq(Slots), front : Seq(Slots),
                    back : Seq(Slots), cursor : 0 .. MaxHandle, left : 0 .. MaxHandle,
                    active : BOOLEAN, count : 0 .. MaxHandle]
      /\ dispatch \in [at : {"idle", "loop", "call"}, handle : 0 .. MaxHandle,
                       made : 0 .. DispatchLimit]
      /\ handles \in 0 .. MaxHandle

-----------------------------------------------------------------------------
\* What of the snapshot was not taken yet, and everything that is pending.
Rest(l) == Keeping(SubSeq(l.snapshot, l.cursor + 1, Len(l.snapshot)), Calls)
Pending(l) == IF l.active THEN Reverse(l.front) \o Rest(l) \o l.back ELSE l.queue

PostCall(owner, front) ==
  /\ handles < MaxHandle /\ lists.count < Capacity
  /\ handles' = handles + 1
  /\ LET call == [handle |-> handles', owner |-> owner]
         counted == [lists EXCEPT !.count = @ + 1]
     IN  lists' = CASE lists.active /\ front  -> [counted EXCEPT !.front = Append(@, call)]
                    [] lists.active /\ ~front -> [counted EXCEPT !.back = Append(@, call)]
                    [] ~lists.active /\ front -> [counted EXCEPT !.queue = <<call>> \o @]
                    [] OTHER                  -> [counted EXCEPT !.queue = Append(@, call)]
  /\ UNCHANGED dispatch

\* cancel() and cancel_owner(): outside a dispatch only _queue is looked at, during
\* one only the other lists, and in the snapshot a call leaves an empty slot.
Thin(l, kept) ==
  LET slots == [n \in DOMAIN l.snapshot |->
                  IF n > l.cursor /\ l.snapshot[n] \notin kept THEN NoCall ELSE l.snapshot[n]]
      thinned == IF l.active
                 THEN [l EXCEPT !.front = Keeping(@, kept), !.back = Keeping(@, kept),
                                !.snapshot = slots]
                 ELSE [l EXCEPT !.queue = Keeping(@, kept)]
  IN  [thinned EXCEPT !.count = @ - (Len(Pending(l)) - Len(Pending(thinned))),
                      !.left = IF l.active THEN @ - (Len(Rest(l)) - Len(Rest(thinned))) ELSE @]

CancelCall(handle) ==
  /\ lists' = Thin(lists, {call \in Calls : call.handle # handle})
  /\ UNCHANGED <<dispatch, handles>>

CancelCallsOf(owner) ==
  /\ lists' = Thin(lists, {call \in Calls : call.owner # owner})
  /\ UNCHANGED <<dispatch, handles>>

\* clear() leaves _dispatch_snapshot_active as it is.
ClearCalls ==
  /\ lists' = [NoLists EXCEPT !.active = lists.active]
  /\ UNCHANGED <<dispatch, handles>>

-----------------------------------------------------------------------------
\* _begin_dispatch_snapshot
DispatchBegins ==
  /\ dispatch.at = "idle"
  /\ dispatch' = [Idle EXCEPT !.at = "loop"]
  /\ lists' = [lists EXCEPT !.snapshot = lists.queue, !.queue = <<>>, !.front = <<>>,
                            !.back = <<>>, !.cursor = 0, !.left = Len(lists.queue),
                            !.active = TRUE]
  /\ UNCHANGED handles

\* The limit is looked at after the call.
FaultWithinLimit == dispatch.made <= DispatchLimit

WithinLimit == dispatch.made < DispatchLimit

\* _pop_next_dispatch_record, and the callback begins.
CallIsTaken ==
  /\ dispatch.at = "loop" /\ WithinLimit
  /\ \E n \in lists.cursor + 1 .. Len(lists.snapshot) :
       /\ lists.snapshot[n] \in Calls
       /\ \A m \in lists.cursor + 1 .. n - 1 : lists.snapshot[m] \notin Calls
       /\ dispatch' = [dispatch EXCEPT !.at = "call", !.handle = lists.snapshot[n].handle]
       /\ lists' = [lists EXCEPT !.cursor = n, !.left = @ - 1, !.count = @ - 1,
                                 !.snapshot = [m \in DOMAIN @ |->
                                                 IF m <= n THEN NoCall ELSE @[m]]]
  /\ UNCHANGED handles

CallReturns ==
  /\ dispatch.at = "call"
  /\ dispatch' = [at |-> "loop", handle |-> 0, made |-> dispatch.made + 1]
  /\ UNCHANGED <<lists, handles>>

\* The calls for the front are merged in the order in which they were posted.
FaultMerged(l) == l.front \o Rest(l) \o l.back

\* _finish_dispatch_snapshot
Merged(l) == Reverse(l.front) \o Rest(l) \o l.back

\* The limit, the budget or the snapshot is exhausted.
DispatchEnds ==
  /\ dispatch.at = "loop"
  /\ dispatch.made > 0 \/ Rest(lists) = <<>>
  /\ dispatch' = Idle
  /\ lists' = [NoLists EXCEPT !.queue = Merged(lists), !.count = Len(Merged(lists))]
  /\ UNCHANGED handles

DispatchNext ==
  \/ \E owner \in {0} \cup Owners, front \in BOOLEAN : PostCall(owner, front)
  \/ \E handle \in 1 .. handles : CancelCall(handle)
  \/ \E owner \in Owners : CancelCallsOf(owner)
  \/ ClearCalls \/ DispatchBegins \/ CallIsTaken \/ CallReturns \/ DispatchEnds

DispatchSpec == DispatchInit /\ [][DispatchNext]_dispatchVars

-----------------------------------------------------------------------------
\* However posts, cancels and clears of callbacks and of other threads meet a
\* dispatch that has spread the calls over its lists: a call that was posted runs
\* at most once, in its order, not before the next dispatch when it was posted
\* during one, and never after it was cancelled or cleared; none is lost; and the
\* counts that admit a post and report the rest are right.
Promise == INSTANCE DispatchPromise WITH
  pending <- Pending(lists),
  due <- HandlesOf(Rest(lists)),
  executing <- dispatch.handle,
  open <- lists.active,
  last <- handles,
  counts <- [pending |-> lists.count, due |-> lists.left]

CallsAsPromised == Promise!Spec
=============================================================================
