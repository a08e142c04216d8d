---------------------------- MODULE MCSupervision ----------------------------
(***************************************************************************)
(* The two ways this code supervises a tree through _ProcessTreeOwner: a   *)
(* behaviour is about one of them, chosen at the start, and the state of   *)
(* the other never changes.                                                *)
(***************************************************************************)
EXTENDS SupervisedTree, SupervisedRun

VARIABLE subject

treeState == <<client, late, spawn, spawner, caller, ladder, deferred, waiter>>
runState == <<overdue, cancelled, run>>
vars == <<subject, ownerVars, treeState, runState>>

MCInit ==
  /\ RunInit
  /\ \/ subject = "tree" /\ SupervisedInit /\ ~cancelled
     \/ subject = "run" /\ SupervisedFrom("ended") /\ client = "bytes"

MCNext ==
  \/ subject = "tree" /\ SupervisedNext /\ UNCHANGED <<subject, runState>>
  \/ subject = "run" /\ RunNext /\ UNCHANGED <<subject, treeState>>

SupervisionSpec == MCInit /\ [][MCNext]_vars /\ SupervisedFairness

(* Both of them say that a tree is gone only when it is.                   *)
GoneIsTrue == CompleteMeansQuiet /\ BoundaryIsQuiet

(* Every variable of the two models keeps its type. *)
SupervisionTypeOK == SupervisedTypeOK /\ RunTypeOK
=============================================================================
