---------------------- MODULE MCArchitectureLifecycle ----------------------
(***************************************************************************)
(* Small instances of ArchitectureLifecycle: module b depends on module a, *)
(* and a has a second implementation that can replace the first.           *)
(***************************************************************************)
EXTENDS ArchitectureLifecycle, TLC

CONSTANTS ka, kb, a1, a2, b1

MCKeyOf == [i \in Instances |-> IF i = b1 THEN kb ELSE ka]
MCDeps == [k \in Keys |-> IF k = kb THEN {ka} ELSE {}]
MCRank == [i \in Instances |-> IF i = a1 THEN 1 ELSE IF i = a2 THEN 2 ELSE 3]

\* The calls of init() are interchangeable.
CallSymmetry == Permutations(InitCalls)
=============================================================================
