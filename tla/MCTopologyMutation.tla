------------------------- MODULE MCTopologyMutation -------------------------
(***************************************************************************)
(* Small instances of TopologyMutation: module b depends on module a, and  *)
(* a has a second implementation that can replace the first.               *)
(***************************************************************************)
EXTENDS TopologyMutation

CONSTANTS ka, kb, a1, a2, b1

MCKeyOf == [i \in Instances |-> IF i = b1 THEN kb ELSE ka]
MCDeps == [k \in Keys |-> IF k = kb THEN {ka} ELSE {}]
=============================================================================
