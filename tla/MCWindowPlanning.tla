-------------------------- MODULE MCWindowPlanning --------------------------
(* Two subgraphs side by side: one with a decision region and its helper, one
   with a decision region that has two claimed violations and a context region. *)
EXTENDS WindowPlanning
CONSTANTS p1, p2, r1, r2, r3, r4

MCSubgraphs == {p1, p2}
MCRegions == {r1, r2, r3, r4}
MCSubgraphOf == [r \in MCRegions |-> IF r \in {r1, r2} THEN p1 ELSE p2]
MCContext == {r4}
MCHelpers == {r2}
MCAssisted == [r \in MCHelpers |-> {1}]
MCViolations == 1..3
MCViolationsOf == [r \in MCRegions |-> CASE r = r1 -> {1} [] r = r3 -> {2, 3} [] OTHER -> {}]
MCClaimed == {1, 2, 3}
MCUnsupported == {3}
=============================================================================
