-------------------------- MODULE MCResourceArbiter --------------------------
(***************************************************************************)
(* Instances of ResourceArbiter for TLC.                                   *)
(***************************************************************************)
EXTENDS ResourceArbiter, TLC

CONSTANTS c1, c2, c3, p1, p2, p3

(* Every call in a process of its own. *)
ApartOf == (c1 :> p1) @@ (c2 :> p2) @@ (c3 :> p3)
(* c1 and c2 are threads of one process. *)
SiblingsOf == (c1 :> p1) @@ (c2 :> p1) @@ (c3 :> p2)

OneHost == [p \in Procs |-> "host"]
TwoHosts == [p \in Procs |-> IF p = p3 THEN "other" ELSE "host"]

(* c1 and c2, with their processes, are interchangeable under ApartOf and
   TwoHosts. *)
Interchange == {(c1 :> c2) @@ (c2 :> c1) @@ (p1 :> p2) @@ (p2 :> p1)}
=============================================================================
