----------------------------- MODULE BoundedPool -----------------------------
(***************************************************************************)
(* What the resource arbiter promises: a fixed number of slots, each used  *)
(* by at most one call, and a call uses at most one slot.                  *)
(***************************************************************************)
EXTENDS Naturals

CONSTANTS Calls, NumSlots

VARIABLE usage   \* the pairs <<slot, call>> of the operations in flight

Init == usage = {}

Take(s, c) ==
  /\ \A u \in usage : u[1] # s /\ u[2] # c
  /\ usage' = usage \cup {<<s, c>>}

(* A call gives its slot back, or a process dies and the calls it ran end. *)
Give(gone) ==
  /\ gone # {} /\ gone \subseteq usage
  /\ usage' = usage \ gone

Next ==
  \/ \E s \in 0..(NumSlots - 1), c \in Calls : Take(s, c)
  \/ \E gone \in SUBSET usage : Give(gone)

Spec == Init /\ [][Next]_usage
=============================================================================
