---------------------------- MODULE MCContinuation ----------------------------
EXTENDS Continuation, TLC

CONSTANTS c1, c2, c3

MCCommands == {c1, c2, c3}
MCInitialEnvelope == [iterations |-> 1, budget |-> 1]

Amend(nonce, iterations, budget) ==
  [nonce |-> nonce, iterations |-> iterations, budget |-> budget,
   verify_only |-> FALSE]

(* A plain resume, more iterations, more budget, both, a nonce used again *)
(* for something else, and a verification.                                *)
MCRequests ==
  {Amend("", {}, {}), Amend("more", {2}, {}), Amend("budget", {}, {2}),
   Amend("both", {2}, {2}), Amend("more", {3}, {}),
   [Amend("", {}, {}) EXCEPT !.verify_only = TRUE]}

(* The commands are interchangeable. *)
Symmetry == Permutations(MCCommands)
===============================================================================
