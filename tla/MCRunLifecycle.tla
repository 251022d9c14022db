---------------------------- MODULE MCRunLifecycle ----------------------------
EXTENDS RunLifecycle, TLC

CONSTANTS v1, v2

MCViolations == {v1, v2}

(* No action or property tells the violations apart. *)
Symmetry == Permutations(MCViolations)
===============================================================================
