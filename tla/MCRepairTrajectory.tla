------------------------- MODULE MCRepairTrajectory -------------------------
(* Two violations; a and b are DOFs of v1's scene, c is one of v2's. *)
EXTENDS RepairTrajectory
CONSTANTS v1, v2, a, b, c

MCViolations == {v1, v2}
MCOrder == <<v1, v2>>
MCDofs == {a, b, c}
MCSceneOf == [d \in MCDofs |-> IF d = c THEN v2 ELSE v1]

Option(i, D, n) == [id |-> i, dofs |-> D, need |-> n]
MCOptions ==
  {<<Option(1, {a}, 1), Option(2, {b}, 1), Option(3, {c}, 1)>>,
   <<Option(1, {b}, 1), Option(2, {a, b}, 2)>>,
   <<Option(1, {a, b}, 2), Option(2, {c}, 1)>>,
   <<Option(1, {a}, 1), Option(2, {b}, 1), Option(3, {a, b}, 1)>>}

Typical == [llm |-> TRUE, supported |-> MCViolations, scenes |-> MCViolations,
            broken |-> {}, messages |-> FALSE, spacing |-> TRUE,
            options |-> <<Option(1, {a}, 1), Option(2, {b}, 1), Option(3, {c}, 1)>>]
MCWorlds ==
  {[Typical EXCEPT !.options = o] : o \in MCOptions}
  \cup {[Typical EXCEPT !.spacing = FALSE], [Typical EXCEPT !.llm = FALSE], [Typical EXCEPT !.messages = TRUE],
        [Typical EXCEPT !.llm = FALSE, !.scenes = {v1}],
        [Typical EXCEPT !.scenes = {v1}], [Typical EXCEPT !.broken = {v1}]}

Answer(i, t, p, f, n, d) ==
  [id |-> i, targets |-> t, refs |-> TRUE, other |-> 0, preferred |-> p,
   forbidden |-> f, ops |-> n, depth |-> d]
MCPlans ==
  {Answer(i, <<v1, v2>>, p, f, n, 1) :
      i \in 1..2, p \in {{}, {a}, {b}}, f \in {{}, {b}}, n \in 1..2}
  \cup {Answer(i, t, p, {}, 2, 2) :
      i \in 1..2, t \in {<<v1, v2>>}, p \in {{}, {a}}}
  \cup {Answer(i, <<v1, v2>>, {}, {a, b}, 2, 1) : i \in 1..2}
  \cup {Answer(2, <<v1>>, {a}, {}, 2, 2)}
  \cup {[Answer(1, <<>>, {}, {}, 2, 1) EXCEPT !.refs = FALSE]}
=============================================================================
