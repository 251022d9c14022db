---------------------------- MODULE MCWindowStages ----------------------------
(* The stages of an iteration up to the verified bundle: regions, graph and
   contexts, the selection of a window, its coordination and its batches.

   Regions: four reported violations in every order of five places along a
   layout of six objects, a long wire, two short ones, a via, and what may not
   be edited. Selection: every agent graph over four regions with at most three
   edges, each soft, hard, or hard with physical proof, under six ways of laying
   the regions out in scopes; region r carries violation r. *)
EXTENDS ActiveWindow, WindowCoordination, RegionContext, CandidateCheck
MCScopes == 1..3
MCRegions == 1..4
MCViolations == 1..4
MCEngineering == {{}, {1}}

Pairs == {<<1, 2>>, <<1, 3>>, <<2, 3>>, <<2, 4>>, <<3, 4>>}
Kinds == {<<FALSE, FALSE>>, <<TRUE, FALSE>>, <<TRUE, TRUE>>}
EdgeSets ==
  UNION {{{[u |-> p[1], v |-> p[2], hard |-> k[p][1], proof |-> k[p][2]] : p \in ps} :
            k \in [ps -> Kinds]} : ps \in {ps \in SUBSET Pairs : Cardinality(ps) <= 3}}

Shape(layout, boundary, solver, priority, whole, barren) ==
  [region_ids |-> layout, boundary |-> boundary, solver |-> solver,
   priority |-> priority, whole |-> whole, barren |-> barren]
Dep(u, v, tight) == [u |-> u, v |-> v, hard |-> tight]
Shapes == {
  Shape(<<{1}, {2}, {3, 4}>>, {}, <<0, 0, 0>>, <<0, 0, 0>>, {}, {2}),
  Shape(<<{1}, {2}, {3, 4}>>, {}, <<0, 0, 0>>, <<0, 1, 0>>, {3}, {}),
  Shape(<<{1}, {2}, {3, 4}>>, {Dep(1, 3, TRUE)}, <<0, 0, 0>>, <<0, 0, 0>>, {1, 3}, {4}),
  Shape(<<{1}, {2, 3}, {4}>>, {Dep(2, 3, FALSE)}, <<0, 0, 0>>, <<0, 0, 1>>, {2, 3}, {}),
  Shape(<<{1}, {2, 3}, {4}>>, {Dep(1, 10, FALSE)}, <<0, 10, 10>>, <<1, 0, 0>>, {1, 3}, {}),
  Shape(<<{1}, {2, 3}, {3, 4}>>, {}, <<0, 0, 0>>, <<0, 0, 0>>, {}, {})}
Frontiers == {{1}, {2, 4}, {1, 2, 3, 4}}

MCGraphs == {[edges |-> es, frontier |-> f, targets |-> <<{1}, {2}, {3}, {4}>>] @@ shape :
               es \in EdgeSets, f \in Frontiers, shape \in Shapes}

\* Four candidates, the first two writing a common object.
MCCandidates == 1..4
MCObjects == [c \in MCCandidates |-> CASE c = 1 -> {1, 2} [] c = 2 -> {2, 3} [] OTHER -> {c + 1}]
MCBudgets == [rounds : {0, 2, 3, 5}, jobs : {0, 2, 4}]
MCUncompilable == {{2}, {1, 3}, {2, 3, 4}}
MCIsolated == {4}
MCBundleLists == UNION {[1..n -> {{}, {1}, {1, 2}, {3}, {3, 4}, {2, 3, 4}, {1, 2, 3}, {1, 2, 3, 4}}] : n \in 1..3}

----------------------------------------------------------------------------
MCReported == 1..4
MCLayout == 1..6
Obj(lo, hi, layer, class, anchored) ==
  [box |-> <<lo, hi>>, layer |-> layer, class |-> class, anchored |-> anchored,
   thick |-> IF layer = 2 THEN 3 ELSE 1]
Layout == <<Obj(0, 4, 1, "A", TRUE), Obj(5, 40, 1, "B", TRUE), Obj(4, 5, 2, "A", TRUE),
            Obj(8, 9, 1, "C", TRUE), Obj(29, 32, 3, "D", FALSE), Obj(12, 14, 3, "A", TRUE)>>
Places == {0, 4, 5, 16, 30}
Routes == {<<>>, <<<<{1}, {2}>>, <<{2}, {6}>>, <<{4, 5}, {6}>>>>}
Metals == [v \in MCReported |-> CASE v = 1 -> {1, 2} [] v = 2 -> {1} [] v = 3 -> {1, 3} [] OTHER -> {}]
\* Where the four markers lie: a row, two pairs, a crowd, far apart.
Rows == {at \in [MCReported -> Places] : at[1] <= at[2] \/ at[3] = at[4]}
Design(at, ps, fam, ex) ==
  [objects |-> Layout, paths |-> ps, layers |-> Metals,
   marker |-> [v \in MCReported |-> <<at[v], at[v] + 1>>],
   influence |-> [v \in MCReported |-> 1], family |-> fam, exact |-> ex]
Routed == {Design(<<0, 5, 16, 30>>, ps, <<1, 1, 1, 1>>, MCLayout) : ps \in Routes}
Placed == {Design(at, <<<<{2}, {3}>>, <<{3}, {6}>>>>, fam, {x \in MCLayout : fam[2] = 1}) :
             at \in Rows, fam \in {<<1, 1, 1, 1>>, <<1, 2, 1, 3>>}}
MCDesigns == Routed \cup Placed

MCAccess(d, r) ==
  LET firmly == r.editable \cap d.exact IN
  [legacy |-> FALSE, occurrence |-> r.editable, target |-> r.editable \cap {1}, write |-> r.editable,
   exact |-> firmly, read |-> r.frozen, relation |-> r.objects \cap {3}, merged |-> r.objects \cap {4},
   relation_write |-> r.editable \cap {3}, proven |-> r.objects \cap d.exact,
   broad |-> r.objects \cap {5, 6}, unknown |-> r.objects \cap {5}, definitions |-> r.objects \cap {2}]
MCRule(r) ==
  [exact |-> TRUE, nm |-> IF r = 3 THEN 500 ELSE 1000,
   semantics |-> CASE r = 1 -> "ENCLOSURE" [] r = 2 -> "GRID_ALIGNMENT" [] OTHER -> "VIA_METAL_WIDTH"]
MCWitness(d, v) ==
  CASE v = 1 -> {} [] v = 2 -> {[quality |-> 1, sources |-> {2}]}
    [] v = 3 -> {[quality |-> 3, sources |-> {2, 6}]} [] OTHER -> {[quality |-> 0, sources |-> {}]}
----------------------------------------------------------------------------
\* Candidates to check: one edit with any polygon, and decompositions, groups of
\* edits on one source, claims, postconditions of every kind.
Square(l, r) == <<<<l, 0>>, <<r, 0>>, <<r, 1>>, <<l, 1>>>>
An(op) == [op |-> op, targets |-> {2}, anchors |-> {2}, after |-> <<>>, before |-> <<>>,
           group |-> 0, delta |-> 0, layer |-> 0, specializations |-> FALSE]
AtObject(box, class, a) == [box |-> box, layer |-> 1, class |-> class, anchor |-> a, span |-> TRUE]
MCGiven ==
  [region |-> 1, allowed |-> {"RESIZE_SHAPE", "NO_OP", "LOCAL_DETOUR"}, region_violations |-> {1},
   objects |-> <<AtObject(<<0, 0, 6, 1>>, "C", 1), AtObject(<<0, 0, 3, 2>>, "B", 2), AtObject(<<0, 0, 1, 1>>, "A", 2),
                 AtObject(<<0, 0, 1, 6>>, "C", 1), AtObject(<<3, 3, 4, 4>>, "D", 2)>>,
   violations |-> <<[marker |-> <<2, 0, 3, 1>>, objects |-> {}, layers |-> {}, rule_family |-> "WIDTH"]>>,
   fragments |-> <<[parent |-> 1, anchor |-> 1, box |-> <<2, 0, 4, 1>>, violations |-> {1}],
                   [parent |-> 4, anchor |-> 1, box |-> <<0, 2, 1, 4>>, violations |-> {}]>>,
   hashes |-> <<1, 1>>, grid |-> 1, die |-> {<<0, 0, 6, 6>>}, legal_layers |-> {1, 2},
   halo |-> <<0, 0, 8, 8>>, region_box |-> <<0, 0, 4, 4>>, capacities |-> <<3, Unlimited, 0>>]
Plain ==
  [region |-> 1, family |-> "RESIZE_SHAPE", objective |-> "AUTO", post |-> [kind |-> "none"],
   edits |-> <<[An("RESIZE_SHAPE") EXCEPT !.after = <<Square(0, 4)>>]>>, violations |-> {1}, objects |-> {1, 2, 3, 4},
   sources |-> <<[anchor |-> 2, hash |-> 1]>>, footprint |-> <<0, 0, 4, 1>>, claims |-> <<>>]
Polygons ==
  {<<<<0, 0>>>> \o q : q \in [1..3 -> (0..2) \X (0..2)]} \cup {<<<<0, 0>>>> \o q : q \in [1..4 -> (0..3) \X (0..1)]}
  \cup {<<<<0, 0>>, <<1, 0>>>>, <<<<0, 0>>, <<7, 0>>, <<7, 1>>>>}
Shaped == {[Plain EXCEPT !.edits[1].after = <<p>>] : p \in Polygons}

Stretches == {p \in (0..6) \X (0..6) : p[1] < p[2]}
Turned(p) == [i \in DOMAIN p |-> <<p[i][2], p[i][1]>>]
Pieces(carrier, shapes, sides) ==
  LET piece(i) == [An("ADD_POLYGON") EXCEPT !.targets = IF i = 1 THEN {carrier} ELSE {}, !.anchors = {1},
                     !.after = <<shapes[i]>>, !.group = 1] IN
  [Plain EXCEPT !.objective = "INCREASE_SPACING", !.sources = <<>>,
     !.post = [kind |-> "local_fragment_decomposition", fragment |-> IF carrier = 1 THEN 1 ELSE 2,
               parent |-> carrier, anchor |-> 1, footprint |-> <<0, 0, 4, 1>>, sides |-> sides,
               fragment_box |-> MCGiven.fragments[IF carrier = 1 THEN 1 ELSE 2].box],
     !.edits = <<[An("DELETE_POLYGON") EXCEPT !.targets = {carrier}, !.anchors = {1}, !.group = 1]>>
               \o [i \in DOMAIN shapes |-> piece(i)]]
Decomposed ==
  {Pieces(1, <<Square(p[1], p[2])>>, 0) : p \in Stretches}
  \cup {Pieces(1, [i \in 1..2 |-> Square(ps[i][1], ps[i][2])], n) : ps \in Stretches \X Stretches, n \in {0, 1}}
  \cup {Pieces(1, [i \in 1..3 |-> Square(ps[i][1], ps[i][2])], 2) :
           ps \in {<<2, 4>>, <<3, 5>>} \X {p \in Stretches : p[1] = 0} \X Stretches}
  \cup {Pieces(4, [i \in 1..2 |-> Turned(Square(ps[i][1], ps[i][2]))], 1) : ps \in Stretches \X Stretches}

\* Side pieces beside the wire, across it or on another layer, which count too.
Strays == {<<<<l, b>>, <<r, b>>, <<r, t>>, <<l, t>>>> : <<l, r>> \in {<<0, 2>>, <<0, 1>>, <<0, 3>>},
                                                      <<b, t>> \in {<<0, 1>>, <<1, 2>>, <<0, 3>>}}
Offset == {[Pieces(1, <<Square(p[1], p[2]), q>>, 1) EXCEPT !.edits[3].layer = y] :
             p \in {<<2, 4>>, <<2, 6>>, <<4, 6>>}, q \in Strays, y \in {0, 2, 3}}

SomeEdits == {[An(op) EXCEPT !.targets = t, !.group = g, !.after = a, !.specializations = (op = "INSTANCE_SPECIALIZATION")] :
                op \in {"DELETE_POLYGON", "ADD_POLYGON", "MOVE_SHAPE", "INSTANCE_SPECIALIZATION"},
                t \in {{}, {2}}, g \in {0, 1}, a \in {<<>>, <<Square(0, 3)>>}}
Grouped == {[Plain EXCEPT !.edits = es, !.family = f] : es \in SomeEdits \X SomeEdits, f \in {"RESIZE_SHAPE", "LOCAL_DETOUR"}}
AnyClaim == [resource : {1, 2}, amount : {1, 2}, capacity : {Unlimited, 2}]
            \cup [resource : {3}, amount : {1}, capacity : {Unlimited, 0}]
Claiming == {[Plain EXCEPT !.claims = cs] : cs \in UNION {[1..n -> AnyClaim] : n \in 1..3}}
Odd == {[Plain EXCEPT !.region = 2], [Plain EXCEPT !.family = "NO_OP", !.edits = <<>>], [Plain EXCEPT !.violations = {2}],
        [Plain EXCEPT !.objects = {9}], [Plain EXCEPT !.objects = {5}], [Plain EXCEPT !.sources[1].hash = 2],
        [Plain EXCEPT !.sources[1].anchor = 7], [Plain EXCEPT !.edits[1].anchors = {}], [Plain EXCEPT !.edits[1].layer = 3],
        [Plain EXCEPT !.objective = "ENSURE_ENCLOSURE"],
        [Plain EXCEPT !.objective = "ENSURE_ENCLOSURE", !.footprint = <<0, 0, 9, 9>>]}
       \cup {[Plain EXCEPT !.edits[1].targets = {o}] : o \in {1, 3, 5}}
       \cup {[Plain EXCEPT !.post = p] : p \in
            [kind : {"match_reference_width"}, axis : {"X", "Y"}, width : {1, 4}]
            \cup [kind : {"snap_edge_to_legal_alignment"}, axis : {"X"}, target : {0, 1}, origin : {0}, period : {2}]}
       \cup {[Plain EXCEPT !.edits[1].op = "ADD_POLYGON", !.post =
              [kind |-> "ensure_enclosure", parent |-> x, enclosure |-> n, marker |-> <<2, 0, 3, 1>>]] : x \in {1, 9}, n \in {0, 1}}
MCCases == {[candidate |-> x, given |-> MCGiven] : x \in Shaped \cup Decomposed \cup Offset \cup Grouped \cup Claiming \cup Odd}
----------------------------------------------------------------------------
(* The stages run one after the other and hand over plain values, with a
   planner or a compiled component between any two: each is explored from all
   its own inputs while the others are idle. *)
OtherIdle == SelectionIdle /\ CoordinationIdle /\ BatchingIdle
MCInit == \/ SelectionInit /\ CoordinationIdle /\ BatchingIdle /\ ContextIdle /\ CheckIdle
          \/ SelectionIdle /\ CoordinationInit /\ BatchingIdle /\ ContextIdle /\ CheckIdle
          \/ SelectionIdle /\ CoordinationIdle /\ BatchingInit /\ ContextIdle /\ CheckIdle
          \/ OtherIdle /\ BuildInit /\ ctx = <<>> /\ CheckIdle
          \/ OtherIdle /\ ContextIdle /\ CheckInit
MCNext == \/ SelectionNext /\ UNCHANGED <<coordinationVars, batchingVars, contextVars, checkVars>>
          \/ CoordinationNext /\ UNCHANGED <<selectionVars, batchingVars, contextVars, checkVars>>
          \/ BatchingNext /\ UNCHANGED <<selectionVars, coordinationVars, contextVars, checkVars>>
          \/ GraphNext /\ UNCHANGED <<selectionVars, coordinationVars, batchingVars, ctx, checkVars>>
          \/ ContextNext /\ UNCHANGED <<selectionVars, coordinationVars, batchingVars, checkVars>>
          \/ CheckNext /\ UNCHANGED <<selectionVars, coordinationVars, batchingVars, contextVars>>
MCSpec == MCInit /\ [][MCNext]_<<selectionVars, coordinationVars, batchingVars, contextVars, checkVars>>
=============================================================================
