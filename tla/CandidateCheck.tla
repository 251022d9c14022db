--------------------------- MODULE CandidateCheck ---------------------------
(* CandidateChecker.validate (actions/candidates.py): the six levels a repair
   candidate passes before it may enter a sandbox.

   A point is <<x, y>>, a box <<x1, y1, x2, y2>>. A layer or a group that is
   None is 0, a capacity that is None is Unlimited. A status is kept, not the
   code of the issue. RuleBenefitProofEngine is compiled and
   its records change no decision; the layouts' cells, names and provenance are
   left out. A candidate names at most one semantic postcondition kind. *)
EXTENDS Integers, FiniteSets, FiniteSetsExt, Sequences, SequencesExt
CONSTANTS
  Cases                   \* pairs [candidate, given] to validate
Unlimited == 0 - 1        \* no capacity is given
\* Coordinates are integers, the edits and the claims are lists, and a capacity
\* is a count.
ASSUME CandidateAssumption ==
  \A c \in Cases :
    /\ \A i \in DOMAIN c.candidate.edits : c.candidate.edits[i].after \in Seq(Seq(Int \X Int))
    /\ \A s \in {c.candidate.edits, c.candidate.claims} : Len(s) \in Nat /\ DOMAIN s = 1..Len(s)
    /\ \A o \in DOMAIN c.given.objects : c.given.objects[o].box \in Int \X Int \X Int \X Int
    /\ \A f \in DOMAIN c.given.fragments : c.given.fragments[f].box \in Int \X Int \X Int \X Int
    /\ \A r \in DOMAIN c.given.capacities : c.given.capacities[r] \in Nat \cup {Unlimited}
VARIABLES
  candidate, given,       \* the candidate and the design, region and violations it is checked against
  level,                  \* the level under way; 6 = passed all
  status,                 \* "running" or a CandidateValidationStatus
  heuristic               \* benefit_evidence.heuristic_removed_violation_ids
checkVars == <<candidate, given, level, status, heuristic>>

----------------------------------------------------------------------------
(* Boxes and polygons. *)
intersects(a, b) == a[1] <= b[3] /\ b[1] <= a[3] /\ a[2] <= b[4] /\ b[2] <= a[4]
expanded_box(b, n) == <<b[1] - n, b[2] - n, b[3] + n, b[4] + n>>
hull(boxes) == <<Min({b[1] : b \in boxes}), Min({b[2] : b \in boxes}),
                 Max({b[3] : b \in boxes}), Max({b[4] : b \in boxes})>>
inside(a, b) == b[1] <= a[1] /\ b[2] <= a[2] /\ a[3] <= b[3] /\ a[4] <= b[4]
sides_of(b) == <<b[3] - b[1], b[4] - b[2]>>
box_area(b) == sides_of(b)[1] * sides_of(b)[2]
overlap(a, b) == Max({0, Min({a[3], b[3]}) - Max({a[1], b[1]})})
               * Max({0, Min({a[4], b[4]}) - Max({a[2], b[2]})})
gap2(a, b) == Max({a[1] - b[3], b[1] - a[3], 0})^2 + Max({a[2] - b[4], b[2] - a[4], 0})^2
centroid_distance2(a, b) == (a[1] + a[3] - b[1] - b[3])^2 + (a[2] + a[4] - b[2] - b[4])^2
geometry_box(points) == hull({<<p[1], p[2], p[1], p[2]>> : p \in ToSet(points)})

successor(points, i) == points[(i % Len(points)) + 1]
cross(p, q) == p[1] * q[2] - q[1] * p[2]
polygon_area2(points) == FoldSet(LAMBDA i, n : n + cross(points[i], successor(points, i)), 0, DOMAIN points)
orientation(a, b, c) ==
  LET value == (b[2] - a[2]) * (c[1] - b[1]) - (b[1] - a[1]) * (c[2] - b[2])
  IN IF value = 0 THEN 0 ELSE IF value > 0 THEN 1 ELSE -1
on_segment(a, b, c) == inside(<<b[1], b[2], b[1], b[2]>>, geometry_box(<<a, c>>))
crossing(a, b, c, d) == /\ orientation(a, b, c) # orientation(a, b, d)
                        /\ orientation(c, d, a) # orientation(c, d, b)
\* Slip: collinear edges never meet.
segments_intersect_crossing(a, b, c, d) == crossing(a, b, c, d)
segments_intersect(a, b, c, d) ==
  \/ crossing(a, b, c, d)
  \/ orientation(a, b, c) = 0 /\ on_segment(a, c, b)
  \/ orientation(a, b, d) = 0 /\ on_segment(a, d, b)
  \/ orientation(c, d, a) = 0 /\ on_segment(c, a, d)
  \/ orientation(c, d, b) = 0 /\ on_segment(c, b, d)
polygon_is_simple(points) ==
  LET n == Len(points) IN
  /\ Cardinality(ToSet(points)) = n
  /\ \A i, j \in 1..n :
       (i + 1 < j /\ ~(i = 1 /\ j = n)) =>
         ~segments_intersect(points[i], successor(points, i), points[j], successor(points, j))

----------------------------------------------------------------------------
(* What the edits of a candidate change. *)
edits == ToSet(candidate.edits)
Edit(i) == candidate.edits[i]
operations(op) == {i \in DOMAIN candidate.edits : Edit(i).op = op}
after_points(set) == UNION {UNION {ToSet(p) : p \in ToSet(e.after)} : e \in set}
after_boxes(set) == {geometry_box(p) : p \in UNION {ToSet(e.after) : e \in set}}
after_box(o) == {hull({<<p[1], p[2], p[1], p[2]>> : p \in points}) :
                   points \in {after_points({e \in edits : o \in e.targets})} \ {{}}}
object(o) == given.objects[o]
marker_of(v) == given.violations[v].marker

\* The marker and bounding-box trends that count as a likely repair.
resizes == candidate.family \in {"RESIZE_SHAPE", "ADJUST_ENDPOINT"}
heuristic_effect(v, related) ==
  \E o \in related : \E after \in after_box(o) :
    LET before == object(o).box  m == marker_of(v) IN
    CASE given.violations[v].rule_family \in {"SPACING", "SHORT"} -> gap2(after, m) > gap2(before, m)
      [] given.violations[v].rule_family = "WIDTH" ->
           resizes /\ \E i \in {1, 2} : sides_of(after)[i] > sides_of(before)[i]
      [] given.violations[v].rule_family \in {"AREA", "ENCLOSURE"} ->
           resizes /\ box_area(after) > box_area(before)
      [] given.violations[v].rule_family = "ALIGNMENT" ->
           centroid_distance2(after, m) < centroid_distance2(before, m)
      [] OTHER -> FALSE

----------------------------------------------------------------------------
(* local_fragment_decomposition: a parent shape is deleted and replaced by a
   moved piece of one of its fragments and by what is left beside it. *)
decomposes == candidate.post.kind = "local_fragment_decomposition"
fragment == given.fragments[candidate.post.fragment]
parent_id == candidate.post.parent
deletes == {i \in operations("DELETE_POLYGON") : Edit(i).targets = {parent_id}}
pieces_of(targets) == {i \in operations("ADD_POLYGON") : Edit(i).targets = targets /\ Edit(i).after # <<>>}
replacements == pieces_of({parent_id})
side_pieces == pieces_of({})
owns_source ==
  /\ parent_id \in DOMAIN given.objects
  /\ fragment.parent = parent_id /\ fragment.anchor = candidate.post.anchor
  /\ object(parent_id).anchor = candidate.post.anchor /\ object(parent_id).span
  /\ candidate.post.footprint = candidate.footprint
  /\ candidate.post.fragment_box = fragment.box
one_group ==
  /\ Cardinality(deletes) = 1 /\ Cardinality(replacements) = 1
  /\ Cardinality(side_pieces) = candidate.post.sides
  /\ \A e \in edits : e.anchors = {candidate.post.anchor}
  /\ \E g \in {e.group : e \in edits} \ {0} : {e.group : e \in edits} = {g}
first_box(i) == geometry_box(Edit(i).after[1])
side_boxes == {first_box(i) : i \in side_pieces}
replacement_box == first_box(CHOOSE i \in replacements : TRUE)
long_axis(b) == IF sides_of(b)[1] >= sides_of(b)[2] THEN 1 ELSE 2
\* Slip: only the ends of the pieces count.
spans_parent_ends(whole) ==
  side_boxes # {} =>
    LET all == hull({replacement_box} \cup side_boxes) IN
    \A i \in {long_axis(whole), long_axis(whole) + 2} : all[i] = whole[i]
spans_parent(whole) ==
  side_boxes # {} =>
    /\ \A b \in side_boxes : intersects(b, fragment.box)
    /\ LET all == hull({replacement_box} \cup side_boxes) IN
       \A i \in {long_axis(whole), long_axis(whole) + 2} : all[i] = whole[i]
proven_local_decomposition ==
  /\ decomposes /\ candidate.post.fragment \in DOMAIN given.fragments
  /\ owns_source /\ one_group
  /\ intersects(replacement_box, fragment.box)
  /\ spans_parent(object(parent_id).box)
decomposition_targets(v) == proven_local_decomposition /\ v \in fragment.violations

----------------------------------------------------------------------------
(* Semantic postconditions and locality (level 3). *)
touched_boxes == UNION {{geometry_box(p) : p \in ToSet(e.after)} : e \in {e \in edits : e.targets # {}}}
touched_count == FoldSet(LAMBDA i, n : n + Len(Edit(i).after), 0,
                         {i \in DOMAIN candidate.edits : Edit(i).targets # {}})
added_boxes == after_boxes({e \in edits : e.op = "ADD_POLYGON"})
semantics_hold ==
  LET p == candidate.post
      only == CHOOSE b \in touched_boxes : TRUE
      axis == IF p.axis = "Y" THEN 2 ELSE 1 IN
  CASE p.kind = "local_fragment_decomposition" -> proven_local_decomposition
    [] p.kind = "match_reference_width" -> touched_count = 1 /\ sides_of(only)[axis] = p.width
    [] p.kind = "ensure_enclosure" ->
         /\ p.parent \in DOMAIN given.objects
         /\ \E b \in added_boxes : /\ inside(expanded_box(p.marker, p.enclosure), b)
                                   /\ overlap(b, object(p.parent).box) > 0
    [] p.kind = "snap_edge_to_legal_alignment" ->
         touched_count = 1 /\ only[axis] = p.target /\ (p.target - p.origin) % p.period = 0
    [] OTHER -> TRUE

local_objectives == {"ENSURE_ENCLOSURE", "SNAP_EDGE_TO_LEGAL_ALIGNMENT",
                     "INCREASE_SPACING", "LOCAL_DETOUR_AROUND_OBSTACLE"}
margin == Max({4 * given.grid, 1})
stays_local ==
  candidate.objective \in local_objectives =>
    /\ candidate.violations # {}
    /\ LET influence == expanded_box(hull({marker_of(v) : v \in candidate.violations}), margin) IN
       /\ inside(candidate.footprint, given.halo)
       /\ box_area(candidate.footprint) <= Max({16 * box_area(influence),
               4 * box_area(expanded_box(given.region_box, margin)), 16 * margin * margin})
       /\ \/ intersects(candidate.footprint, influence)
          \/ \A v \in candidate.violations : decomposition_targets(v)

----------------------------------------------------------------------------
(* Level 0: identity, the shape of a routing macro, targets. *)
well_formed ==
  /\ candidate.region = given.region /\ candidate.family \in given.allowed
routing_is_atomic ==
  candidate.family \in {"LOCAL_DETOUR", "LOCAL_REROUTE", "CHANGE_LAYER"} =>
    /\ Cardinality({e.group : e \in {e \in edits : e.op \in {"DELETE_POLYGON", "ADD_POLYGON"}}} \ {0}) = 1
    /\ Cardinality(operations("DELETE_POLYGON")) = 1
    /\ \E e \in edits : e.op = "ADD_POLYGON" /\ e.targets # {} /\ e.after # <<>>
    /\ candidate.family = "CHANGE_LAYER" => Cardinality(operations("ADD_VIA_STACK")) >= 2
targets_known ==
  /\ candidate.violations \subseteq given.region_violations
  /\ candidate.objects \subseteq DOMAIN given.objects
  /\ candidate.violations \subseteq DOMAIN given.violations
related(v) ==
  LET violation == given.violations[v] IN
  {o \in candidate.objects : /\ violation.objects = {} \/ o \in violation.objects
                             /\ violation.layers = {} \/ object(o).layer \in violation.layers}
influence_of_edits == Max({given.grid} \cup {e.delta : e \in edits})
specialization_targets(v, n) ==
  \E e \in edits : /\ e.specializations
                   /\ \E p \in ToSet(e.before) \cup ToSet(e.after) :
                        p # <<>> /\ intersects(geometry_box(p), expanded_box(marker_of(v), n))
reaches(v) ==
  \/ \E o \in related(v) : intersects(object(o).box, expanded_box(marker_of(v), influence_of_edits))
  \/ specialization_targets(v, influence_of_edits)
  \/ candidate.objective = "ENSURE_ENCLOSURE" /\ intersects(candidate.footprint, marker_of(v))
  \/ decomposition_targets(v)
targets_reached == \A v \in candidate.violations : related(v) # {} /\ reaches(v)

(* Level 1: current sources, and one atomic rewrite per source statement. *)
fresh(s) == s.anchor \in DOMAIN given.hashes /\ given.hashes[s.anchor] = s.hash
bad_source == SelectSeq(candidate.sources, LAMBDA s : ~fresh(s))
on_anchor(a) == {i \in DOMAIN candidate.edits : a \in Edit(i).anchors}
is_carrier(e) == e.op = "INSTANCE_SPECIALIZATION" /\ e.specializations /\ e.targets = {}
direct_plus_specialization(a) ==
  LET ordinary == {i \in on_anchor(a) : ~is_carrier(Edit(i))} IN
  /\ Cardinality(on_anchor(a) \ ordinary) = 1 /\ Cardinality(ordinary) = 1
  /\ \A i \in ordinary : /\ Edit(i).targets # {}
                         /\ Edit(i).op \in {"ADJUST_ENDPOINT", "RESIZE_SHAPE", "MOVE_SHAPE"}
valid_replacement(a) ==
  /\ \E g \in {Edit(i).group : i \in on_anchor(a)} \ {0} : \A i \in on_anchor(a) : Edit(i).group = g
  /\ Cardinality({i \in on_anchor(a) : Edit(i).op \in {"DELETE_POLYGON", "DELETE_VIA_STACK"}}) = 1
  /\ Cardinality({i \in on_anchor(a) : Edit(i).after # <<>> /\ Edit(i).targets # {}}) = 1
anchors_atomic ==
  \A a \in UNION {e.anchors : e \in edits} :
    Cardinality(on_anchor(a)) > 1 => valid_replacement(a) \/ direct_plus_specialization(a)

(* Level 2: what the class of an object allows. *)
via_operations == {"MOVE_VIA_STACK", "ADD_VIA_STACK", "DELETE_VIA_STACK", "REPLACE_VIA_STACK"}
editable_by(e, o) ==
  CASE object(o).class = "A" -> e.op \in via_operations
    [] object(o).class = "C" -> e.op = "ADJUST_ENDPOINT" \/ proven_local_decomposition
    [] object(o).class = "D" -> FALSE
    [] OTHER -> TRUE
editability_holds == \A e \in edits : \A o \in e.targets : editable_by(e, o)

(* Level 3: geometry. *)
polygon_ok(p) ==
  /\ \A q \in ToSet(p) : q[1] % given.grid = 0 /\ q[2] % given.grid = 0
  /\ Len(p) >= 3 /\ polygon_area2(p) # 0 /\ polygon_is_simple(p)
  /\ \A die \in given.die : inside(geometry_box(p), die)
geometry_holds ==
  /\ \A e \in edits : /\ \A p \in ToSet(e.after) : polygon_ok(p)
                      /\ e.layer = 0 \/ given.legal_layers = {} \/ e.layer \in given.legal_layers
  /\ semantics_hold /\ stays_local

(* Level 4: the demand of the claims so far, each against its own capacity. *)
demand(n, r) == FoldSet(LAMBDA i, k : k + candidate.claims[i].amount, 0,
                        {i \in 1..n : candidate.claims[i].resource = r})
capacity(c) == IF c.capacity # Unlimited THEN c.capacity ELSE given.capacities[c.resource]
\* Slip: each claim is tested alone.
claim_fits_alone(n) == candidate.claims[n].amount <= capacity(candidate.claims[n])
claim_fits(n) == LET c == candidate.claims[n] IN
                 capacity(c) # Unlimited => demand(n, c.resource) <= capacity(c)
resources_fit == \A n \in DOMAIN candidate.claims : claim_fits(n)
\* Level 5: every edit (none is a NO_OP) is bound to a source.
patchable == \A e \in edits : e.anchors # {}

----------------------------------------------------------------------------
Refuse(s) == status' = s /\ UNCHANGED <<level, heuristic>>
Pass == level' = level + 1 /\ UNCHANGED <<status, heuristic>>
Try(n, holds, s) ==
  /\ status = "running" /\ level = n
  /\ IF holds THEN Pass ELSE Refuse(s)
  /\ UNCHANGED <<candidate, given>>

CheckIdentity ==
  /\ status = "running" /\ level = 0
  /\ IF ~well_formed THEN Refuse("INVALID_SCHEMA")
     ELSE IF candidate.family = "NO_OP" /\ edits = {} THEN level' = 6 /\ status' = "VALID" /\ UNCHANGED heuristic
     ELSE IF ~routing_is_atomic THEN Refuse("INVALID_SCHEMA")
     ELSE IF ~targets_known \/ ~targets_reached THEN Refuse("INVALID_TARGET")
     ELSE Pass
  /\ UNCHANGED <<candidate, given>>
CheckSources ==
  Try(1, bad_source = <<>> /\ anchors_atomic,
      IF bad_source # <<>> /\ bad_source[1].anchor \in DOMAIN given.hashes
      THEN "STALE_TARGET" ELSE "INVALID_TARGET")
CheckEditability == Try(2, editability_holds, "INVALID_EDITABILITY")
CheckGeometry == Try(3, geometry_holds, "INVALID_GEOMETRY")
\* The evidence of benefit is written before the resources are checked.
CheckResources ==
  /\ status = "running" /\ level = 4
  /\ heuristic' = {v \in candidate.violations : heuristic_effect(v, related(v))}
  /\ IF resources_fit THEN level' = 5 /\ UNCHANGED status
     ELSE status' = "INVALID_RESOURCE" /\ UNCHANGED level
  /\ UNCHANGED <<candidate, given>>
\* proven_drc_benefit_lb is always 0: every candidate that passes needs a sandbox.
CheckAnchors ==
  /\ status = "running" /\ level = 5
  /\ IF patchable THEN level' = 6 /\ status' = "VALID_REQUIRES_SANDBOX"
     ELSE status' = "UNPATCHABLE" /\ UNCHANGED level
  /\ UNCHANGED <<candidate, given, heuristic>>

CheckInit == /\ \E c \in Cases : candidate = c.candidate /\ given = c.given
             /\ level = 0 /\ status = "running" /\ heuristic = {}
CheckIdle == /\ candidate = <<>> /\ given = <<>> /\ level = 0 /\ status = "idle" /\ heuristic = {}
CheckNext == \/ CheckIdentity \/ CheckSources \/ CheckEditability
             \/ CheckGeometry \/ CheckResources \/ CheckAnchors
CheckSpec == CheckInit /\ [][CheckNext]_checkVars

----------------------------------------------------------------------------
Accepted == status = "VALID_REQUIRES_SANDBOX"
\* Two closed segments have a point in common, by solving for it.
Meet(a, b, c, d) ==
  LET u == <<b[1] - a[1], b[2] - a[2]>>
      w == <<d[1] - c[1], d[2] - c[2]>>
      s == <<c[1] - a[1], c[2] - a[2]>>
      det == cross(u, w)
      Within(num) == IF det > 0 THEN num \in 0..det ELSE num \in det..0
      dot(p, q) == p[1] * q[1] + p[2] * q[2] IN
  IF det # 0 THEN Within(cross(s, w)) /\ Within(cross(s, u))
  ELSE /\ cross(s, u) = 0
       /\ Max({0, Min({dot(s, u), dot(s, u) + dot(w, u)})})
            <= Min({dot(u, u), Max({dot(s, u), dot(s, u) + dot(w, u)})})
(* "after geometry is degenerate": the boundary of every polygon that is written
   into the layout meets itself nowhere, and no edge folds back on the one
   before it, although the checker never compares neighbouring edges. *)
GeometryIsSimple ==
  Accepted => \A e \in edits : \A p \in ToSet(e.after) :
    LET n == Len(p)  E(i) == <<p[i], successor(p, i)>> IN
    \A i, j \in 1..n : i < j =>
      IF j = i + 1 \/ (i = 1 /\ j = n)
      THEN LET k == IF j = i + 1 THEN i ELSE n  m == IF k = n THEN 1 ELSE k + 1
               u == <<E(k)[2][1] - E(k)[1][1], E(k)[2][2] - E(k)[1][2]>>
               w == <<E(m)[2][1] - E(m)[1][1], E(m)[2][2] - E(m)[1][2]>>
           IN cross(u, w) # 0 \/ u[1] * w[1] + u[2] * w[2] > 0
      ELSE ~Meet(E(i)[1], E(i)[2], E(j)[1], E(j)[2])

(* When a shape is taken apart into a replacement and side pieces, the extents of
   the pieces along the shape's long axis leave no stretch of it uncovered
   outside the fragment that is repaired, although only the ends of all pieces
   together and each one's contact with the fragment are compared. Extents are
   all that _proven_local_decomposition looks at: a piece that lies beside the
   shape, is thinner, or is on another legal layer counts like any other, so the
   property does not say that the metal stays connected. *)
OutsideIsSpanned ==
  Accepted /\ decomposes /\ side_boxes # {} =>
    LET whole == object(parent_id).box  i == long_axis(whole)
        pieces == side_boxes \cup {replacement_box} IN
    \A k \in whole[i]..(whole[i + 2] - 1) :
      \/ fragment.box[i] <= k /\ k + 1 <= fragment.box[i + 2]
      \/ \E b \in pieces : b[i] <= k /\ k + 1 <= b[i + 2]

(* Claims on one resource add up: an accepted candidate fits into the design's
   capacity however its demand is split into claims. *)
DemandFits ==
  Accepted => \A r \in DOMAIN given.capacities :
    (given.capacities[r] # Unlimited /\ \A c \in ToSet(candidate.claims) : c.resource = r => c.capacity = Unlimited)
      => demand(Len(candidate.claims), r) <= given.capacities[r]

(* What passes the checker can be written into the layout. *)
CandidatesAreSound == GeometryIsSimple /\ OutsideIsSpanned /\ DemandFits
=============================================================================
