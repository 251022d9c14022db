--------------------------- MODULE RegionContext ---------------------------
(* What a region's planner is shown: the routing topology around its violations
   (regions/topology.py) and the compact context cut down to the token budget
   (agents/context.py), built after the messages of RegionGraph when no formal
   kernel is configured (workflow/planning.py).

   Layers are numbered as they are stacked: M1 = 1, V1 = 2, M2 = 3. A fragment
   is named by its object and violation, an endpoint also by its end, a landing
   by its violation, layer and object (0 for the bare marker); lists in the order
   of their hashes are in the order of these names. The token estimate is left
   open: truncation may stop after any step. Candidate and rollback histories
   are always empty here (no previous regions). *)
EXTENDS RegionGraph
CONSTANTS
  Rule(_),                \* RuleCatalog: exact, semantics, nm of a rule
  Witness(_, _),          \* rule_witnesses: {} or {[quality, sources]}
  MinWindow, Grid, MaxDistance
ASSUME ContextAssumption ==
  /\ MinWindow \in Nat /\ Grid \in Nat \ {0} /\ MaxDistance \in Nat
  /\ \A d \in Designs : \A v \in Reported :
       /\ Rule(d.family[v]).nm \in Nat
       /\ Witness(d, v) = {} \/ \E w \in Witness(d, v) : Witness(d, v) = {w} /\ w.quality \in 0..4
VARIABLE ctx
contextVars == <<graphVars, ctx>>

Before(a, b) == \E i \in DOMAIN a : a[i] < b[i] /\ \A j \in 1..(i-1) : a[j] = b[j]
AsSeq(set) == Ordered(set, Before)
Pop(s) == SubSeq(s, 1, Len(s) - 1)
Via(layer) == layer % 2 = 0

----------------------------------------------------------------------------
(* LocalTopologyBuilder.build. *)
Clip(a, b) == <<Max({a[1], b[1]}), Min({a[2], b[2]})>>
influence_window(v) == Wider(marker(v), Max({MinWindow, Width(marker(v))}))
all_fragments ==
  {f \in LayoutObjects \X Reported :
     /\ obj(f[1]).anchored /\ ~Via(obj(f[1]).layer)
     /\ design.layers[f[2]] = {} \/ obj(f[1]).layer \in design.layers[f[2]]
     /\ LET c == Clip(obj(f[1]).box, influence_window(f[2])) IN c[1] < c[2]}
fragment_box(f) == Clip(obj(f[1]).box, influence_window(f[2]))
square(o) == Width(obj(o).box) = obj(o).thick
all_endpoints == {<<f[1], f[2], i>> : f \in {f \in all_fragments : ~square(f[1])}, i \in {1, 2}}
Contacts(v, l) == {o \in LayoutObjects : obj(o).anchored /\ obj(o).layer = l /\ Touch(obj(o).box, marker(v))}
all_landings ==
  (UNION {{<<v, l, o>> : o \in IF Contacts(v, l) = {} THEN {0} ELSE Contacts(v, l)} :
           v \in Reported, l \in {l \in UNION {design.layers[u] : u \in Reported} : Via(l)}})
    \cap {x \in Reported \X Nat \X (LayoutObjects \cup {0}) : x[2] \in design.layers[x[1]]}
landing_box(x) == IF x[3] = 0 THEN marker(x[1]) ELSE obj(x[3]).box
via_metal(landings, fragments) ==
  {a \in landings \X fragments :
     LET x == a[1]  f == a[2] IN
     /\ obj(f[1]).layer \in {x[2] - 1, x[2] + 1} /\ x[1] = f[2]
     /\ \/ Shared(landing_box(x), fragment_box(f)) > 0
        \/ Gap(landing_box(x), fragment_box(f)) <= MinWindow}

----------------------------------------------------------------------------
(* Distances of a rule and the hints its violations give. *)
Upper(n, grid) == ((n + grid - 1) \div grid) * grid
\* Slip: a shortfall is rounded to the grid below it.
to_grid_below(n) == (n \div Grid) * Grid
to_grid(n) == Upper(n, Grid)
rule(v) == design.family[v]
distance(r) == to_grid((Rule(r).nm * Micron + 999) \div 1000)
has_distance(r) == Rule(r).exact /\ distance(r) \in 1..MaxDistance
shortfalls(v) ==
  LET d == distance(rule(v))
      near_objects == objects(v)
      metals == {o \in near_objects : ~Via(obj(o).layer)}
      vias == near_objects \ metals
      off(c) == Min({c % d, d - (c % d)}) IN
  CASE Rule(rule(v)).semantics = "ENCLOSURE" ->
         UNION {{d - (marker(v)[1] - obj(o).box[1]), d - (obj(o).box[2] - marker(v)[2])} : o \in metals}
    [] Rule(rule(v)).semantics = "VIA_METAL_WIDTH" ->
         {obj(x).thick - obj(o).thick : x \in vias, o \in metals}
    [] Rule(rule(v)).semantics = "GRID_ALIGNMENT" ->
         UNION {{off(obj(o).box[1]), off(obj(o).box[2])} : o \in near_objects}
    [] OTHER -> {}
derived(v) == {to_grid(n) : n \in {n \in shortfalls(v) : n > 0}} \cap 1..MaxDistance

----------------------------------------------------------------------------
(* CompactRegionContextSerializer.build: what is listed at first. *)
witness(v) == Witness(design, v)
Sources(v) == UNION {w.sources : w \in witness(v)}
quality(v) == IF witness(v) = {} THEN 4 ELSE Min({w.quality : w \in witness(v)})
Rank(v) == <<IF Sources(v) = {} THEN 1 ELSE 0, quality(v), v>>
\* Slip: violations are listed by their ids.
violation_priority_ids(vs) == Ids(vs)
violation_priority(vs) == Ordered(vs, LAMBDA u, v : Before(Rank(u), Rank(v)))

local_fragments(r) ==
  {f \in all_fragments : f[2] \in r.violations /\ Touch(fragment_box(f), r.halo)}
\* Long objects are shown as the union of their local fragments.
context_object(o, fragments) ==
  LET mine == {f \in fragments : f[1] = o} IN
  IF mine # {} /\ Width(obj(o).box) >= 2 * Micron
  THEN Span({fragment_box(f) : f \in mine}) ELSE obj(o).box
Evidence(violations, witnesses, neighbours) ==
  {<<"violation", v>> : v \in violations} \cup {<<"witness", v>> : v \in witnesses}
  \cup {<<"edge", {m.from, m.to}, m.relation>> : m \in neighbours}
Witnessed(vs) == {v \in vs : witness(v) # {}}
\* The last violation of a rule that derives a hint gives the rule's hints.
hints(order, r) ==
  LET givers == {i \in DOMAIN order : rule(order[i]) = r /\ derived(order[i]) # {}} IN
  IF has_distance(r) /\ givers # {} THEN derived(order[Max(givers)]) ELSE {}

Relations == <<"geometry", "shared_net", "resource">>
Neighbours(r) ==
  LET key(m) == <<m.round, m.from, CHOOSE i \in 1..3 : Relations[i] = m.relation>> IN
  Ordered({m \in messages : m.to = r.id}, LAMBDA m, n : Before(key(m), key(n)))

serialize(r) ==
  LET order == violation_priority(r.violations)
      fragments == local_fragments(r)
      landings == {x \in all_landings : x[1] \in r.violations} IN
  [region |-> r, violations |-> order, witnesses |-> Witnessed(r.violations),
   rules |-> {rule(v) : v \in r.violations},
   hints |-> [x \in {rule(v) : v \in r.violations} |-> hints(order, x)],
   editable |-> Ids(r.editable), frozen |-> Ids(r.frozen),
   slices |-> {o \in r.objects : obj(o).anchored},
   shown |-> [o \in r.objects |-> context_object(o, fragments)],
   fragments |-> AsSeq(fragments),
   endpoints |-> AsSeq({e \in all_endpoints : <<e[1], e[2]>> \in fragments}),
   landings |-> AsSeq(landings),
   adjacencies |-> Ordered({a \in via_metal(all_landings, all_fragments) : a[2] \in fragments},
                          LAMBDA a, b : Before(a[1] \o a[2], b[1] \o b[2])),
   neighbours |-> Neighbours(r),
   evidence |-> {}, included |-> {}, assoc |-> <<>>, grounded |-> {}, segments |-> {}, vias |-> {}]
BuildContext ==
  /\ stage = "messages"
  /\ \E r \in regions : ctx' = serialize(r)
  /\ stage' = "context"
  /\ UNCHANGED <<design, nets, site, parent, todo, united, regions, edges, messages>>

----------------------------------------------------------------------------
(* The truncation loop: the first list that still has something loses its last
   item; a violation takes its witness and the data of its rule with it. *)
ListedSlices(c) == SelectSeq(c.editable \o c.frozen, LAMBDA o : o \in c.slices)
\* Slip: landings go before the adjacencies that name them.
Lists_landings == <<"frozen", "endpoints", "landings", "adjacencies">>
Lists == <<"frozen", "endpoints", "adjacencies", "landings">>
Expendable(c) == {i \in DOMAIN Lists : c[Lists[i]] # <<>>}
drop_violation(c) ==
  LET left == Pop(c.violations) IN
  [c EXCEPT !.violations = left,
            !.witnesses = c.witnesses \ {Last(c.violations)},
            !.rules = {rule(v) : v \in ToSet(left)},
            !.hints = Restrict(c.hints, {rule(v) : v \in ToSet(left)})]
ExceedsBudget(c) ==
  /\ ListedSlices(c) = <<>> /\ Expendable(c) = {} /\ c.fragments = <<>>
  /\ Len(c.neighbours) <= 1 /\ Len(c.violations) <= 1 /\ Len(c.editable) <= 1
shorten(c) ==
  IF ListedSlices(c) # <<>> THEN [c EXCEPT !.slices = c.slices \ {Last(ListedSlices(c))}]
  ELSE IF Expendable(c) # {} THEN [c EXCEPT ![Lists[Min(Expendable(c))]] = Pop(@)]
  ELSE IF Len(c.neighbours) > 1 THEN [c EXCEPT !.neighbours = Pop(c.neighbours)]
  ELSE IF Len(c.violations) > 1 THEN drop_violation(c)
  ELSE IF Len(c.editable) > 1 THEN [c EXCEPT !.editable = Pop(c.editable)]
  ELSE [c EXCEPT !.fragments = Pop(c.fragments)]
Truncate ==
  /\ stage = "context" /\ ~ExceedsBudget(ctx)
  /\ ctx' = shorten(ctx)
  /\ UNCHANGED graphVars
\* ValueError: even the minimum exceeds the budget.
RefuseContext ==
  /\ stage = "context" /\ ExceedsBudget(ctx)
  /\ stage' = "refused"
  /\ UNCHANGED <<design, nets, site, parent, todo, united, regions, edges, messages, ctx>>

----------------------------------------------------------------------------
(* What is left decides which ids an answer may name. *)
\* Slip: the evidence of the whole region stays available.
included_evidence_region(c) ==
  Evidence(c.region.violations, c.witnesses, ToSet(c.neighbours))
included_evidence(c) == Evidence(ToSet(c.violations), c.witnesses, ToSet(c.neighbours))
included_objects(c) == ToSet(c.editable) \cup ToSet(c.frozen)
associated(c, v) == objects(v) \cap included_objects(c)
has_witness_authority(c, v) == v \in c.witnesses /\ quality(v) <= 1
\* Slip: a witness with nothing editable left gives way to geometry.
grounding_falls_back(c, v) ==
  IF has_witness_authority(c, v) /\ Sources(v) \cap ToSet(c.editable) # {}
  THEN Sources(v) \cap ToSet(c.editable)
  ELSE {o \in ToSet(c.editable) : Touch(c.shown[o], Wider(marker(v), MaxDistance))}
grounding(c, v) ==
  IF has_witness_authority(c, v) THEN Sources(v) \cap ToSet(c.editable)
  ELSE IF associated(c, v) # {} THEN associated(c, v) \cap ToSet(c.editable)
  ELSE {o \in ToSet(c.editable) :
          /\ design.layers[v] = {} \/ obj(o).layer \in design.layers[v]
          /\ Touch(c.shown[o], Wider(marker(v), MaxDistance))}
FinishContext ==
  /\ stage = "context"
  /\ LET listed == ToSet(ctx.violations)
         pairs == UNION {{<<o, v>> : o \in grounding(ctx, v)} : v \in listed}
         traceable == {p[1] : p \in pairs} \cap {o \in LayoutObjects : net(o) # {}}
     IN ctx' = [ctx EXCEPT !.evidence = included_evidence(ctx), !.included = included_objects(ctx),
                           !.assoc = [v \in listed |-> associated(ctx, v)],
                           !.grounded = pairs,
                           !.segments = {o \in traceable : ~Via(obj(o).layer)},
                           !.vias = {o \in traceable : Via(obj(o).layer)}]
  /\ stage' = "prompt"
  /\ UNCHANGED <<design, nets, site, parent, todo, united, regions, edges, messages>>

ContextNext == BuildContext \/ Truncate \/ RefuseContext \/ FinishContext
ContextSpec ==
  /\ BuildInit /\ ctx = <<>>
  /\ [][(GraphNext /\ UNCHANGED ctx) \/ ContextNext]_contextVars
ContextIdle ==
  /\ design = <<>> /\ stage = "idle" /\ nets = <<>> /\ site = <<>> /\ parent = <<>> /\ todo = <<>>
  /\ united = {} /\ regions = {} /\ edges = {} /\ messages = {} /\ ctx = <<>>

----------------------------------------------------------------------------
(* HARD_CONSTRAINTS "Reference only listed ...": however much was cut, an
   endpoint's fragment, an adjacency's landing and fragment, a witness's
   violation are listed, and every id an answer may name is of a listed thing. *)
ContextIsClosed ==
  stage = "prompt" =>
    LET listed == ToSet(ctx.violations) IN
    /\ \A e \in ToSet(ctx.endpoints) : <<e[1], e[2]>> \in ToSet(ctx.fragments)
    /\ \A a \in ToSet(ctx.adjacencies) : a[1] \in ToSet(ctx.landings) /\ a[2] \in ToSet(ctx.fragments)
    /\ ctx.witnesses \subseteq listed /\ DOMAIN ctx.hints = {rule(v) : v \in listed}
    /\ \A p \in ctx.grounded : p[1] \in ToSet(ctx.editable) /\ p[2] \in listed
    /\ ctx.segments \cup ctx.vias \subseteq {p[1] : p \in ctx.grounded}

(* The evidence an answer may cite is what the context still shows, so that an
   answer cannot justify itself by a violation it was not shown. *)
EvidenceIsShown ==
  stage = "prompt" =>
    /\ \A e \in ctx.evidence : e[1] \in {"violation", "witness"} => e[2] \in ToSet(ctx.violations)
    /\ \A v \in ToSet(ctx.violations) : <<"violation", v>> \in ctx.evidence

(* If a violation of the region can be repaired through an editable source that
   its witness names, the context lists such a violation, with its witness,
   down to the smallest one the budget leaves. *)
RepairableViolationIsKept ==
  stage \in {"context", "prompt"} =>
    ((\E v \in ctx.region.violations : Sources(v) # {}) =>
      \E v \in ToSet(ctx.violations) : Sources(v) # {} /\ v \in ctx.witnesses)

(* A witness with authority decides alone which objects its violation is
   grounded on: truncating its objects never turns to geometry instead. *)
WitnessDecides ==
  stage = "prompt" =>
    \A p \in ctx.grounded : p[2] \in ctx.witnesses /\ quality(p[2]) <= 1 => p[1] \in Sources(p[2])

(* A hint is on the manufacturing grid, within the candidate distance, and
   large enough: moving the edge by it restores the enclosure, the width or
   (for a coordinate on the grid) the alignment of a violation of its rule. *)
HintsClose ==
  stage = "context" =>
    \A r \in DOMAIN ctx.hints : \A h \in ctx.hints[r] :
      /\ h % Grid = 0 /\ h \in 1..MaxDistance /\ 1000 * distance(r) >= Rule(r).nm * Micron
      /\ \E v \in ctx.region.violations : \E o \in objects(v) :
           /\ rule(v) = r
           /\ CASE Rule(r).semantics = "ENCLOSURE" ->
                   \/ marker(v)[1] - (obj(o).box[1] - h) >= distance(r)
                   \/ (obj(o).box[2] + h) - marker(v)[2] >= distance(r)
                [] Rule(r).semantics = "VIA_METAL_WIDTH" ->
                   \E x \in objects(v) : Via(obj(x).layer) /\ obj(o).thick + h >= obj(x).thick
                [] OTHER ->
                   \E i \in {1, 2} : obj(o).box[i] % Grid = 0 =>
                     0 \in {(obj(o).box[i] + h) % distance(r), (obj(o).box[i] - h) % distance(r)}

(* What a planner is shown is closed, grounded and citable, whatever was cut, and
   what its region can be repaired by reaches it. *)
ContextIsSound == /\ ContextIsClosed /\ EvidenceIsShown /\ WitnessDecides
                  /\ RepairableViolationIsKept /\ HintsClose
=============================================================================
