---------------------------- MODULE RegionGraph ----------------------------
(* From a report's violations to the regions of an iteration and the graph of
   the agents that will own them: regions/connectivity.py (net components),
   regions/builder.py (association, affinity, union-find, caps), graphs/agent.py
   (edges between regions and the messages along them), in the order of the
   runtime's nodes parse_design_state, build_regions, build_agent_graph and
   prune_agent_graph.

   The layout lies along one axis: a box is an interval and an area a length;
   ids are numbers. exp(-gap/reach) >= 0.60 and >= 0.35 are stated as bounds on
   gap/reach. RegionBuilder.build is always called with previous = []: nothing
   assigns session.previous_regions, so lineages and histories start anew. *)
EXTENDS Integers, FiniteSets, FiniteSetsExt, Sequences, SequencesExt, Functions
CONSTANTS
  Reported, LayoutObjects,
  Designs,                \* the layouts and reports to build from
  Access(_, _),           \* PotentialPhysicalAccess of a region: compiled, external
  MaxGap, HaloMin, HaloMax, SeedWindow, Micron, Nearby,
  MaxMarkers, MaxRegionObjects, MaxSpan, MaxTokens
ASSUME SeedsAreOrdered == MaxGap <= Micron
ASSUME LayoutAssumption ==
  /\ Reported \subseteq Nat /\ IsFiniteSet(Reported)
  /\ LayoutObjects \subseteq Nat \ {0} /\ IsFiniteSet(LayoutObjects)
  /\ {MaxGap, HaloMin, HaloMax, SeedWindow, Micron, Nearby, MaxMarkers,
       MaxRegionObjects, MaxSpan, MaxTokens} \subseteq Nat
  /\ \A d \in Designs :
       /\ d.objects \in [LayoutObjects -> [box : Int \X Int, layer : Nat, class : {"A", "B", "C", "D"},
                                          anchored : BOOLEAN, thick : Nat]]
       /\ d.marker \in [Reported -> Int \X Int] /\ d.influence \in [Reported -> Nat]
       /\ d.layers \in [Reported -> SUBSET Nat] /\ \A v \in Reported : IsFiniteSet(d.layers[v])
       /\ d.paths \in Seq((SUBSET LayoutObjects) \X (SUBSET LayoutObjects))
VARIABLES
  design, stage,
  nets,                   \* ConnectivityMap: the component of an object, or {}
  site,                   \* associated objects, seed and halo of a violation
  parent,                 \* _UnionFind.parent
  todo,                   \* the pairs or merges still to be looked at
  united,                 \* the pairs that were united, for the reference
  regions, edges, messages
graphVars == <<design, stage, nets, site, parent, todo, united, regions, edges, messages>>

----------------------------------------------------------------------------
(* Boxes. *)
Span(set) == <<Min({b[1] : b \in set}), Max({b[2] : b \in set})>>
Width(b) == b[2] - b[1]
Gap(a, b) == Max({a[1] - b[2], b[1] - a[2], 0})
Shared(a, b) == Max({0, Min({a[2], b[2]}) - Max({a[1], b[1]})})
Touch(a, b) == a[1] <= b[2] /\ b[1] <= a[2]
\* The set in the order of `before'.
Ordered(set, before(_, _)) ==
  [i \in 1..Cardinality(set) |-> CHOOSE x \in set : Cardinality({y \in set : before(y, x)}) = i - 1]
Ids(set) == Ordered(set, <)
Wider(b, n) == <<b[1] - n, b[2] + n>>

(* Union-find with path halving; the smaller root wins. *)
find(p, x) ==
  LET F[n \in 0..Cardinality(DOMAIN p)] ==
        IF n = 0 THEN <<p, x>>
        ELSE LET last == F[n-1]  q == last[1]  y == last[2] IN
             IF q[y] = y THEN last
             ELSE LET h == [q EXCEPT ![y] = q[q[y]]] IN <<h, h[y]>>
  IN F[Cardinality(DOMAIN p)]
root(p, x) == find(p, x)[2]
\* Slip: the elements are linked, not their roots.
union_items(p, x, y) == [p EXCEPT ![Max({x, y})] = Min({x, y})]
union(p, x, y) ==
  LET l == find(p, x)
      r == find(l[1], y)
      a == Min({l[2], r[2]})
      b == Max({l[2], r[2]})
  IN IF a = b THEN r[1] ELSE [r[1] EXCEPT ![b] = a]
Groups(p) == {{y \in DOMAIN p : root(p, y) = root(p, x)} : x \in DOMAIN p}

----------------------------------------------------------------------------
(* map_connectivity_components: the objects that path endpoints match exactly
   once form components; the others keep no net. *)
matched == UNION {IF Cardinality(p[i]) = 1 THEN p[i] ELSE {} : i \in {1, 2}, p \in ToSet(design.paths)}
connect(p, path) ==
  IF Cardinality(path[1]) = 1 /\ Cardinality(path[2]) = 1
  THEN union(p, Min(path[1]), Min(path[2])) ELSE p
components ==
  LET R[n \in 0..Len(design.paths)] ==
        IF n = 0 THEN [o \in matched |-> o] ELSE connect(R[n-1], design.paths[n])
  IN R[Len(design.paths)]
map_connectivity_components ==
  [o \in LayoutObjects |-> IF o \in matched
     THEN {{x \in matched : root(components, x) = root(components, o)}} ELSE {}]
net(o) == nets[o]

(* Association, seed and halo of a violation. *)
obj(o) == design.objects[o]
marker(v) == design.marker[v]
nearby(v) == {o \in LayoutObjects : (design.layers[v] = {} \/ obj(o).layer \in design.layers[v])
                              /\ Touch(Wider(marker(v), MaxGap), obj(o).box)}
exact(v) == {o \in nearby(v) : Touch(marker(v), obj(o).box)}
associate(v) ==
  IF exact(v) # {} THEN exact(v)
  ELSE LET s == Ids(nearby(v)) IN ToSet(SubSeq(s, 1, Min({Nearby, Len(s)})))
local(v, o) ==
  LET b == obj(o).box IN
  IF Width(b) <= SeedWindow THEN b
  ELSE <<Max({b[1], marker(v)[1] - Micron}), Min({b[2], marker(v)[2] + Micron})>>
seed_box(v) == Span({marker(v)} \cup {local(v, o) : o \in associate(v)})
_seed(v) ==
  [objects |-> associate(v), seed |-> seed_box(v),
   halo |-> Wider(seed_box(v), Min({HaloMax, Max({HaloMin, design.influence[v], Width(marker(v)) \div 2})}))]
objects(v) == site[v].objects
seed_of(v) == site[v].seed
halo(v) == site[v].halo

----------------------------------------------------------------------------
(* Affinity of two violations. *)
firm(v) == {o \in objects(v) : obj(o).class \in {"A", "B"}}
isHard(p) == firm(p[1]) \cap firm(p[2]) # {}
common(p) == Shared(halo(p[1]), halo(p[2]))
least(p) == Min({Width(halo(p[1])), Width(halo(p[2]))})
gap(p) == Gap(halo(p[1]), halo(p[2]))
merges(p) ==
  LET kin == design.family[p[1]] = design.family[p[2]]
             /\ design.layers[p[1]] \cap design.layers[p[2]] # {}
  IN \/ least(p) > 0 /\ 10 * common(p) >= least(p) /\ (kin \/ isHard(p))
     \/ kin /\ isHard(p) /\ 10000 * gap(p) <= 5108 * MaxGap
near == {p \in Reported \X Reported : p[1] < p[2] /\ gap(p) <= MaxGap}
ByIds(p, q) == p[1] < q[1] \/ (p[1] = q[1] /\ p[2] < q[2])
\* Sorted by halo overlap ratio, then gap, then ids.
Closer(p, q) ==
  LET a == common(p) * Max({least(q), 1})  b == common(q) * Max({least(p), 1}) IN
  \/ a > b
  \/ (a = b /\ gap(p) < gap(q))
  \/ (a = b /\ gap(p) = gap(q) /\ ByIds(p, q))

objects_of(g) == UNION {objects(v) : v \in g}
cap_ok(g) ==
  /\ Cardinality(g) <= MaxMarkers
  /\ Cardinality(objects_of(g)) <= MaxRegionObjects
  /\ Width(Span({seed_of(v) : v \in g})) <= MaxSpan
  /\ 180 * Cardinality(g) + 80 * Cardinality(objects_of(g)) <= MaxTokens
\* Slip: the cap is left to the split.
merge_fits_any(g) == TRUE
merge_fits(g) == cap_ok(g)

\* Slips: an associated object counts as shared; nothing does.
sharing_any(g) == objects_of(g) # {}
sharing_none(g) == FALSE
sharing(g) == \E u, v \in g : u # v /\ objects(u) \cap objects(v) # {}
centre(v) == seed_of(v)[1] + seed_of(v)[2]
(* _split: an oversized group without a shared object is cut where the halves
   are balanced and the gap between the centroids is wide, and each half again:
   a group has as many rounds as members, and a round leaves the other groups. *)
ByCentre(u, v) == centre(u) < centre(v) \/ (centre(u) = centre(v) /\ u < v)
cost(s, c) == 2000 * Max({2 * c - Len(s), Len(s) - 2 * c}) - (centre(s[c+1]) - centre(s[c]))
Better(s, c, d) == \/ cost(s, c) < cost(s, d)
                   \/ cost(s, c) = cost(s, d) /\ c <= d
cut(s) == CHOOSE c \in 1..(Len(s) - 1) : \A d \in 1..(Len(s) - 1) : Better(s, c, d)
settled(g) == cap_ok(g) \/ Cardinality(g) <= 1 \/ sharing(g)
halves(g) ==
  LET s == Ordered(g, ByCentre) IN
  IF settled(g) THEN {g} ELSE {ToSet(SubSeq(s, 1, cut(s))), ToSet(SubSeq(s, cut(s) + 1, Len(s)))}
split(g) ==
  LET R[n \in 0..Cardinality(g)] == IF n = 0 THEN {g} ELSE UNION {halves(h) : h \in R[n-1]}
  IN R[Cardinality(g)]

----------------------------------------------------------------------------
(* The region of a group (_finalize). Its id orders as its least violation. *)
mapped(os) == {o \in os : net(o) # {}}
region(g) ==
  LET os == objects_of(g)
      editable == {o \in os : obj(o).anchored /\ obj(o).class # "D"}
  IN [id |-> Min(g), violations |-> g, objects |-> os,
      editable |-> editable, frozen |-> os \ editable,
      halo |-> Span({halo(v) : v \in g}),
      nets |-> UNION {net(o) : o \in os},
      quality |-> IF mapped(os) = {} THEN "unavailable"
                  ELSE IF mapped(os) = os THEN "connectivity_component" ELSE "partial",
      bins |-> UNION {{obj(o).layer} \X
                 ((obj(o).box[1] \div Max({MaxGap, 1}))..
                  (Max({obj(o).box[2] - 1, obj(o).box[1]}) \div Max({MaxGap, 1}))) : o \in os},
      oversized |-> ~cap_ok(g)]

(* RegionBuilder.build: hard pairs, then merges, then regions. *)
BuildInit ==
  /\ design \in Designs /\ stage = "report"
  /\ nets = [o \in LayoutObjects |-> {}] /\ site = <<>>
  /\ parent = [v \in Reported |-> v]
  /\ todo = <<>> /\ united = {} /\ regions = {} /\ edges = {} /\ messages = {}

parse_design_state ==
  /\ stage = "report"
  /\ nets' = map_connectivity_components
  /\ site' = [v \in Reported |-> _seed(v)]
  /\ stage' = "pairs"
  /\ UNCHANGED <<design, parent, todo, united, regions, edges, messages>>
start_pairs ==
  /\ stage = "pairs"
  /\ stage' = "hard" /\ todo' = Ordered(near, ByIds)
  /\ UNCHANGED <<design, nets, site, parent, united, regions, edges, messages>>
Unite(p) == parent' = union(parent, p[1], p[2]) /\ united' = united \cup {p}
unite_hard ==
  /\ stage = "hard" /\ todo # <<>>
  /\ IF isHard(Head(todo)) THEN Unite(Head(todo)) ELSE UNCHANGED <<parent, united>>
  /\ todo' = Tail(todo)
  /\ UNCHANGED <<design, stage, nets, site, regions, edges, messages>>
start_merges ==
  /\ stage = "hard" /\ todo = <<>>
  /\ stage' = "merge" /\ todo' = Ordered({p \in near : merges(p)}, Closer)
  /\ UNCHANGED <<design, nets, site, parent, united, regions, edges, messages>>
unite_merge ==
  /\ stage = "merge" /\ todo # <<>>
  /\ LET p == Head(todo)
         members == {v \in Reported : root(parent, v) \in {root(parent, p[1]), root(parent, p[2])}}
     IN IF root(parent, p[1]) # root(parent, p[2]) /\ merge_fits(members) THEN Unite(p)
        ELSE UNCHANGED <<parent, united>>
  /\ todo' = Tail(todo)
  /\ UNCHANGED <<design, stage, nets, site, regions, edges, messages>>
build_regions ==
  /\ stage = "merge" /\ todo = <<>>
  /\ regions' = {region(h) : h \in UNION {split(g) : g \in Groups(parent)}}
  /\ stage' = "regions"
  /\ UNCHANGED <<design, nets, site, parent, todo, united, edges, messages>>

----------------------------------------------------------------------------
(* AgentGraphBuilder. *)
Legacy(a, b) == a.legacy /\ b.legacy
exact_ids(a, old) == IF old THEN a.occurrence \cup a.target \cup a.write ELSE a.exact
proven_ids(a, old) == IF old THEN a.read \cup a.relation \cup a.merged ELSE a.proven
\* The kinds of evidence of a physical dependency that make the edge hard.
physical_kinds(a, b) ==
  LET old == Legacy(a, b)
      writes == exact_ids(a, old) \cap exact_ids(b, old)
      reads == proven_ids(a, old) \cap proven_ids(b, old)
      Contends(x, y) == x.write \cap exact_ids(x, old) \cap y.read \cap proven_ids(y, old) # {}
      Lands(x, y) == x.relation_write \cap y.relation \cap reads # {}
      Kind(holds, kind) == IF holds THEN {kind} ELSE {}
  IN Kind(a.occurrence \cap b.occurrence \cap writes # {}, "same_writable_occurrence")
     \cup Kind(a.target \cap b.target \cap writes # {}, "same_writable_source_target")
     \cup Kind(a.merged \cap b.merged \cap reads # {}, "shared_merged_boundary_contributor")
     \cup Kind(Contends(a, b) \/ Contends(b, a), "potential_write_protected_read")
     \cup Kind(Lands(a, b) \/ Lands(b, a), "shared_protected_landing_contact")
soft_kinds(a, b, kinds) ==
  {k \in {"broad_phase_physical_candidate", "unknown_physical_access",
          "shared_source_definition_distinct_or_unknown_occurrence"} :
     \/ k = "broad_phase_physical_candidate" /\ a.broad \cap b.broad # {}
     \/ k = "unknown_physical_access" /\ a.unknown \cap b.unknown # {}
     \/ /\ k = "shared_source_definition_distinct_or_unknown_occurrence"
        /\ kinds = {} /\ a.definitions \cap b.definitions # {}}
access(r) == Access(design, r)

Edge(r, s, relation, isHardEdge, kinds) ==
  [u |-> r.id, v |-> s.id, relation |-> relation, hard |-> isHardEdge, kinds |-> kinds]
\* Slip: two regions are near only when their halos are.
geometry_edge_near(r, s) ==
  LET kinds == physical_kinds(access(r), access(s))
      both == r.editable \cap s.editable
      reach == Max({Min({Width(r.halo), Width(s.halo)}), 1})
  IN IF Shared(r.halo, s.halo) > 0 \/ 10000 * Gap(r.halo, s.halo) <= 10498 * reach
     THEN {Edge(r, s, "geometry", kinds # {},
                kinds \cup (IF both # {} THEN {"shared_editable_object"} ELSE {}))}
     ELSE {}
geometry_edge(r, s) ==
  LET kinds == physical_kinds(access(r), access(s))
      others == soft_kinds(access(r), access(s), kinds)
      both == r.editable \cap s.editable
      reach == Max({Min({Width(r.halo), Width(s.halo)}), 1})
  IN IF \/ Shared(r.halo, s.halo) > 0 \/ 10000 * Gap(r.halo, s.halo) <= 10498 * reach
        \/ both # {} \/ kinds \cup others # {}
     THEN {Edge(r, s, "geometry", kinds # {},
                kinds \cup others \cup (IF both # {} THEN {"shared_editable_object"} ELSE {}))}
     ELSE {}
net_edge(r, s) ==
  IF r.nets \cap s.nets = {} THEN {}
  ELSE {Edge(r, s, "shared_net", r.quality = "exact" /\ s.quality = "exact",
             {"shared_connectivity_component"})}
resource_edge(r, s) ==
  IF r.bins \cap s.bins = {} THEN {} ELSE {Edge(r, s, "resource", FALSE, {"geometry_proxy_bins"})}

build_agent_graph ==
  /\ stage = "regions"
  /\ edges' = UNION {geometry_edge(p[1], p[2]) \cup net_edge(p[1], p[2]) \cup resource_edge(p[1], p[2]) :
                      p \in {p \in regions \X regions : p[1].id < p[2].id}}
  /\ stage' = "graph"
  /\ UNCHANGED <<design, nets, site, parent, todo, united, regions, messages>>

\* The pruner (PlanningScopeController) is external: it keeps every hard edge.
prune_agent_graph ==
  /\ stage = "graph"
  /\ \E kept \in {edges, {e \in edges : e.hard}} : edges' = kept
  /\ stage' = "pruned"
  /\ UNCHANGED <<design, nets, site, parent, todo, united, regions, messages>>

----------------------------------------------------------------------------
(* MessagePasser: facts first, then the intents of the sender, then the same
   again between the pairs that conflict, in a scope that holds every edge. *)
Message(n, from, to, e, intents) ==
  [round |-> n, from |-> from, to |-> to, relation |-> e.relation, kinds |-> e.kinds, intents |-> intents]
Ends(e) == {<<e.u, e.v>>, <<e.v, e.u>>}
round_one == UNION {{Message(1, p[1], p[2], e, {}) : p \in Ends(e)} : e \in edges}
\* Slip: the receiver is told its own intents.
round_two_echo(intents) == UNION {{Message(2, p[1], p[2], e, intents[p[2]]) : p \in Ends(e)} : e \in edges}
round_two(intents) == UNION {{Message(2, p[1], p[2], e, intents[p[1]]) : p \in Ends(e)} : e \in edges}
round_three(conflicts, intents) ==
  {[m EXCEPT !.round = 3] : m \in {m \in round_two(intents) : {m.from, m.to} \in conflicts}}
run(rounds, intents, conflicts) ==
  (IF rounds >= 1 THEN round_one ELSE {}) \cup (IF rounds >= 2 THEN round_two(intents) ELSE {})
  \cup (IF rounds >= 3 /\ conflicts # {} THEN round_three(conflicts, intents) ELSE {})

ids == {r.id : r \in regions}
PassMessages ==
  /\ stage = "pruned"
  /\ \E rounds \in {1, 3}, silent \in {{}, {Min(ids)}}, conflicts \in {{}, {{Min(ids), Max(ids)}}} :
       messages' = run(rounds, [i \in ids |-> IF i \in silent THEN {} ELSE {i}], conflicts)
  /\ stage' = "messages"
  /\ UNCHANGED <<design, nets, site, parent, todo, united, regions, edges>>

GraphNext == \/ parse_design_state \/ start_pairs \/ unite_hard \/ start_merges \/ unite_merge \/ build_regions
             \/ build_agent_graph \/ prune_agent_graph \/ PassMessages

----------------------------------------------------------------------------
\* The classes of the least equivalence that holds the pairs.
Closure(set, pairs) ==
  LET R[n \in 0..Cardinality(set)] ==
        IF n = 0 THEN {{x} : x \in set}
        ELSE LET last == R[n-1] IN
             {c \cup UNION {d \in last : \E p \in pairs : {p[1], p[2]} \cap c # {}
                                                     /\ {p[1], p[2]} \cap d # {}} : c \in last}
  IN R[Cardinality(set)]

(* Path halving rewrites the parents while finds are under way in both union-
   finds: at any moment the groups are the classes of exactly the pairs united
   so far, and parents lead down to the smallest member, whatever the order of
   hard pairs and merges; nets are the classes of the uniquely matched paths. *)
UnionFindIsClosure == stage # "idle" =>
  /\ Groups(parent) = Closure(Reported, united)
  /\ \A v \in Reported : parent[v] <= v /\ root(parent, v) <= parent[v]
  /\ stage = "pairs" =>
       {net(o) : o \in matched} = {{c} : c \in Closure(matched,
          {<<Min(p[1]), Min(p[2])>> : p \in {p \in ToSet(design.paths) :
              Cardinality(p[1]) = 1 /\ Cardinality(p[2]) = 1}})}

(* Violations near each other that share an object a repair may write are in
   one region, through caps, merges and splits, so that no two agents plan its
   edits; and the regions partition the violations of the report. *)
SharedObjectsStayTogether ==
  stage = "regions" =>
    /\ \A v \in Reported : Cardinality({r \in regions : v \in r.violations}) = 1
    /\ \A p \in near : isHard(p) => \E r \in regions : {p[1], p[2]} \subseteq r.violations

(* OVERSIZED_HARD_COMPONENT: a region over the caps with several violations is
   one component of hard pairs, nothing was merged into it. *)
OversizedIsHard ==
  stage = "regions" =>
    \A r \in regions : r.oversized /\ Cardinality(r.violations) > 1 =>
      r.violations \in Closure(Reported, {p \in near : isHard(p)})

(* _split, for any group it might be given: the parts partition the group and
   each is within the caps unless it is a single violation or shares objects. *)
SplitCutsToSize ==
  stage = "pairs" =>
    \A g \in (SUBSET Reported) \ {{}} :
      /\ UNION split(g) = g
      /\ \A a, b \in split(g) : a # b => a \cap b = {}
      /\ \A a \in split(g) : \/ cap_ok(a) \/ Cardinality(a) = 1
                               \/ \E u, v \in a : u # v /\ objects(u) \cap objects(v) # {}

(* Regions too far apart to be united may still edit one object: the graph
   never leaves such a pair without an edge that says so. *)
SharedObjectsAreLinked ==
  stage = "graph" =>
    \A r, s \in regions : r.id < s.id /\ r.editable \cap s.editable # {} =>
      \E e \in edges : e.u = r.id /\ e.v = s.id /\ "shared_editable_object" \in e.kinds

(* Facts of every edge reach both ends, a round-two message says what its
   sender intends, and round three repeats it between conflicting pairs only. *)
MessagesAreMutual ==
  stage = "messages" =>
    /\ \A e \in edges : \A p \in Ends(e) :
          \E m \in messages : m.round = 1 /\ <<m.from, m.to>> = p /\ m.kinds = e.kinds
    /\ \A m \in messages : m.intents \subseteq {m.from}
    /\ \A m \in messages : m.round = 3 => [m EXCEPT !.round = 2] \in messages

(* The regions are the groups that the builder's rules ask for. *)
RegionsAreSound == UnionFindIsClosure /\ SharedObjectsStayTogether /\ OversizedIsHard /\ SplitCutsToSize
(* Neighbouring agents learn what they share and what the other intends. *)
NeighboursAreTold == SharedObjectsAreLinked /\ MessagesAreMutual
=============================================================================
