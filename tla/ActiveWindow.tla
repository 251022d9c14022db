---------------------------- MODULE ActiveWindow ----------------------------
(* How one iteration picks its next window from the agent graph
   (workflow/active_window.py, called by select_active_subgraphs in
   workflow/runtime.py): the engineering restriction of the planning scopes,
   the seed, its hard closure, the soft growth, the roles of the regions and
   the bindings of the helper regions to the targets they assist. After each
   window the attempted targets leave the pending frontier.

   Subgraphs ("scopes") and regions are numbers, so that the order of the
   code's sorts is the order of the numbers. A violation belongs to regions
   through `graph.targets`. Of the evidence of an edge only one question is
   kept: does it hold one of the kinds that prove a physical dependency. *)
EXTENDS Integers, FiniteSets, FiniteSetsExt, Sequences, SequencesExt
CONSTANTS
  Scopes, Regions, Violations,
  Graphs,            \* the agent graphs and scopes the iteration may start with
  Engineering,       \* the values of workflow.engineering_target_violation_ids
  MaxParallel, MaxActiveRegions, TopK, MaxNonNoop,
  MaxWindows         \* workflow.max_windows_per_iteration
(* An agent graph, and what the scopes laid over it hold. *)
AgentGraphs ==
  [edges : SUBSET [u : Regions, v : Regions, hard : BOOLEAN, proof : BOOLEAN],
   targets : [Regions -> SUBSET Violations], frontier : SUBSET Violations,
   region_ids : [Scopes -> SUBSET Regions], whole : SUBSET Scopes, barren : SUBSET Regions,
   boundary : SUBSET [u : Nat, v : Nat, hard : BOOLEAN], solver : [Scopes -> Nat],
   priority : [Scopes -> Int]]
ASSUME SelectionAssumption ==
  /\ Scopes \subseteq Nat /\ Regions \subseteq Nat
  /\ IsFiniteSet(Scopes) /\ IsFiniteSet(Regions) /\ IsFiniteSet(Violations)
  /\ \A g \in Graphs : g \in AgentGraphs /\ IsFiniteSet(g.edges)
VARIABLES
  graph,             \* session.graph with the scopes of AgentGraphPruner
  views,             \* region_ids of each scope after the engineering restriction
  expanded,          \* `selected` of engineering_scope_views
  processed,         \* session.processed_frontier_violation_ids
  step,              \* how far select_active_subgraphs has come
  seed, selected, queue,
  window             \* the ActiveWindow, once it is built
selectionVars == <<graph, views, expanded, processed, step, seed, selected, queue, window>>

NoWindow == [frontier |-> {}, regions |-> {}, decision |-> {}, helper |-> {},
             context |-> {}, assigned |-> {}, assists |-> <<>>]

----------------------------------------------------------------------------
(* Dependencies between scopes. *)
scope_ids(s) == {s, graph.solver[s]} \ {0}
Owners(set) == IF set = {} THEN {} ELSE {Max(set)}     \* the last scope of the list wins
owner(view, r) == Owners({s \in Scopes : r \in view[s]})
scope_owner(view, x) == Owners({s \in Scopes : view[s] # {} /\ x \in scope_ids(s)})

\* The scopes that _dependency_pairs puts beside s, for hard or for soft.
dependents(view, s, isHard) ==
  LET Joined(ls, rs) == {t \in Scopes \ {s} : (s \in ls /\ t \in rs) \/ (t \in ls /\ s \in rs)}
  IN UNION ({Joined(owner(view, e.u), owner(view, e.v)) : e \in {e \in graph.edges : e.hard = isHard}}
       \cup {Joined(scope_owner(view, d.u), scope_owner(view, d.v)) :
               d \in {d \in graph.boundary : d.hard = isHard}}
       \cup {{t \in Scopes \ {s} : /\ isHard /\ view[t] # {} /\ view[s] # {}
                                  /\ graph.solver[s] # 0 /\ graph.solver[s] = graph.solver[t]}})

hard(s) == dependents(views, s, TRUE)
soft(s) == dependents(views, s, FALSE)

----------------------------------------------------------------------------
(* The engineering restriction. *)
Crossed(set) == set \cup UNION {{e.u, e.v} : e \in {e \in graph.edges :
                                            e.hard /\ {e.u, e.v} \cap set # {}}}
Whole(set) == set \cup UNION {graph.region_ids[s] : s \in {s \in Scopes :
                   s \in graph.whole /\ graph.region_ids[s] \cap set # {}}}
Beside(set) ==
  set \cup UNION {UNION {graph.region_ids[t] : t \in dependents(graph.region_ids, s, TRUE)} :
                   s \in {s \in Scopes : graph.region_ids[s] \cap set # {}}}
\* Slip: one round of expansion is taken for the closure.
expand_once(set) == IF set # {r \in Regions : graph.targets[r] \cap graph.engineering # {}}
                    THEN set ELSE Beside(Whole(Crossed(set)))
expand(set) == Beside(Whole(Crossed(set)))

engineering_scope_views ==
  /\ step = "restrict"
  /\ IF graph.engineering = {}
     THEN /\ views' = graph.region_ids /\ step' = "seed" /\ UNCHANGED expanded
     ELSE IF expand(expanded) = expanded
     THEN /\ views' = [s \in Scopes |-> graph.region_ids[s] \cap expanded]
          /\ step' = "seed" /\ UNCHANGED expanded
     ELSE expanded' = expand(expanded) /\ UNCHANGED <<views, step>>
  /\ UNCHANGED <<graph, processed, seed, selected, queue, window>>

----------------------------------------------------------------------------
(* The seed and its hard closure. *)
pending == graph.frontier \ processed
\* Slip: what was already attempted is claimed again.
claims_stale(s) == (UNION {graph.targets[r] : r \in views[s]}) \cap graph.frontier
claims(s) == (UNION {graph.targets[r] : r \in views[s]}) \cap pending
eligible == {s \in Scopes : claims(s) # {}}
hard_degree(s) == Cardinality(hard(s))
                + Cardinality({e \in graph.edges : e.hard /\ {e.u, e.v} \cap views[s] # {}})

Earlier(a, b) == \E i \in DOMAIN a : a[i] < b[i] /\ \A j \in 1..(i - 1) : a[j] = b[j]
FirstBy(set, key(_)) == CHOOSE s \in set : \A t \in set \ {s} : Earlier(key(s), key(t))
seed_key(s) == <<-graph.priority[s], -hard_degree(s), -Cardinality(claims(s)),
                 Cardinality(views[s]), s>>

pick_seed ==
  /\ step = "seed"
  /\ IF pending = {} \/ eligible = {}
     THEN step' = "none" /\ UNCHANGED <<seed, selected, queue>>
     ELSE /\ seed' = FirstBy(eligible, seed_key)
          /\ selected' = {seed'} /\ queue' = <<seed'>>
          /\ step' = "close"
  /\ UNCHANGED <<graph, views, expanded, processed, window>>

\* Slip: the dependents of the seed are taken, not theirs.
close_hard_direct ==
  /\ step = "close"
  /\ selected' = selected \cup hard(seed)
  /\ step' = "grow" /\ queue' = <<>>
  /\ UNCHANGED <<graph, views, expanded, processed, seed, window>>
sorted(set) == CHOOSE s \in [1..Cardinality(set) -> set] : \A i, j \in DOMAIN s : i < j => s[i] < s[j]
\* One turn of the breadth-first loop: the dependents of the head join.
close_hard ==
  /\ step = "close"
  /\ IF queue = <<>>
     THEN step' = "grow" /\ UNCHANGED <<selected, queue>>
     ELSE LET new == hard(Head(queue)) \ selected IN
          /\ selected' = selected \cup new
          /\ queue' = Tail(queue) \o sorted(new)
          /\ UNCHANGED step
  /\ UNCHANGED <<graph, views, expanded, processed, seed, window>>

----------------------------------------------------------------------------
(* Soft growth, one scope a turn, within the budgets. *)
regions_of(set) == UNION {views[s] : s \in set}
fits(set) ==
  /\ Cardinality(set) <= MaxParallel
  /\ Cardinality(regions_of(set)) <= MaxActiveRegions
  /\ Cardinality(regions_of(set)) * Max({TopK - 1, 0}) <= MaxNonNoop * TopK
growth_key(s) == <<-graph.priority[s], -Cardinality(claims(s)), Cardinality(views[s]), s>>
soft_candidates == (UNION {soft(s) : s \in selected}) \ selected

grow_soft ==
  /\ step = "grow"
  /\ LET room == {t \in soft_candidates : fits(selected \cup {t})} IN
     IF room = {} THEN step' = "build" /\ UNCHANGED selected
     ELSE selected' = selected \cup {FirstBy(room, growth_key)} /\ UNCHANGED step
  /\ UNCHANGED <<graph, views, expanded, processed, seed, queue, window>>

----------------------------------------------------------------------------
(* Roles of the window's regions and bindings of its helpers. *)
\* Breadth-first search: what `start' grows to as joins[x] comes in with every x.
Spread(start, joins) ==
  LET R[n \in 0..Cardinality(DOMAIN joins)] ==
        IF n = 0 THEN start ELSE R[n-1] \cup UNION {joins[x] : x \in R[n-1]}
  IN R[Cardinality(DOMAIN joins)]
adjacency(edges) ==
  [r \in Regions |-> UNION {{e.u, e.v} : e \in {e \in edges : r \in {e.u, e.v}}}]
Reach(start, edges) == Spread(start, adjacency(edges))

\* Slip: every hard edge counts, whatever its evidence proves.
classify_window_region_roles_unproven(ids, frontier) ==
  LET decision == {r \in ids : graph.targets[r] \cap frontier # {}}
      crossing == {e \in graph.edges : e.hard /\ {e.u, e.v} \subseteq ids}
      helper == Reach(decision, crossing) \ decision
  IN [decision |-> decision, helper |-> helper, context |-> ids \ (decision \cup helper)]
classify_window_region_roles(ids, frontier) ==
  LET decision == {r \in ids : graph.targets[r] \cap frontier # {}}
      proven == {e \in graph.edges : e.hard /\ e.proof /\ {e.u, e.v} \subseteq ids}
      helper == Reach(decision, proven) \ decision
  IN [decision |-> decision, helper |-> helper, context |-> ids \ (decision \cup helper)]

\* The search of one helper stops at decision regions; it may leave the window.
assisted(helper, decisions) ==
  LET next == adjacency({e \in graph.edges : e.hard /\ e.proof})
  IN Spread({helper}, [r \in Regions |-> IF r \in decisions THEN {} ELSE next[r]]) \cap decisions
\* [helper |-> its assisted targets and whether it has a carrier], the bound ones only.
build_helper_assignments(helpers, decisions, frontier) ==
  LET targets(h) == (UNION {graph.targets[r] : r \in assisted(h, decisions)}) \cap frontier
  IN [h \in {h \in helpers : targets(h) # {}} |->
       [regions |-> assisted(h, decisions), targets |-> targets(h),
        status |-> IF h \in graph.barren THEN "UNSUPPORTED_WITH_EVIDENCE" ELSE "DEPENDENCY_ASSIST"]]

build_window ==
  /\ step = "build"
  /\ LET ids == regions_of(selected)
         frontier == UNION {claims(s) : s \in selected}
         roles == classify_window_region_roles(ids, frontier)
         bound == build_helper_assignments(roles.helper, roles.decision, frontier)
     IN window' = [frontier |-> frontier, regions |-> ids, decision |-> roles.decision,
                   helper |-> DOMAIN bound,
                   context |-> roles.context \cup (roles.helper \ DOMAIN bound),
                   assigned |-> roles.helper, assists |-> bound]
  /\ step' = "window"
  /\ UNCHANGED <<graph, views, expanded, processed, seed, selected, queue>>

----------------------------------------------------------------------------
(* The iteration around it: the attempted targets of the window leave the
   frontier and the next window is picked, while the budget of windows lasts. *)
restart(attempted) ==
  /\ processed' = processed \cup attempted
  /\ step' = "restrict"
  /\ expanded' = {r \in Regions : graph.targets[r] \cap graph.engineering # {}}
  /\ views' = graph.region_ids /\ seed' = 0 /\ selected' = {} /\ queue' = <<>>
  /\ window' = NoWindow
  /\ graph' = [graph EXCEPT !.windows = @ + 1]

next_window ==
  /\ step = "window" /\ graph.windows < MaxWindows
  /\ \E attempted \in (SUBSET window.frontier) \ {{}} : restart(attempted)

SelectionInit ==
  \E g \in Graphs, targets \in Engineering :
    /\ graph = [edges |-> g.edges, targets |-> g.targets, frontier |-> g.frontier,
                region_ids |-> g.region_ids, whole |-> g.whole, barren |-> g.barren,
                boundary |-> g.boundary, solver |-> g.solver, priority |-> g.priority,
                engineering |-> targets, windows |-> 1]
    /\ views = g.region_ids
    /\ expanded = {r \in Regions : g.targets[r] \cap targets # {}}
    /\ processed = {} /\ step = "restrict"
    /\ seed = 0 /\ selected = {} /\ queue = <<>> /\ window = NoWindow
SelectionIdle ==
  /\ graph = <<>> /\ views = <<>> /\ expanded = {} /\ processed = {} /\ step = "idle"
  /\ seed = 0 /\ selected = {} /\ queue = <<>> /\ window = NoWindow
SelectionNext == \/ engineering_scope_views \/ pick_seed \/ close_hard
                 \/ grow_soft \/ build_window \/ next_window
SelectionSpec == SelectionInit /\ [][SelectionNext]_selectionVars

----------------------------------------------------------------------------
\* What the seed reaches inside `within', by the given neighbours.
Linked(within, near(_)) == Spread({seed}, [s \in within |-> near(s) \cap within])

(* "Select one dependency-connected window": whatever the seed drags along by
   hard dependencies, of any length, is in the window, and nothing is in it
   that dependencies do not tie to the seed. *)
WindowIsConnected ==
  step = "window" =>
    /\ Linked(Scopes, hard) \subseteq selected
    /\ LET near(s) == hard(s) \cup soft(s) IN Linked(selected, near) = selected

(* SubgraphPlanner.plan refuses a window whose decision, helper and context
   regions do not partition it (REGION_ROLE_PARTITION_INVALID) and raises on a
   helper without a binding: every helper that classification finds is bound
   to a target some decision region has now, over the same evidence. *)
HelpersAreBound ==
  step = "window" =>
    /\ window.helper = window.assigned
    /\ \A h \in window.helper :
          /\ window.assists[h].targets # {}
          /\ window.assists[h].regions # {}
          /\ window.assists[h].regions \subseteq window.decision

(* A window is never empty of work and never claims what an earlier window of
   the iteration attempted: its frontier is all that is pending in its regions,
   so no target of a chosen scope is left for a second window. *)
FrontierIsPending ==
  step = "window" =>
    /\ window.frontier # {}
    /\ window.frontier = (UNION {graph.targets[r] : r \in window.regions}) \cap pending

(* "Preserve the original graph and every hard/boundary/hierarchical scope":
   what the restriction keeps is closed, so no hard edge of a scope is cut and
   no hierarchical scope is cropped. *)
RestrictionKeepsHardScopes ==
  (step = "seed" /\ graph.engineering # {}) =>
    LET kept == UNION {views[s] : s \in Scopes}
        inScope == UNION {graph.region_ids[s] : s \in Scopes}
    IN /\ \A e \in graph.edges : e.hard /\ {e.u, e.v} \cap kept # {}
                                  => {e.u, e.v} \cap inScope \subseteq kept
       /\ \A s \in graph.whole : views[s] \in {{}, graph.region_ids[s]}

(* The window that is planned, coordinated and verified together. *)
WindowIsSound == WindowIsConnected /\ HelpersAreBound /\ FrontierIsPending /\ RestrictionKeepsHardScopes
=============================================================================
