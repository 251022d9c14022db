-------------------------- MODULE RepairTrajectory --------------------------
(* FormalProductionTrajectoryEngine.plan: how one region's symbolic repair plan
   is obtained from the LLM, bound to the current scenes, revised after
   execution feedback, and turned by trajectory searches and condensation into
   verified candidates.

   What the compiled kernels decide is arbitrary here: which sets of degrees of
   freedom (DOFs) have an executable root proposal is a fact of the world fixed
   at the start, the outcome of a search or of a condensation is chosen when it
   ends, and every answer of the LLM is some plan of Plans or a failure.        *)
EXTENDS Integers, FiniteSets, SequencesExt

CONSTANTS
  Violations,      \* the violations of the region
  RegionOrder,     \* the same, in the order of region_violations
  Dofs,            \* the DOFs of its scenes
  SceneOf,         \* [Dofs -> Violations]: the scene (one per violation) of a DOF
  Worlds,          \* what may be true of the region (see WorldType)
  Plans,           \* what the LLM may answer
  MaxOps,          \* the schema's bound on max_operation_count (4 in the code)
  MaxDepth,        \* max_trajectory_depth of the configuration
  MaxCandidates,   \* max_candidates of the engine
  LiveBudget       \* max_kernel_live_calls_per_region

(* A root proposal has an id, moves some DOFs and needs a number of atomic
   operations.                                                                 *)
OptionType == [id : Nat, dofs : (SUBSET Dofs) \ {{}}, need : 1..MaxOps]

WorldType ==
  [llm       : BOOLEAN,              \* a client is configured
   supported : SUBSET Violations,    \* violations of a supported report
   scenes    : SUBSET Violations,    \* those whose scene could be built
   broken    : SUBSET Violations,    \* those whose proposal builder raises
   messages  : BOOLEAN,              \* round-two messages arrived
   spacing   : BOOLEAN,              \* the scenes are of the SPACING family
   options   : Seq(OptionType)]      \* the executable proposals, in order

(* Witnesses, relation, participants and strategy are one field: do they belong
   to the selected scenes?  "other" stands for the fields a physical revision
   may change.                                                                 *)
PlanType ==
  [id : Nat, targets : Seq(Violations), refs : BOOLEAN, other : Nat,
   preferred : SUBSET Dofs, forbidden : SUBSET Dofs,
   ops : 1..MaxOps, depth : Nat]

Region == "region"    \* a failure that names no violation

ASSUME TrajectoryAssumption ==
  /\ SceneOf \in [Dofs -> Violations]
  /\ RegionOrder \in Seq(Violations) /\ ToSet(RegionOrder) = Violations
  /\ \A i, j \in DOMAIN RegionOrder : RegionOrder[i] = RegionOrder[j] => i = j
  /\ Region \notin Violations
  /\ MaxOps \in Nat \ {0} /\ MaxDepth \in Nat \ {0}
  /\ MaxCandidates \in Nat \ {0} /\ LiveBudget \in Nat
  /\ Plans \subseteq PlanType /\ Worlds \subseteq WorldType
  /\ \A w \in Worlds : \A i, j \in DOMAIN w.options :
       w.options[i].id = w.options[j].id => i = j

VARIABLES
  world,       \* facts of this region
  pc,          \* where the coroutine is
  plan,        \* the current symbolic plan
  answers,     \* len(plans): the plans received so far
  bound,       \* bound_plan
  cache,       \* root_cache: proposals per violation, as last built
  queue,       \* the selected violations still to be visited, head first
  todo,        \* the proposals the inner loop still has to visit
  current,     \* the proposal being searched or condensed
  retry,       \* execution_retry_performed
  feedback,    \* the feedback a revision is being asked for
  counts,      \* execution_revision_counts
  live,        \* live evaluations claimed
  candidates,  \* the candidates, in order
  failures,    \* the failures <<code, violation>>; searches and condensations that
               \* did not succeed or raised share a code
  searches,    \* history: the searches started, with plan, revision and directory
  started,     \* history: their number
  alarm        \* history: an infrastructure or integrity failure was raised

vars == <<world, pc, plan, answers, bound, cache, queue, todo, current, retry,
          feedback, counts, live, candidates, failures, searches, started, alarm>>

NoPlan == [id |-> 0, targets |-> <<>>, refs |-> FALSE, other |-> 0,
           preferred |-> {}, forbidden |-> {}, ops |-> 1, depth |-> 0]
NoProposal == [id |-> 0, dofs |-> {}, need |-> 1]
NoFeedback == [kind |-> "none", sets |-> {}]
-----------------------------------------------------------------------------
(* plan_binding.py *)

(* The elements of s that are in S, in order: SelectSeq, as a recursive function. *)
Among(s, S) ==
  LET upto[i \in 0..Len(s)] ==
        IF i = 0 THEN <<>>
        ELSE IF s[i] \in S THEN Append(upto[i - 1], s[i]) ELSE upto[i - 1]
  IN  upto[Len(s)]

DofsOf(V) == {d \in Dofs : SceneOf[d] \in V}
Selected(p) == ToSet(p.targets)
InOrder(V) == Among(RegionOrder, V)

(* Slip: preferred DOFs win over forbidden ones. *)
AllowedDofs_unfiltered(p) ==
  IF world.spacing /\ p.preferred # {} THEN p.preferred ELSE DofsOf(Selected(p))

(* bind_kernel_plan: the DOFs the binding leaves to the search.  In the SPACING
   family the preferred DOFs are a hard filter, elsewhere only an order.       *)
AllowedDofs(p) ==
  LET selected == DofsOf(Selected(p)) IN
  (IF world.spacing /\ p.preferred # {} THEN p.preferred ELSE selected)
    \ p.forbidden

(* The plan binds when it asks for targets that are supported and have a scene,
   refers to nothing outside their scenes, and leaves some DOF to search.      *)
Binds(p) ==
  /\ p.targets # <<>>
  /\ Selected(p) \subseteq world.supported \cap world.scenes
  /\ p.refs
  /\ p.preferred \cup p.forbidden \subseteq DofsOf(Selected(p))
  /\ p.preferred \cap p.forbidden = {}
  /\ DofsOf(Selected(p)) # {} => AllowedDofs(p) # {}

BoundKernelPlan(p) ==
  [id |-> p.id, targets |-> p.targets, allowed |-> AllowedDofs(p),
   forbidden |-> p.forbidden, ops |-> p.ops, other |-> p.other,
   depth |-> IF p.depth < MaxDepth THEN p.depth ELSE MaxDepth]

(* Slip: a physical revision may change the forbidden DOFs. *)
Immutable_physical_open(kind) ==
  CASE kind = "PREFERRED_DOF_INFEASIBLE"    -> {"targets", "refs", "other", "depth"}
    [] kind = "DEPTH_EXTENSION_AVAILABLE"   ->
         {"targets", "refs", "other", "preferred", "forbidden", "ops"}
    [] kind = "PHYSICAL_CONSTRAINT_FAILURE" -> {"targets", "depth"}

(* validate_execution_feedback_revision: the fields each kind of feedback may
   not touch, then the proof each permitted change needs.                      *)
Immutable(kind) ==
  CASE kind = "PREFERRED_DOF_INFEASIBLE"    -> {"targets", "refs", "other", "depth"}
    [] kind = "DEPTH_EXTENSION_AVAILABLE"   ->
         {"targets", "refs", "other", "preferred", "forbidden", "ops"}
    [] kind = "PHYSICAL_CONSTRAINT_FAILURE" -> {"targets", "forbidden", "depth"}

InScope(kind, old, new) == \A f \in Immutable(kind) : old[f] = new[f]

(* The alternatives a revision still leaves open, and the operations they need. *)
Viable(new, alternatives) ==
  IF new.preferred # {}
  THEN {o \in alternatives : o.dofs = new.preferred}
  ELSE {o \in alternatives : o.dofs \cap new.forbidden = {}}

ProvedOps(S) == CHOOSE n \in {o.need : o \in S} : \A o \in S : n <= o.need

PreferredProved(old, new, alternatives) ==
  LET proved == UNION {o.dofs : o \in alternatives}
      viable == Viable(new, alternatives) IN
  /\ new.forbidden \subseteq old.forbidden
  /\ old.forbidden \ new.forbidden \subseteq proved
  /\ viable # {}
  /\ IF new.ops # old.ops
     THEN old.ops < ProvedOps(viable) /\ new.ops = ProvedOps(viable)
     ELSE new.ops >= ProvedOps(viable)

Unchanged(kind, old, new) ==
  CASE kind = "PREFERRED_DOF_INFEASIBLE" ->
         <<old.preferred, old.forbidden, old.ops>> = <<new.preferred, new.forbidden, new.ops>>
    [] kind = "PHYSICAL_CONSTRAINT_FAILURE" ->
         <<old.preferred, old.other, old.ops>> = <<new.preferred, new.other, new.ops>>
    [] kind = "DEPTH_EXTENSION_AVAILABLE" -> old.depth = new.depth

Permitted(kind, old, new, alternatives) ==
  /\ InScope(kind, old, new)
  /\ kind = "PREFERRED_DOF_INFEASIBLE" => PreferredProved(old, new, alternatives)
  /\ kind = "DEPTH_EXTENSION_AVAILABLE" => new.depth \in old.depth..MaxDepth
  /\ Unchanged(kind, old, new) \/ new.id # old.id

validate_execution_feedback_revision(fb, old, new) ==
  IF ~Permitted(fb.kind, old, new, fb.sets) THEN "ERROR"
  ELSE IF Unchanged(fb.kind, old, new) THEN "DECLINED" ELSE "ACCEPTED"
-----------------------------------------------------------------------------
(* build_root_proposals: the executable options within the bound plan. *)
Fits(o, v, b) ==
  o.dofs \subseteq b.allowed \cap DofsOf({v}) /\ o.need <= b.ops

Roots(v, b) ==
  IF v \in world.broken THEN <<>>
  ELSE Among(world.options, {o \in ToSet(world.options) : Fits(o, v, b)})

RootCache(b) == [v \in Violations |-> Roots(v, b)]

(* The counterfactual probe of a target whose strict plan has no proposal: all
   DOFs of its scene, then all operations too; the alternatives it proves.     *)
Probe(v, b, ops) ==
  ToSet(Roots(v, [b EXCEPT !.allowed = DofsOf({v}), !.forbidden = {}, !.ops = ops]))

Alternatives(v, p, b) ==
  IF Probe(v, b, p.ops) # {}
  THEN {o \in Probe(v, b, p.ops) : ~(o.dofs \subseteq b.allowed)}
  ELSE IF p.ops < MaxOps THEN Probe(v, b, MaxOps) ELSE {}

(* The targets with no strict proposal although an alternative exists. *)
Infeasible(p, b, c) ==
  InOrder({v \in Selected(p) : /\ v \notin world.broken
                               /\ c[v] = <<>>
                               /\ Alternatives(v, p, b) # {}})
-----------------------------------------------------------------------------
(* prepare_region_inputs: a supported violation without a scene is a failure. *)
Init ==
  /\ world \in Worlds
  /\ pc = "symbolic"
  /\ plan = NoPlan /\ bound = BoundKernelPlan(NoPlan)
  /\ answers = 0
  /\ cache = [v \in Violations |-> <<>>]
  /\ queue = <<>> /\ todo = <<>> /\ current = NoProposal
  /\ retry = FALSE /\ feedback = NoFeedback
  /\ counts = [v \in Violations |-> [k \in {"PHYSICAL_CONSTRAINT_FAILURE",
                                            "DEPTH_EXTENSION_AVAILABLE"} |-> 0]]
  /\ live = 0
  /\ candidates = <<>>
  /\ failures = {<<"FORMAL_PHASE3_CONTEXT_FAIL", v>> :
                    v \in world.supported \ world.scenes}
  /\ searches = {} /\ started = 0 /\ alarm = FALSE

search_state == <<queue, todo, current, retry, counts, live, candidates, searches, started>>
plan_state == <<plan, answers, bound, cache, feedback>>

(* The coroutine returns a KernelRegionResult, or raises.  The actions leave
   world alone, and alarm where they do not mention it (see Next).             *)
Return(code) ==
  /\ pc' = "returned"
  /\ failures' = failures \cup {<<code, Region>>}
  /\ candidates' = <<>>
  /\ UNCHANGED <<queue, todo, current, retry, counts, live, searches, started>>

Raise ==
  /\ pc' = "raised"
  /\ UNCHANGED <<plan_state, search_state, failures>>

(* SymbolicKernelPlanner.deterministic_default: the first scene's DOFs. *)
deterministic_default(p) ==
  /\ p.refs /\ p.ops = MaxOps /\ p.forbidden = {} /\ p.other = 0
  /\ p.id = 1

Ask(p) == plan' = p /\ answers' = answers + 1

(* plan_symbolic; an ill-formed structured answer is PLAN_SCHEMA_REJECTED. *)
PlanSymbolic ==
  /\ pc = "symbolic"
  /\ \/ \E p \in Plans :
          /\ world.llm \/ deterministic_default(p)
          /\ Ask(p) /\ pc' = "finalize"
          /\ UNCHANGED <<bound, cache, feedback, search_state, failures>>
     \/ world.llm /\ Return("PLAN_SCHEMA_REJECTED") /\ UNCHANGED plan_state

(* Slip: finalize is called again as long as the plan changes. *)
Finalize_repeats ==
  /\ pc = "finalize"
  /\ IF world.messages /\ world.llm
     THEN \/ \E p \in Plans :
               /\ plan' = p /\ pc' = IF p = plan THEN "bind" ELSE "finalize"
               /\ UNCHANGED <<answers, bound, cache, feedback, search_state, failures>>
          \/ Return("PLAN_SCHEMA_REJECTED") /\ UNCHANGED plan_state
     ELSE /\ pc' = "bind"
          /\ UNCHANGED <<plan_state, search_state, failures>>

(* finalize: one more call when round-two messages arrived; its plan replaces
   the provisional one and is the first of plans.                              *)
Finalize ==
  /\ pc = "finalize"
  /\ IF world.messages /\ world.llm
     THEN \/ \E p \in Plans :
               /\ plan' = p /\ pc' = "bind"
               /\ UNCHANGED <<answers, bound, cache, feedback, search_state, failures>>
          \/ Return("PLAN_SCHEMA_REJECTED") /\ UNCHANGED plan_state
     ELSE /\ pc' = "bind"
          /\ UNCHANGED <<plan_state, search_state, failures>>

Adopt(p) ==
  /\ bound' = BoundKernelPlan(p)
  /\ cache' = RootCache(BoundKernelPlan(p))

(* The first binding, and the one revision an unbindable plan is given. *)
Bind ==
  /\ pc = "bind"
  /\ IF Binds(plan)
     THEN /\ Adopt(plan) /\ pc' = "preferred"
          /\ queue' = InOrder(Selected(plan))
          /\ UNCHANGED <<plan, answers, feedback, todo, current, retry, counts, live,
                         candidates, searches, started, failures>>
     ELSE IF world.llm
     THEN pc' = "rebind" /\ UNCHANGED <<plan_state, search_state, failures>>
     ELSE Return("LLM_PLAN_UNBINDABLE") /\ UNCHANGED plan_state

Rebind ==
  /\ pc = "rebind"
  /\ \/ \E p \in Plans :
          /\ Ask(p) /\ Binds(p)
          /\ Adopt(p) /\ pc' = "preferred"
          /\ queue' = InOrder(Selected(p))
          /\ UNCHANGED <<feedback, todo, current, retry, counts, live, candidates,
                         searches, started, failures>>
     \/ \E p \in Plans :
          /\ Ask(p) /\ ~Binds(p)
          /\ Return("LLM_PLAN_UNBINDABLE")
          /\ UNCHANGED <<bound, cache, feedback>>
     \/ Return("PLAN_SCHEMA_REJECTED") /\ UNCHANGED plan_state
-----------------------------------------------------------------------------
(* The feedback before any search: the first target whose preferred or
   forbidden DOFs leave nothing executable although an alternative is.         *)
PreferredFeedback ==
  /\ pc = "preferred"
  /\ LET open == Infeasible(plan, bound, cache) IN
     IF plan.preferred \cup plan.forbidden # {} /\ open # <<>> /\ world.llm
     THEN /\ feedback' = [kind |-> "PREFERRED_DOF_INFEASIBLE",
                          sets |-> Alternatives(Head(open), plan, bound)]
          /\ pc' = "revise preferred"
     ELSE pc' = "target" /\ UNCHANGED feedback
  /\ UNCHANGED <<plan, answers, bound, cache, search_state, failures>>

(* A revision the validator refuses, or one that changes nothing, ends the
   region; an accepted one rebuilds every violation's proposals.               *)
RevisePreferred ==
  /\ pc = "revise preferred"
  /\ \/ \E p \in Plans :
          LET decision == validate_execution_feedback_revision(feedback, plan, p) IN
          \/ /\ decision = "ACCEPTED" /\ Binds(p)
             /\ Ask(p) /\ Adopt(p)
             /\ pc' = "target" /\ feedback' = NoFeedback
             /\ UNCHANGED <<search_state, failures>>
          \/ /\ decision # "ACCEPTED" \/ ~Binds(p)
             /\ Return("INVALID_EXECUTION_REVISION")
             /\ UNCHANGED <<plan, bound, cache, feedback>> /\ answers' = answers + 1
     \/ Return("PLAN_SCHEMA_REJECTED") /\ UNCHANGED plan_state

Fail(code) == failures' = failures \cup {<<code, Head(queue)>>}

(* Slip: leaving the inner loop leaves the outer one. *)
NextTarget_last(stop) ==
  /\ queue' = <<>> /\ todo' = <<>> /\ current' = NoProposal /\ retry' = FALSE
  /\ pc' = "target"

(* Leaving the inner loop: the next violation, unless the search is deferred or
   there are enough candidates.                                                *)
NextTarget(stop) ==
  /\ queue' = IF stop THEN <<>> ELSE Tail(queue)
  /\ todo' = <<>> /\ current' = NoProposal /\ retry' = FALSE
  /\ pc' = "target"

GiveUp(code) ==
  /\ Fail(code)
  /\ NextTarget(Len(candidates) >= MaxCandidates)
  /\ UNCHANGED <<candidates, searches, started>>

(* continue of the inner loop: the next of the proposals it was entered with. *)
NextProposal(code) ==
  IF Len(todo) > 1
  THEN /\ Fail(code)
       /\ todo' = Tail(todo) /\ current' = NoProposal /\ retry' = FALSE
       /\ pc' = "proposal"
       /\ UNCHANGED <<queue, candidates, searches, started>>
  ELSE GiveUp(code)

(* The outer loop: violations whose builder raised or found nothing. *)
Target ==
  /\ pc = "target" /\ queue # <<>>
  /\ LET v == Head(queue) IN
     \/ /\ v \in world.broken
        /\ Fail("FORMAL_TRAJECTORY_EXECUTION_FAIL")
        /\ queue' = Tail(queue) /\ UNCHANGED <<pc, todo>>
     \/ /\ v \notin world.broken /\ cache[v] = <<>>
        /\ Fail("ROOT_PROPOSAL_UNAVAILABLE")
        /\ queue' = Tail(queue) /\ UNCHANGED <<pc, todo>>
     \/ /\ v \notin world.broken /\ cache[v] # <<>>
        /\ todo' = cache[v] /\ pc' = "proposal"
        /\ UNCHANGED <<queue, failures>>
  /\ UNCHANGED <<plan_state, current, retry, counts, live, candidates, searches, started>>

(* Slip: the first revision is not counted. *)
plan_revision_late(n) == IF n > 2 THEN n - 2 ELSE 0

(* _persist_root_registration and the search under it: search_00 for a proposal
   of the loop, search_01 for the one a revision rebuilt; plan_revision counts
   the plans received, refused ones included.                                  *)
plan_revision(n) == IF n > 1 THEN n - 1 ELSE 0

(* Slip: the search after a revision writes into search_00 as well. *)
StartSearch_one_dir(o, b, n, dir) ==
  /\ searches' = searches \cup {[v |-> Head(queue), id |-> o.id, dofs |-> o.dofs, plan |-> b,
                                 revision |-> IF n > 1 THEN n - 1 ELSE 0, dir |-> 0]}
  /\ started' = started + 1
  /\ current' = o
  /\ pc' = "search"

StartSearch(o, b, n, dir) ==
  /\ searches' = searches \cup {[v |-> Head(queue), id |-> o.id, dofs |-> o.dofs, plan |-> b,
                                 revision |-> plan_revision(n), dir |-> dir]}
  /\ started' = started + 1
  /\ current' = o
  /\ pc' = "search"

Proposal ==
  /\ pc = "proposal"
  /\ StartSearch(Head(todo), bound, answers, 0)
  /\ UNCHANGED <<plan_state, queue, todo, retry, counts, live, candidates, failures>>

Consume == live' \in live..(IF live < LiveBudget THEN live + 1 ELSE live)

(* The search reaches a strictly clean layout: on to condensation.  Feedback is
   only read after the first search of a proposal.                             *)
SearchClean ==
  /\ pc = "search"
  /\ Consume /\ pc' = "condense"
  /\ UNCHANGED <<plan_state, queue, todo, current, retry, counts, candidates,
                 searches, started, failures>>

(* It ends without one, or raises a KeyError, ValueError or RuntimeError: the
   next proposal, but none after a retry.                                      *)
SearchFails ==
  /\ pc = "search" /\ Consume
  /\ IF retry THEN GiveUp("TRAJECTORY_FAIL") ELSE NextProposal("TRAJECTORY_FAIL")
  /\ UNCHANGED <<plan_state, counts>>

revision_limit(kind) == IF kind = "PHYSICAL_CONSTRAINT_FAILURE" THEN 2 ELSE 1

(* It returns feedback a revision may answer, a bounded number of times. *)
SearchFeedback ==
  /\ pc = "search" /\ ~retry /\ Consume
  /\ \E kind \in {"PHYSICAL_CONSTRAINT_FAILURE", "DEPTH_EXTENSION_AVAILABLE"} :
       IF counts[Head(queue)][kind] >= revision_limit(kind) \/ ~world.llm
       THEN GiveUp("REVISION_LIMIT_REACHED") /\ UNCHANGED <<feedback, counts>>
       ELSE /\ counts' = [counts EXCEPT ![Head(queue)][kind] = @ + 1]
            /\ feedback' = [kind |-> kind, sets |-> {}]
            /\ pc' = "revise"
            /\ UNCHANGED <<queue, todo, current, retry, candidates, searches,
                           started, failures>>
  /\ UNCHANGED <<plan, answers, bound, cache>>

(* An accepted revision becomes the plan and rebuilds the proposals of this
   violation only; the first of them is searched again.  The other violations,
   and the rest of this loop, keep the proposals of the earlier plan.          *)
ReviseAccepted ==
  /\ pc = "revise"
  /\ \E p \in Plans :
       LET fresh == BoundKernelPlan(p)
           rebuilt == Roots(Head(queue), fresh) IN
       /\ validate_execution_feedback_revision(feedback, plan, p) = "ACCEPTED"
       /\ Binds(p)
       /\ Ask(p)
       /\ bound' = fresh
       /\ cache' = [cache EXCEPT ![Head(queue)] = rebuilt]
       /\ IF rebuilt = <<>>
          THEN GiveUp("ROOT_PROPOSAL_UNAVAILABLE_AFTER_REVISION")
          ELSE /\ StartSearch(rebuilt[1], fresh, answers + 1, 1)
               /\ retry' = TRUE
               /\ UNCHANGED <<queue, todo, candidates, failures>>
  /\ feedback' = NoFeedback
  /\ UNCHANGED <<counts, live>>

(* A refused or unchanged revision, or no well-formed one, ends the violation;
   plans has grown all the same when there was one.                            *)
ReviseRefused ==
  /\ pc = "revise"
  /\ \/ \E p \in Plans :
          LET decision == validate_execution_feedback_revision(feedback, plan, p) IN
          /\ \/ decision = "DECLINED" /\ GiveUp("REVISION_DECLINED")
             \/ decision = "ERROR" /\ GiveUp("INVALID_EXECUTION_REVISION")
             \/ /\ decision = "ACCEPTED" /\ ~Binds(p)
                /\ GiveUp("INVALID_EXECUTION_REVISION")
          /\ answers' = answers + 1
     \/ GiveUp("PLAN_SCHEMA_REJECTED") /\ UNCHANGED answers
  /\ feedback' = NoFeedback
  /\ UNCHANGED <<plan, bound, cache, counts, live>>

(* The condensation claims its live evaluation first; without one it fails like
   any other failed condensation, and the loop goes on.                        *)
CondenseFails ==
  /\ pc = "condense"
  /\ Consume
  /\ NextProposal("TRAJECTORY_FAIL")
  /\ UNCHANGED <<plan_state, counts>>

(* A condensed trajectory is a candidate, with reusable evidence only when the
   record names deck, evaluator and connectivity reference.                    *)
CondensePasses ==
  /\ pc = "condense"
  /\ live < LiveBudget /\ live' = live + 1
  /\ \E complete \in BOOLEAN :
       candidates' = Append(candidates,
         [v |-> Head(queue), dofs |-> current.dofs, evidence |-> complete])
  /\ NextTarget(Len(candidates') >= MaxCandidates)
  /\ UNCHANGED <<plan_state, counts, searches, started, failures>>

(* _reserved_verification_stop: the validation ledger keeps what required
   verification needs; no search after this one.                               *)
ReservedStop ==
  /\ pc \in {"search", "condense"}
  /\ Fail("DEFERRED_BUDGET")
  /\ NextTarget(TRUE)
  /\ UNCHANGED <<plan_state, counts, live, candidates, searches, started>>

(* The end of plan().  Each violation has at most one candidate, on DOFs of its
   own scene: there is nothing for deduplicate_candidates to merge.            *)
Finish ==
  /\ pc = "target" /\ queue = <<>>
  /\ failures' = IF candidates = <<>> /\ ~\E f \in failures : f[1] = "DEFERRED_BUDGET"
                 THEN failures \cup {<<"KERNEL_NO_CANDIDATE", Region>>}
                 ELSE failures
  /\ pc' = "returned"
  /\ UNCHANGED <<plan_state, search_state>>
-----------------------------------------------------------------------------
(* Failures of the provider, of the EDA infrastructure or of an artifact's
   integrity.  InfrastructureFailure and IntegrityFailure are RuntimeErrors:
   where a handler of RuntimeError comes first, it takes them.                 *)
ProviderFails ==
  /\ world.llm
  /\ pc \in {"symbolic", "rebind"} \/ (pc = "finalize" /\ world.messages)
  /\ Raise

ProviderFailsRevising ==
  \/ /\ pc = "revise preferred"
     /\ Return("INVALID_EXECUTION_REVISION") /\ UNCHANGED plan_state
  \/ /\ pc = "revise"
     /\ GiveUp("INVALID_EXECUTION_REVISION")
     /\ feedback' = NoFeedback
     /\ UNCHANGED <<plan, answers, bound, cache, counts, live>>

EdaFails == pc \in {"search", "condense"} /\ Raise

IntegrityFails ==
  \/ /\ pc = "search"
     /\ IF retry THEN GiveUp("TRAJECTORY_FAIL") ELSE NextProposal("TRAJECTORY_FAIL")
     /\ UNCHANGED <<plan_state, counts, live>>
  \/ /\ pc = "condense"
     /\ NextProposal("TRAJECTORY_FAIL")
     /\ UNCHANGED <<plan_state, counts, live>>

Alarms == ProviderFails \/ ProviderFailsRevising \/ EdaFails \/ IntegrityFails

(* The task is cancelled at one of its awaits. *)
Cancel ==
  /\ pc \in {"symbolic", "finalize", "rebind", "revise preferred", "revise",
             "search", "condense"}
  /\ Raise

Work ==
  \/ PlanSymbolic \/ Finalize \/ Bind \/ Rebind
  \/ PreferredFeedback \/ RevisePreferred
  \/ Target \/ Proposal
  \/ SearchClean \/ SearchFails \/ SearchFeedback
  \/ ReviseAccepted \/ ReviseRefused
  \/ CondenseFails \/ CondensePasses \/ ReservedStop
  \/ Finish

Next ==
  /\ \/ (Work \/ Cancel) /\ UNCHANGED alarm
     \/ Alarms /\ alarm' = TRUE
  /\ UNCHANGED world

Spec == Init /\ [][Next]_vars

(* The coroutine is always scheduled again and what it awaits ends: searches and
   LLM calls have deadlines.                                                   *)
FairSpec == Spec /\ WF_vars(Next)
-----------------------------------------------------------------------------
(* "Validate the one-field authority granted by execution feedback": whatever
   the LLM answers, a revision keeps the targets, adds no forbidden DOF, frees
   one only before the searches and only when an executable alternative uses
   it, and the depth only grows, up to the configured bound; and the revision
   that answers infeasible preferred DOFs leaves one of the alternatives it was
   shown within the DOFs and the operations of the new binding
   (validate_execution_feedback_revision with bind_kernel_plan).               *)
RevisionKeepsAuthority ==
  pc \in {"revise preferred", "revise"} /\ bound' # bound =>
    /\ bound'.targets = bound.targets
    /\ bound'.forbidden \subseteq bound.forbidden
    /\ pc = "revise" => bound'.forbidden = bound.forbidden
    /\ bound.forbidden \ bound'.forbidden \subseteq
         UNION {o.dofs : o \in ToSet(world.options)}
    /\ pc = "revise preferred" =>
         \E o \in feedback.sets : o.dofs \subseteq bound'.allowed /\ o.need <= bound'.ops
    /\ bound'.depth \in bound.depth..MaxDepth
RevisionsStayAuthorized == [][RevisionKeepsAuthority]_vars

(* No search moves a DOF that the plan it runs under forbids, although after a
   revision the loop goes on with proposals of the earlier plan
   (forbidden_dof_ids "are immutable hard constraints").                       *)
ForbiddenRespected ==
  \A s \in searches : s.dofs \cap s.plan.forbidden = {}

(* A revision number recorded with a search identifies one plan: two searches of
   the region with the same plan_revision ran under the same bound plan.       *)
RevisionNamesOnePlan ==
  \A s, t \in searches : s.revision = t.revision => s.plan = t.plan

(* The directory of a search (_proposal_evidence_dir, search_00 and search_01)
   is named after the plan's id, which the LLM chooses and which only has to
   differ from the one it revises.  So a directory can serve two searches, but
   only those after two revisions with another one in between: the ids went
   A, B, A.  The search of a proposal of the loop has its directory to itself,
   although the search after a revision may take a proposal visited later.     *)
Directory(s) == <<s.plan.id, s.v, s.id, s.dir>>
SharedOnlyByAlternation ==
  /\ Cardinality(searches) = started
  /\ \A s, t \in searches :
       s # t /\ Directory(s) = Directory(t) =>
         /\ s.dir = 1
         /\ s.revision + 1 < t.revision \/ t.revision + 1 < s.revision

(* What the searches of a region record about each other can be trusted.       *)
SearchesAreLawful ==
  ForbiddenRespected /\ RevisionNamesOnePlan /\ SharedOnlyByAlternation

(* Every selected violation of a region that returns is explained: it has a
   candidate or a failure of its own, or the search stopped before it because
   the budget was reserved or enough candidates were found.                    *)
RegionFailed == \E f \in failures : f[2] = Region /\ f[1] # "KERNEL_NO_CANDIDATE"
Explained(v) ==
  \/ \E i \in 1..Len(candidates) : candidates[i].v = v
  \/ \E f \in failures : f[2] = v
  \/ \E f \in failures : f[1] = "DEFERRED_BUDGET"
  \/ Len(candidates) = MaxCandidates
EveryTargetExplained ==
  pc = "returned" =>
    IF RegionFailed THEN candidates = <<>>
    ELSE \A v \in Selected(plan) : Explained(v)

(* The region ends: neither revisions nor rebuilt proposals keep the loops of
   plan() going for ever.                                                      *)
RegionEnds == <>(pc \in {"returned", "raised"})

(* "model/planning degradation handlers must never catch infrastructure
   failures", and integrity failures "must ... reach the runtime stop boundary"
   (reliability/errors.py): a region that met one raises.                      *)
FailuresReachRuntime == alarm => pc = "raised"
=============================================================================
