------------------------- MODULE WindowPlanningProofs -------------------------
(* What concurrent plans of a window may leave behind, what they may claim to
   have attempted and what they are charged, for any number of subgraphs, regions
   and EDA slots.                                                              *)
EXTENDS WindowPlanning, FiniteSetTheorems, WellFoundedInduction, TLAPS

-----------------------------------------------------------------------------
(* The inductive invariants. *)

Tasks == {"idle", "llm", "waiting", "eda", "grace", "done", "alarm", "cancelled"}
Plans == {"start", "gather", "drain", "drain cancelled", "leaving"} \cup Ended

Typed ==
  /\ pc \in [Subgraphs -> Plans] /\ stage \in [Subgraphs -> {"prepare", "execute"}]
  /\ task \in [Regions -> Tasks] /\ cancels \in [Regions -> 0..2]
  /\ attempted \in [Subgraphs -> SUBSET Violations]
  /\ mark \in [Subgraphs -> SUBSET events]

(* Where the worker and the slot of a region can be. *)
Holding(r) ==
  /\ task[r] \in {"idle", "llm", "waiting", "done"} =>
       r \notin thread /\ r \notin slots /\ cancels[r] = 0
  /\ task[r] = "eda" => r \in slots /\ cancels[r] = 0
  /\ task[r] = "grace" => r \in slots /\ cancels[r] = 1
  /\ task[r] = "alarm" => r \notin thread
  /\ task[r] = "cancelled" => r \notin thread \/ cancels[r] = 2
  /\ r \in Context => task[r] \in {"idle", "cancelled"}

WorkInv == thread \subseteq Regions /\ (\A r \in Regions : Holding(r)) /\ EndedPlansAreAtRest

(* What the shared audit log holds of this window, and where a plan reads it
   from.                                                                       *)
Lawful(e) ==
  \/ e.window = 0
  \/ /\ e.window = 1 /\ e.region \in Regions \ Context
     /\ e.kind = "bound" =>
          e.targets \subseteq ViolationsOf[e.region] \cup planning_targets(e.region)

AuditInv ==
  /\ \A e \in events : Lawful(e)
  /\ \A p \in Subgraphs : pc[p] = "gather" => \A e \in events : e.window = 0 => e \in mark[p]
  /\ AttemptedIsOwnWork

-----------------------------------------------------------------------------
(* Types and helpers. *)

LEMMA LeastNumber ==
  ASSUME NEW S \in SUBSET Nat, S # {}
  PROVE  \E x \in S : \A y \in S : x <= y
<1>1. PICK x \in S : \A y \in S : ~(<<y, x>> \in OpToRel(<, Nat))
  BY NatLessThanWellFounded, WFMin
<1>2. ASSUME NEW y \in S PROVE x <= y
  <2>1. ~(<<y, x>> \in OpToRel(<, Nat))
    BY <1>1
  <2>2. OpToRel(<, Nat) = {ss \in Nat \X Nat : ss[1] < ss[2]}
    BY DEF OpToRel
  <2>3. ~(y < x)
    BY <2>1, <2>2
  <2> QED
    BY <2>3
<1> QED
  BY <1>2

(* A region's target is one of the violations its plan has claimed. *)
LEMMA TargetsClaimed ==
  ASSUME NEW r \in Regions
  PROVE  planning_targets(r) \subseteq claimed_frontier(SubgraphOf[r])
<1>1. CASE Candidates(r) = {}
  BY <1>1 DEF planning_targets
<1>2. CASE Candidates(r) # {}
  <2>1. Candidates(r) \in SUBSET Nat
    BY PlanningAssumption DEF Candidates, claimed_frontier, RegionsOf
  <2>2. \E v \in Candidates(r) : \A w \in Candidates(r) : v <= w
    BY <1>2, <2>1, LeastNumber
  <2>3. planning_targets(r) \subseteq Candidates(r)
    BY <1>2, <2>2 DEF planning_targets
  <2> QED
    BY <2>3 DEF Candidates
<1> QED
  BY <1>1, <1>2

(* The log only grows, by lawful events of regions that are at work. *)
LEMMA EventsGrow ==
  ASSUME Typed, WorkInv, [Next]_vars
  PROVE  /\ events \subseteq events'
         /\ \A e \in events' \ events : e.window = 1 /\ Lawful(e)
<1> DEFINE Grown == /\ events \subseteq events'
                    /\ \A e \in events' \ events : e.window = 1 /\ Lawful(e)
<1>1. ASSUME UNCHANGED events PROVE Grown
  BY <1>1
<1>2. ASSUME NEW r \in Regions \ Context, NEW V, NEW kind, kind # "bound",
             Emit({Event(kind, r, V)})
      PROVE  Grown
  BY <1>2 DEF Emit, Numbered, Event, Lawful
<1>3. ASSUME NEW r \in Regions, RegionStep(r) PROVE Grown
  <2>1. ASSUME task[r] # "idle" /\ task[r] # "cancelled" PROVE r \notin Context
    BY <2>1 DEF WorkInv, Holding
  <2>2. CASE StartRegion(r)
    <3>1. r \in Regions \ Context
      BY <2>2 DEF StartRegion, Planning
    <3>2. CASE Emit({})
      BY <3>2 DEF Emit
    <3>3. CASE Emit({Event("entered", r, planning_targets(r))})
      BY <1>2, <3>1, <3>3
    <3> QED
      BY <2>2, <3>2, <3>3 DEF StartRegion
  <2>3. CASE Prepare(r)
    <3>1. r \in Regions \ Context
      BY <2>1, <2>3 DEF Prepare
    <3>2. CASE Emit({})
      BY <3>2 DEF Emit
    <3>3. CASE Emit({Event("received", r, {})})
      BY <1>2, <3>1, <3>3
    <3> QED
      BY <2>3, <3>2, <3>3 DEF Prepare
  <2>4. CASE Execute(r)
    <3>1. r \in Regions \ Context
      BY <2>1, <2>4 DEF Execute
    <3>2. ASSUME NEW V \in {ViolationsOf[r], ViolationsOf[r] \cup planning_targets(r)},
                 Emit({Event("bound", r, V)})
          PROVE  Grown
      BY <3>1, <3>2 DEF Emit, Numbered, Event, Lawful
    <3> QED
      BY <1>1, <2>4, <3>2 DEF Execute
  <2>5. CASE Alarm(r) \/ EnterEda(r) \/ EdaReturns(r) \/ GraceEnds(r)
    BY <1>1, <2>5 DEF Alarm, EnterEda, EdaReturns, GraceEnds
  <2> QED
    BY <1>3, <2>2, <2>3, <2>4, <2>5 DEF RegionStep
<1>4. ASSUME NEW r \in Regions, ThreadEnds(r) PROVE Grown
  BY <1>1, <1>4 DEF ThreadEnds
<1>5. ASSUME NEW p \in Subgraphs, PlanStep(p) \/ CancelPlan(p) PROVE Grown
  BY <1>1, <1>5 DEF PlanStep, StartPlan, NoticeFailure, DrainEnds, Leave, StartExecution,
                    Planned, Degraded, CancelPlan
<1>6. CASE aggregate_plans \/ Abort \/ UNCHANGED vars
  BY <1>1, <1>6 DEF aggregate_plans, Abort, vars
<1> QED
  BY <1>3, <1>4, <1>5, <1>6 DEF Next, Run

LEMMA FrontierTypes ==
  ASSUME NEW p \in Subgraphs, NEW E
  PROVE  /\ attempted_frontier(p, E) \in SUBSET Violations
         /\ failed_call_audit(p) \in SUBSET Violations
<1>1. claimed_frontier(p) \subseteq Violations
  BY PlanningAssumption DEF claimed_frontier, RegionsOf
<1> QED
  BY <1>1 DEF attempted_frontier, failed_call_audit, llm_started_frontier,
              plan_validated_frontier

-----------------------------------------------------------------------------
(* Slots and worker threads. *)

LEMMA Places ==
  ASSUME NEW r \in Regions
  PROVE  SubgraphOf[r] \in Subgraphs /\ r \in RegionsOf(SubgraphOf[r])
BY PlanningAssumption DEF RegionsOf

(* Cancelling keeps every region's place, and makes none active. *)
LEMMA CancelKeeps ==
  ASSUME Typed, WorkInv, NEW R, CancelAll(R), UNCHANGED thread, NEW r \in Regions
  PROVE  /\ task'[r] \in Tasks /\ cancels'[r] \in 0..2
         /\ Holding(r)'
         /\ ~Active(r) => ~Active(r)'
<1> USE DEF Typed, WorkInv, Tasks, CancelAll, Interrupted, Over, Active, Holding
<1>1. CASE r \notin R
  BY <1>1
<1>2. CASE r \in R /\ task[r] = "eda"
  BY <1>2
<1>3. CASE r \in R /\ task[r] = "grace"
  BY <1>3
<1>4. CASE r \in R /\ task[r] \notin {"eda", "grace"}
  BY <1>4
<1> QED
  BY <1>1, <1>2, <1>3, <1>4

LEMMA CancelTypes ==
  ASSUME Typed, WorkInv, NEW R, CancelAll(R), UNCHANGED thread
  PROVE  /\ task' \in [Regions -> Tasks] /\ cancels' \in [Regions -> 0..2]
         /\ \A r \in Regions : Holding(r)' /\ (~Active(r) => ~Active(r)')
<1>1. \A r \in Regions : /\ task'[r] \in Tasks /\ cancels'[r] \in 0..2
                         /\ Holding(r)' /\ (~Active(r) => ~Active(r)')
  BY CancelKeeps
<1>2. /\ task' = [r \in Regions |-> task'[r]] /\ cancels' = [r \in Regions |-> cancels'[r]]
  BY DEF CancelAll
<1> QED
  BY <1>1, <1>2

LEMMA TypedStep == Typed /\ WorkInv /\ [Next]_vars => Typed'
<1> SUFFICES ASSUME Typed, WorkInv, [Next]_vars PROVE Typed'
  OBVIOUS
<1> USE DEF Tasks, Plans, Ended, tasks, flow, money
<1>0. mark \in [Subgraphs -> SUBSET events']
  BY EventsGrow DEF Typed
<1>1. ASSUME NEW r \in Regions, RegionStep(r) \/ ThreadEnds(r) PROVE Typed'
  <2>1. UNCHANGED <<pc, stage, cancels, attempted, mark>>
    BY <1>1 DEF RegionStep, ThreadEnds, StartRegion, Prepare, Execute, Alarm, EnterEda,
                EdaReturns, GraceEnds
  <2>2. UNCHANGED task \/ \E t \in Tasks : task' = [task EXCEPT ![r] = t]
    BY <1>1 DEF RegionStep, ThreadEnds, StartRegion, Prepare, Execute, Alarm, EnterEda,
                EdaReturns, GraceEnds
  <2> QED
    BY <1>0, <2>1, <2>2 DEF Typed
<1>2. ASSUME NEW p \in Subgraphs, StartPlan(p) PROVE Typed'
  BY <1>2 DEF StartPlan, audit_and_budget, Typed
<1>3. ASSUME NEW p \in Subgraphs, NoticeFailure(p) PROVE Typed'
  BY <1>3, CancelTypes DEF NoticeFailure, AwaitSiblings, Typed
<1>4. ASSUME NEW p \in Subgraphs, DrainEnds(p) \/ Leave(p) PROVE Typed'
  <2>1. PICK c \in {"raised", "cancelled"} : pc' = [pc EXCEPT ![p] = c]
    BY <1>4 DEF DrainEnds, Leave
  <2> QED
    BY <1>4, <2>1 DEF DrainEnds, Leave, Typed
<1>5. ASSUME NEW p \in Subgraphs, StartExecution(p) PROVE Typed'
  BY <1>5 DEF StartExecution, Typed
<1>6. ASSUME NEW p \in Subgraphs, Planned(p) PROVE Typed'
  <2>1. PICK E : attempted' = [attempted EXCEPT ![p] = attempted_frontier(p, E)]
    BY <1>6 DEF Planned
  <2> QED
    BY <1>6, <2>1, FrontierTypes DEF Planned, Typed
<1>7. ASSUME NEW p \in Subgraphs, Degraded(p) PROVE Typed'
  BY <1>7, FrontierTypes DEF Degraded, Typed
<1>8. ASSUME NEW p \in Subgraphs, CancelPlan(p) PROVE Typed'
  <2>1. PICK c \in {"cancelled", "leaving", "drain cancelled"} : pc' = [pc EXCEPT ![p] = c]
    BY <1>8 DEF CancelPlan
  <2>2. task' \in [Regions -> Tasks] /\ cancels' \in [Regions -> 0..2]
    BY <1>8, CancelTypes DEF CancelPlan, Typed
  <2> QED
    BY <1>8, <2>1, <2>2 DEF CancelPlan, Typed
<1>9. CASE Abort
  BY <1>9, CancelTypes DEF Abort, Typed
<1>10. CASE aggregate_plans \/ UNCHANGED vars
  BY <1>10 DEF aggregate_plans, vars, Typed
<1> QED
  BY <1>1, <1>2, <1>3, <1>4, <1>5, <1>6, <1>7, <1>8, <1>9, <1>10 DEF Next, Run, PlanStep

(* What a step must show of the plans that have ended. *)
LEMMA RestKept ==
  ASSUME Typed, WorkInv,
         \A p \in Subgraphs : pc'[p] \in {"planned", "degraded", "raised"} =>
           \/ pc'[p] = pc[p] /\ \A r \in RegionsOf(p) : ~Active(r) => ~Active(r)'
           \/ \A r \in RegionsOf(p) : ~Active(r)'
  PROVE  EndedPlansAreAtRest'
BY DEF WorkInv, EndedPlansAreAtRest, ActiveIn

LEMMA PlanningAtRest ==
  ASSUME WorkInv, NEW p \in Subgraphs,
         \A r \in Planning(p) : task[r] \in {"idle", "done"}
  PROVE  \A r \in RegionsOf(p) : ~Active(r)
BY DEF Planning, WorkInv, Holding, Active, RegionsOf

LEMMA RegionStepWork ==
  ASSUME Typed, WorkInv, NEW r \in Regions, RegionStep(r) \/ ThreadEnds(r)
  PROVE  WorkInv'
<1> USE DEF Tasks
<1>0. SubgraphOf[r] \in Subgraphs /\ r \in RegionsOf(SubgraphOf[r])
  BY Places
<1>1. ASSUME NEW t \in Tasks, task' = [task EXCEPT ![r] = t], UNCHANGED pc, Active(r)
      PROVE  EndedPlansAreAtRest'
  <2>1. \A q \in Regions : ~Active(q) => ~Active(q)'
    BY <1>1 DEF Typed, Active
  <2> QED
    BY <1>1, <2>1, RestKept DEF RegionsOf
<1>2. CASE StartRegion(r)
  <2>1. /\ pc[SubgraphOf[r]] \in {"gather", "cancelled"} /\ pc' = pc /\ task[r] = "idle"
        /\ r \notin Context /\ UNCHANGED <<cancels, thread, slots>>
    BY <1>2 DEF StartRegion, flow, Planning
  <2>2. PICK t \in {"done", "llm"} : task' = [task EXCEPT ![r] = t]
    BY <1>2 DEF StartRegion
  <2>3. \A q \in Regions : Holding(q)'
    BY <2>1, <2>2 DEF Typed, WorkInv, Holding
  <2>4. \A p \in Subgraphs : pc[p] \in {"planned", "degraded", "raised"} =>
          \A q \in RegionsOf(p) : ~Active(q) => ~Active(q)'
    BY <2>1, <2>2 DEF Typed, Active, RegionsOf
  <2>5. EndedPlansAreAtRest'
    BY <2>1, <2>4, RestKept
  <2> QED
    BY <2>1, <2>3, <2>5 DEF WorkInv
<1>3. CASE Prepare(r)
  BY <1>1, <1>3 DEF Prepare, flow, Typed, WorkInv, Holding, Active
<1>4. CASE Execute(r)
  BY <1>1, <1>4 DEF Execute, flow, Typed, WorkInv, Holding, Active
<1>5. CASE Alarm(r)
  BY <1>1, <1>5 DEF Alarm, flow, Typed, WorkInv, Holding, Active
<1>6. CASE EnterEda(r)
  BY <1>1, <1>6 DEF EnterEda, flow, Typed, WorkInv, Holding, Active
<1>7. CASE EdaReturns(r)
  BY <1>1, <1>7 DEF EdaReturns, flow, Typed, WorkInv, Holding, Active
<1>8. CASE GraceEnds(r)
  BY <1>1, <1>8 DEF GraceEnds, flow, Typed, WorkInv, Holding, Active
<1>9. CASE ThreadEnds(r)
  BY <1>9 DEF ThreadEnds, flow, Typed, WorkInv, Holding, EndedPlansAreAtRest, ActiveIn, Active
<1> QED
  BY <1>2, <1>3, <1>4, <1>5, <1>6, <1>7, <1>8, <1>9 DEF RegionStep

LEMMA PlanStepWork ==
  ASSUME Typed, WorkInv, NEW p \in Subgraphs, PlanStep(p) \/ CancelPlan(p)
  PROVE  WorkInv'
<1> USE DEF tasks, flow
<1>1. ASSUME UNCHANGED tasks, NEW c, pc' = [pc EXCEPT ![p] = c],
             c \in {"planned", "degraded", "raised"} => \A r \in RegionsOf(p) : ~Active(r)
      PROVE  WorkInv'
  <2>1. \A q \in Regions : Active(q)' <=> Active(q)
    BY <1>1 DEF Active
  <2>2. EndedPlansAreAtRest'
    BY <1>1, <2>1, RestKept DEF Typed, RegionsOf
  <2> QED
    BY <1>1, <2>2 DEF WorkInv, Holding
<1>2. ASSUME NEW c, pc' = [pc EXCEPT ![p] = c], c \notin {"planned", "degraded", "raised"},
             CancelAll(Planning(p)), UNCHANGED thread
      PROVE  WorkInv'
  <2>1. \A r \in Regions : Holding(r)' /\ (~Active(r) => ~Active(r)')
    BY <1>2, CancelTypes
  <2>2. EndedPlansAreAtRest'
    BY <1>2, <2>1, RestKept DEF Typed, RegionsOf
  <2> QED
    BY <1>2, <2>1, <2>2 DEF WorkInv
<1>3. CASE StartPlan(p)
  BY <1>1, <1>3 DEF StartPlan
<1>4. CASE NoticeFailure(p)
  BY <1>2, <1>4 DEF NoticeFailure, AwaitSiblings
<1>5. CASE DrainEnds(p)
  <2>1. \A r \in RegionsOf(p) : ~Active(r)
    BY <1>5 DEF DrainEnds, ActiveIn
  <2>2. PICK c : pc' = [pc EXCEPT ![p] = c]
    BY <1>5 DEF DrainEnds
  <2> QED
    BY <1>1, <1>5, <2>1, <2>2 DEF DrainEnds
<1>6. CASE Leave(p)
  BY <1>1, <1>6 DEF Leave
<1>7. CASE StartExecution(p)
  <2>1. /\ pc' = pc /\ UNCHANGED <<cancels, thread, slots>>
        /\ \A r \in Planning(p) : task[r] = "done"
        /\ task' = [r \in Regions |-> IF r \in Planning(p) THEN "idle" ELSE task[r]]
    BY <1>7 DEF StartExecution
  <2>2. \A r \in Regions : Holding(r)' /\ (~Active(r) => ~Active(r)')
    BY <2>1 DEF WorkInv, Holding, Active
  <2>3. EndedPlansAreAtRest'
    BY <2>1, <2>2, RestKept DEF RegionsOf
  <2> QED
    BY <2>1, <2>2, <2>3 DEF WorkInv
<1>8. CASE Planned(p) \/ Degraded(p)
  <2>1. \A r \in Planning(p) : task[r] \in {"idle", "done"}
    BY <1>8 DEF Planned, Degraded, Ready
  <2>2. \A r \in RegionsOf(p) : ~Active(r)
    BY <2>1, PlanningAtRest
  <2> QED
    BY <1>1, <1>8, <2>2 DEF Planned, Degraded
<1>9. CASE CancelPlan(p)
  <2>1. CASE UNCHANGED tasks /\ pc' = [pc EXCEPT ![p] = "cancelled"]
    BY <1>1, <2>1
  <2>2. CASE /\ CancelAll(Planning(p)) /\ UNCHANGED thread
             /\ \/ pc' = [pc EXCEPT ![p] = "leaving"]
                \/ pc' = [pc EXCEPT ![p] = "drain cancelled"]
    BY <1>2, <2>2
  <2> QED
    BY <1>9, <2>1, <2>2 DEF CancelPlan
<1> QED
  BY <1>3, <1>4, <1>5, <1>6, <1>7, <1>8, <1>9 DEF PlanStep

LEMMA WorkStep == Typed /\ WorkInv /\ [Next]_vars => WorkInv'
<1> SUFFICES ASSUME Typed, WorkInv, [Next]_vars PROVE WorkInv'
  OBVIOUS
<1>1. CASE aggregate_plans
  BY <1>1 DEF aggregate_plans, tasks, WorkInv, Holding, EndedPlansAreAtRest, ActiveIn, Active
<1>2. CASE Abort
  <2>1. pc' = pc /\ CancelAll(Regions) /\ UNCHANGED thread
    BY <1>2 DEF Abort
  <2>2. \A r \in Regions : Holding(r)' /\ (~Active(r) => ~Active(r)')
    BY <2>1, CancelTypes
  <2>3. EndedPlansAreAtRest'
    BY <2>1, <2>2, RestKept DEF RegionsOf
  <2> QED
    BY <2>1, <2>2, <2>3 DEF WorkInv
<1>3. CASE UNCHANGED vars
  BY <1>3 DEF vars, flow, tasks, WorkInv, Holding, EndedPlansAreAtRest, ActiveIn, Active
<1> QED
  BY <1>1, <1>2, <1>3, RegionStepWork, PlanStepWork DEF Next, Run

LEMMA WorkInit == Init => Typed /\ WorkInv
<1> SUFFICES ASSUME Init PROVE Typed /\ WorkInv
  OBVIOUS
<1>1. Typed
  BY DEF Init, Typed, Tasks, Plans
<1>2. WorkInv
  BY DEF Init, WorkInv, Holding, EndedPlansAreAtRest
<1> QED
  BY <1>1, <1>2

THEOREM TypeCorrect == Spec => [](Typed /\ WorkInv)
<1>1. (Typed /\ WorkInv) /\ [Next]_vars => (Typed /\ WorkInv)'
  BY TypedStep, WorkStep
<1> QED
  BY <1>1, WorkInit, PTL DEF Spec

(* A worker thread keeps its EDA slot until it ends, unless its region was *)
(* cancelled twice, and a plan that returned, degraded or raised has left *)
(* no region task behind (_run_eda and the handlers of plan).             *)
THEOREM WorkContained == Spec => []WorkIsContained
<1>1. Typed /\ WorkInv => WorkIsContained
  <2> SUFFICES ASSUME Typed, WorkInv PROVE WorkIsContained
    OBVIOUS
  <2>1. \A r \in thread : r \in slots \/ cancels[r] = 2
    BY DEF Typed, WorkInv, Holding, Tasks
  <2> QED
    BY <2>1 DEF WorkIsContained, SlotCoversWorker, WorkInv
<1> QED
  BY <1>1, TypeCorrect, PTL

-----------------------------------------------------------------------------
(* The audit log. *)

(* What a plan reports was done by one of its own regions in this window. *)
LEMMA ReportedWork ==
  ASSUME AuditInv, NEW p \in Subgraphs, pc[p] = "gather", NEW E,
         NEW v \in attempted_frontier(p, E)
  PROVE  \E e \in events :
           /\ e.window = 1 /\ e.region \in Planning(p)
           /\ \/ e.kind = "received" /\ v \in planning_targets(e.region)
              \/ e.kind = "bound" /\ v \in e.targets
<1>1. \A e \in local_events(p) : e \in events /\ e.window = 1 /\ Lawful(e)
  BY DEF local_events, AuditInv, Lawful
<1>2. CASE v \in llm_started_frontier(p)
  <2>1. PICK e \in local_events(p) : /\ e.kind = "received" /\ e.region \in Planning(p)
                                     /\ v \in planning_targets(e.region)
    BY <1>2 DEF llm_started_frontier, Heard
  <2> QED
    BY <1>1, <2>1
<1>3. CASE v \in plan_validated_frontier(p)
  <2>1. PICK e \in local_events(p) : e.kind = "bound" /\ v \in e.targets
    BY <1>3 DEF plan_validated_frontier, Heard
  <2>2. /\ e.region \in Regions \ Context
        /\ v \in ViolationsOf[e.region] \cup planning_targets(e.region)
    BY <1>1, <2>1 DEF Lawful
  <2>3. PICK s \in RegionsOf(p) : v \in ViolationsOf[s]
    BY <1>3 DEF plan_validated_frontier, claimed_frontier
  <2>4. s \in Regions /\ SubgraphOf[s] = p
    BY DEF RegionsOf
  <2>5. \A r \in Regions : v \in ViolationsOf[r] => r = s
    BY <2>3, <2>4, PlanningAssumption
  <2>6. ASSUME v \in ViolationsOf[e.region] PROVE SubgraphOf[e.region] = p
    BY <2>2, <2>4, <2>5, <2>6 DEF RegionsOf
  <2>7. ASSUME v \in planning_targets(e.region) PROVE SubgraphOf[e.region] = p
    <3>1. v \in claimed_frontier(SubgraphOf[e.region])
      BY <2>2, <2>7, TargetsClaimed
    <3>2. PICK t \in Regions : SubgraphOf[t] = SubgraphOf[e.region] /\ v \in ViolationsOf[t]
      BY <3>1 DEF claimed_frontier, RegionsOf
    <3> QED
      BY <2>4, <2>5, <3>2
  <2>8. SubgraphOf[e.region] = p
    BY <2>2, <2>6, <2>7
  <2>9. e.region \in Planning(p)
    BY <2>2, <2>8 DEF Planning, RegionsOf
  <2> QED
    BY <1>1, <2>1, <2>9
<1> QED
  BY <1>2, <1>3 DEF attempted_frontier

LEMMA AuditStep == Typed /\ WorkInv /\ AuditInv /\ [Next]_vars => AuditInv'
<1> SUFFICES ASSUME Typed, WorkInv, AuditInv, [Next]_vars PROVE AuditInv'
  OBVIOUS
<1> USE DEF flow, money
<1>1. events \subseteq events' /\ \A e \in events' \ events : e.window = 1 /\ Lawful(e)
  BY EventsGrow
<1>2. \A e \in events' : Lawful(e)
  BY <1>1 DEF AuditInv
<1>3. \A e \in events' : Lawful(e)'
  BY <1>2 DEF Lawful
<1>4. ASSUME \A p \in Subgraphs : pc'[p] = "gather" => pc[p] = "gather" /\ mark'[p] = mark[p],
             \A p \in Subgraphs : pc'[p] = "planned" =>
               pc[p] = "planned" /\ attempted'[p] = attempted[p]
      PROVE  AuditInv'
  <2>1. ASSUME NEW p \in Subgraphs, pc'[p] = "gather", NEW e \in events', e.window = 0
        PROVE  e \in mark'[p]
    BY <1>1, <1>4, <2>1 DEF AuditInv
  <2>2. AttemptedIsOwnWork'
    BY <1>1, <1>4 DEF AuditInv, AttemptedIsOwnWork
  <2> QED
    BY <1>3, <2>1, <2>2 DEF AuditInv
<1>5. ASSUME NEW r \in Regions, RegionStep(r) \/ ThreadEnds(r) PROVE AuditInv'
  <2>1. UNCHANGED <<pc, attempted, mark>>
    BY <1>5 DEF RegionStep, ThreadEnds, StartRegion, Prepare, Execute, Alarm, EnterEda,
                EdaReturns, GraceEnds
  <2> QED
    BY <1>4, <2>1
<1>6. ASSUME NEW p \in Subgraphs, StartPlan(p) PROVE AuditInv'
  <2>1. /\ pc' = [pc EXCEPT ![p] = "gather"] /\ mark' = [mark EXCEPT ![p] = events]
        /\ attempted' = attempted /\ events' = events
    BY <1>6 DEF StartPlan, audit_and_budget
  <2>2. \A q \in Subgraphs : pc'[q] = "gather" => \A e \in events' : e.window = 0 => e \in mark'[q]
    BY <2>1 DEF Typed, AuditInv
  <2>3. AttemptedIsOwnWork'
    BY <2>1 DEF Typed, AuditInv, AttemptedIsOwnWork
  <2> QED
    BY <1>3, <2>2, <2>3 DEF AuditInv
<1>7. ASSUME NEW p \in Subgraphs,
             NoticeFailure(p) \/ DrainEnds(p) \/ Leave(p) \/ CancelPlan(p) PROVE AuditInv'
  <2>1. /\ UNCHANGED <<attempted, mark>>
        /\ \E c \in Plans \ {"start", "gather", "planned"} : pc' = [pc EXCEPT ![p] = c]
    BY <1>7 DEF NoticeFailure, AwaitSiblings, DrainEnds, Leave, CancelPlan, Plans, Ended
  <2> QED
    BY <1>4, <2>1 DEF Typed
<1>8. ASSUME NEW p \in Subgraphs, StartExecution(p) PROVE AuditInv'
  BY <1>4, <1>8 DEF StartExecution
<1>9. ASSUME NEW p \in Subgraphs, Planned(p) PROVE AuditInv'
  <2>1. PICK E : attempted' = [attempted EXCEPT ![p] = attempted_frontier(p, E)]
    BY <1>9 DEF Planned
  <2>2. /\ pc[p] = "gather" /\ pc' = [pc EXCEPT ![p] = "planned"]
        /\ UNCHANGED <<mark, events>>
    BY <1>9 DEF Planned, Ready
  <2>3. AttemptedIsOwnWork'
    <3> SUFFICES ASSUME NEW q \in Subgraphs, pc'[q] = "planned", NEW v \in attempted'[q]
                 PROVE  \E e \in events :
                          /\ e.window = 1 /\ e.region \in Planning(q)
                          /\ \/ e.kind = "received" /\ v \in planning_targets(e.region)
                             \/ e.kind = "bound" /\ v \in e.targets
      BY <2>2 DEF AttemptedIsOwnWork
    <3>1. CASE q = p
      BY <2>1, <2>2, <3>1, ReportedWork DEF Typed
    <3>2. CASE q # p
      BY <2>1, <2>2, <3>2 DEF Typed, AuditInv, AttemptedIsOwnWork
    <3> QED
      BY <3>1, <3>2
  <2> QED
    BY <1>3, <2>2, <2>3 DEF Typed, AuditInv
<1>10. ASSUME NEW p \in Subgraphs, Degraded(p) PROVE AuditInv'
  <2>1. /\ pc' = [pc EXCEPT ![p] = "degraded"] /\ mark' = mark
        /\ attempted' = [attempted EXCEPT ![p] = failed_call_audit(p)]
    BY <1>10 DEF Degraded
  <2> QED
    BY <1>4, <2>1 DEF Typed
<1>11. CASE aggregate_plans \/ Abort \/ UNCHANGED vars
  BY <1>4, <1>11 DEF aggregate_plans, Abort, vars
<1> QED
  BY <1>5, <1>6, <1>7, <1>8, <1>9, <1>10, <1>11 DEF Next, Run, PlanStep

(* Although all plans of a window share one audit log, and the log keeps    *)
(* the events of earlier windows, a plan only reports as attempted what one *)
(* of its own regions did in this window.                                   *)
THEOREM AttemptedIsOwn == Spec => []AttemptedIsOwnWork
<1>1. Init => AuditInv
  BY DEF Init, AuditInv, Lawful, Numbered, AttemptedIsOwnWork
<1>2. (Typed /\ WorkInv) /\ AuditInv /\ [Next]_vars => AuditInv'
  BY AuditStep
<1>3. AuditInv => AttemptedIsOwnWork
  BY DEF AuditInv
<1> QED
  BY <1>1, <1>2, <1>3, TypeCorrect, PTL DEF Spec
-----------------------------------------------------------------------------
(* Sums over finite sets, as MapThenSumSet computes them. *)

LEMMA NatSteps ==
  ASSUME NEW S, 0 \in S, \A n \in Nat : n \in S => n + 1 \in S
  PROVE  Nat \subseteq S
<1>1. SUFFICES ASSUME Nat \ S # {} PROVE FALSE
  OBVIOUS
<1>2. PICK x \in Nat \ S : \A y \in Nat \ S : x <= y
  <2>1. Nat \ S \in SUBSET Nat
    OBVIOUS
  <2>2. QED
    BY <1>1, <2>1, LeastNumber
<1>3. x - 1 \in Nat /\ x - 1 < x
  BY <1>2
<1>4. x - 1 \in S
  BY <1>2, <1>3
<1>5. (x - 1) + 1 \in S
  BY <1>3, <1>4
<1>6. QED
  BY <1>2, <1>5

Total(g, S) == MapThenSumSet(LAMBDA p : g[p], S)
First(T) == CHOOSE x \in T : TRUE
\* h[T] is the sum over T for every T in D.
Adds(h, g, D) == \A T \in D : h[T] = IF T = {} THEN 0 ELSE g[First(T)] + h[T \ {First(T)}]

LEMMA NotEmpty ==
  ASSUME NEW T, NEW n \in Nat, Cardinality(T) = n + 1
  PROVE  T # {}
<1>1. SUFFICES ASSUME T = {} PROVE FALSE
  OBVIOUS
<1>2. Cardinality({}) = 0
  BY FS_EmptySet
<1>3. QED
  BY <1>1, <1>2

LEMMA FirstOut ==
  ASSUME NEW T, IsFiniteSet(T), T # {}
  PROVE  /\ First(T) \in T /\ IsFiniteSet(T \ {First(T)})
         /\ Cardinality(T) \in Nat /\ Cardinality(T) # 0
         /\ Cardinality(T \ {First(T)}) = Cardinality(T) - 1
<1>1. First(T) \in T
  BY DEF First
<1>2. QED
  BY <1>1, FS_RemoveElement, FS_CardinalityType, FS_EmptySet

LEMMA TotalUnfolds ==
  ASSUME NEW P, IsFiniteSet(P), NEW g, \A x \in P : g[x] \in Nat
  PROVE  \E h \in [SUBSET P -> Nat] : Adds(h, g, SUBSET P) /\ Total(g, P) = h[P]
<1> DEFINE Upto(n) == {T \in SUBSET P : Cardinality(T) <= n}
           Built == {n \in Nat : \E h \in [Upto(n) -> Nat] : Adds(h, g, Upto(n))}
<1>1. \A T \in SUBSET P : IsFiniteSet(T) /\ Cardinality(T) \in Nat /\ Cardinality(T) <= Cardinality(P)
  BY FS_Subset, FS_CardinalityType
<1>2. 0 \in Built
  <2>1. \A T \in Upto(0) : T = {}
    BY <1>1, FS_EmptySet
  <2>2. [T \in Upto(0) |-> 0] \in [Upto(0) -> Nat] /\ Adds([T \in Upto(0) |-> 0], g, Upto(0))
    BY <2>1 DEF Adds
  <2>3. QED
    BY <2>2
<1>3. ASSUME NEW n \in Nat, n \in Built PROVE n + 1 \in Built
  <2>1. PICK h \in [Upto(n) -> Nat] : Adds(h, g, Upto(n))
    BY <1>3
  <2> DEFINE k == [T \in Upto(n + 1) |-> IF T = {} THEN 0 ELSE g[First(T)] + h[T \ {First(T)}]]
  <2>2. \A T \in Upto(n + 1) : T # {} => First(T) \in P /\ T \ {First(T)} \in Upto(n)
    <3>1. SUFFICES ASSUME NEW T \in Upto(n + 1), T # {}
                   PROVE  First(T) \in P /\ T \ {First(T)} \in Upto(n)
      OBVIOUS
    <3>2. /\ First(T) \in T /\ Cardinality(T) \in Nat
          /\ Cardinality(T \ {First(T)}) = Cardinality(T) - 1
      BY <1>1, <3>1, FirstOut
    <3>3. Cardinality(T) - 1 <= n
      BY <3>1, <3>2
    <3>4. QED
      BY <3>1, <3>2, <3>3
  <2>3. k \in [Upto(n + 1) -> Nat]
    <3>1. \A T \in Upto(n + 1) : T # {} => g[First(T)] \in Nat /\ h[T \ {First(T)}] \in Nat
      BY <2>1, <2>2
    <3> HIDE DEF Upto
    <3>2. QED
      BY <3>1
  <2>4. \A T \in Upto(n) : T \in Upto(n + 1) /\ k[T] = h[T]
    <3>1. \A T \in Upto(n) : T \in Upto(n + 1)
      BY <1>1
    <3> HIDE DEF Upto
    <3>2. QED
      BY <2>1, <3>1 DEF Adds
  <2>5. Adds(k, g, Upto(n + 1))
    <3> HIDE DEF Upto
    <3>1. \A T \in Upto(n + 1) : T # {} => k[T \ {First(T)}] = h[T \ {First(T)}]
      BY <2>2, <2>4
    <3>2. QED
      BY <3>1 DEF Adds
  <2>6. QED
    <3> HIDE DEF k, Upto
    <3> QED BY <2>3, <2>5
<1>4. Nat \subseteq Built
  <2> HIDE DEF Built
  <2> QED BY <1>2, <1>3, NatSteps
<1>5. Cardinality(P) \in Nat /\ Upto(Cardinality(P)) = SUBSET P
  BY <1>1, FS_CardinalityType
<1>6. PICK h \in [SUBSET P -> Nat] : Adds(h, g, SUBSET P)
  <2> HIDE DEF Upto
  <2> QED BY <1>4, <1>5
<1> DEFINE Def(f) == [T \in SUBSET P |-> IF T = {} THEN 0 ELSE g[First(T)] + f[T \ {First(T)}]]
           F == CHOOSE f : f = Def(f)
<1>7. h = Def(h)
  <2>1. \A T \in SUBSET P : h[T] = IF T = {} THEN 0 ELSE g[First(T)] + h[T \ {First(T)}]
    BY <1>6 DEF Adds
  <2>2. QED
    BY <2>1
<1>8. F = Def(F)
  <2> HIDE DEF Def
  <2> QED BY <1>7
<1>9. Adds(F, g, SUBSET P)
  <2> HIDE DEF F
  <2> QED BY <1>8 DEF Adds
<1>10. Total(g, P) = F[P]
  BY Zenon DEF Total, MapThenSumSet, MapThenFoldSet, First
<1> DEFINE Fine == {n \in Nat : \A T \in SUBSET P : Cardinality(T) = n => F[T] \in Nat}
<1> HIDE DEF F
<1>11. 0 \in Fine
  BY <1>1, <1>9, FS_EmptySet DEF Adds
<1>12. ASSUME NEW n \in Nat, n \in Fine PROVE n + 1 \in Fine
  <2>1. SUFFICES ASSUME NEW T \in SUBSET P, Cardinality(T) = n + 1 PROVE F[T] \in Nat
    OBVIOUS
  <2>2. T # {}
    BY <2>1, NotEmpty
  <2>3. /\ First(T) \in P /\ T \ {First(T)} \in SUBSET P
        /\ Cardinality(T \ {First(T)}) = n
    BY <1>1, <2>1, <2>2, FirstOut
  <2>4. F[T \ {First(T)}] \in Nat
    BY <1>12, <2>3
  <2>5. F[T] = g[First(T)] + F[T \ {First(T)}] /\ g[First(T)] \in Nat
    BY <1>9, <2>2, <2>3 DEF Adds
  <2>6. QED
    BY <2>4, <2>5
<1>13. Nat \subseteq Fine
  <2> HIDE DEF Fine
  <2> QED BY <1>11, <1>12, NatSteps
<1>14. \A T \in SUBSET P : F[T] \in Nat
  BY <1>1, <1>13
<1>15. F \in [SUBSET P -> Nat]
  BY <1>8, <1>14
<1>16. QED
  BY <1>9, <1>10, <1>15

\* Summing over a subset takes the same turns as summing over the whole set.
HasTotals(P, g) ==
  \E h \in [SUBSET P -> Nat] :
    Adds(h, g, SUBSET P) /\ \A S \in SUBSET P : Total(g, S) = h[S]

LEMMA TotalWithin ==
  ASSUME NEW P, IsFiniteSet(P), NEW g, \A x \in P : g[x] \in Nat
  PROVE  HasTotals(P, g)
<1>1. PICK h \in [SUBSET P -> Nat] : Adds(h, g, SUBSET P)
  BY TotalUnfolds
<1>2. ASSUME NEW S \in SUBSET P PROVE Total(g, S) = h[S]
  <2>1. IsFiniteSet(S) /\ \A x \in S : g[x] \in Nat
    BY FS_Subset
  <2>2. PICK k \in [SUBSET S -> Nat] : Adds(k, g, SUBSET S) /\ Total(g, S) = k[S]
    BY <2>1, TotalUnfolds
  <2> DEFINE Same == {n \in Nat : \A T \in SUBSET S : Cardinality(T) = n => k[T] = h[T]}
  <2>3. \A T \in SUBSET S : T \in SUBSET P /\ IsFiniteSet(T) /\ Cardinality(T) \in Nat
    BY <2>1, FS_Subset, FS_CardinalityType
  <2>4. 0 \in Same
    BY <1>1, <2>2, <2>3, FS_EmptySet DEF Adds
  <2>5. ASSUME NEW n \in Nat, n \in Same PROVE n + 1 \in Same
    <3>1. SUFFICES ASSUME NEW T \in SUBSET S, Cardinality(T) = n + 1 PROVE k[T] = h[T]
      OBVIOUS
    <3>2. T # {}
      BY <3>1, NotEmpty
    <3>3. T \ {First(T)} \in SUBSET S /\ Cardinality(T \ {First(T)}) = n
      BY <2>3, <3>1, <3>2, FirstOut
    <3>4. k[T \ {First(T)}] = h[T \ {First(T)}]
      BY <2>5, <3>3
    <3>5. k[T] = g[First(T)] + k[T \ {First(T)}] /\ h[T] = g[First(T)] + h[T \ {First(T)}]
      BY <1>1, <2>2, <2>3, <3>2 DEF Adds
    <3>6. QED
      BY <3>4, <3>5
  <2>6. Nat \subseteq Same
    <3> HIDE DEF Same
    <3> QED BY <2>4, <2>5, NatSteps
  <2>7. k[S] = h[S]
    BY <2>3, <2>6
  <2>8. QED
    BY <2>2, <2>7
<1>3. QED
  BY <1>1, <1>2, Zenon DEF HasTotals

\* Any summand may be taken first.
LEMMA TotalSplits ==
  ASSUME NEW P, IsFiniteSet(P), NEW g, \A x \in P : g[x] \in Nat
  PROVE  /\ \A S \in SUBSET P : Total(g, S) \in Nat
         /\ \A S \in SUBSET P : \A x \in S : Total(g, S) = g[x] + Total(g, S \ {x})
<1>1. PICK h \in [SUBSET P -> Nat] : Adds(h, g, SUBSET P) /\ \A S \in SUBSET P : Total(g, S) = h[S]
  <2>1. HasTotals(P, g)
    BY TotalWithin
  <2>2. QED
    BY <2>1, Zenon DEF HasTotals
<1> DEFINE Split == {n \in Nat : \A S \in SUBSET P : \A x \in S :
                       Cardinality(S) = n => h[S] = g[x] + h[S \ {x}]}
<1>2. \A T \in SUBSET P : IsFiniteSet(T) /\ Cardinality(T) \in Nat
  BY FS_Subset, FS_CardinalityType
<1>3. 0 \in Split
  BY <1>2, FS_EmptySet
<1>4. ASSUME NEW n \in Nat, n \in Split PROVE n + 1 \in Split
  <2>1. SUFFICES ASSUME NEW S \in SUBSET P, NEW x \in S, Cardinality(S) = n + 1
                 PROVE  h[S] = g[x] + h[S \ {x}]
    OBVIOUS
  <2> DEFINE c == First(S)
  <2>2. c \in S /\ h[S] = g[c] + h[S \ {c}]
    BY <1>1, <1>2, FirstOut DEF Adds
  <2> HIDE DEF c
  <2>3. CASE x = c
    BY <2>2, <2>3
  <2>4. CASE x # c
    <3>1. Cardinality(S \ {c}) = n /\ Cardinality(S \ {x}) = n
      <4>1. IsFiniteSet(S)
        BY <1>2, <2>1
      <4>2. \A y \in S : Cardinality(S \ {y}) = Cardinality(S) - 1
        BY <4>1, FS_RemoveElement
      <4> HIDE DEF Split
      <4>3. QED
        BY <2>1, <2>2, <4>2
    <3>2. S \ {c} \in SUBSET P /\ x \in S \ {c} /\ S \ {x} \in SUBSET P /\ c \in S \ {x}
      BY <2>1, <2>2, <2>4
    <3>3. h[S \ {c}] = g[x] + h[(S \ {c}) \ {x}] /\ h[S \ {x}] = g[c] + h[(S \ {x}) \ {c}]
      BY <1>4, <3>1, <3>2
    <3>4. (S \ {c}) \ {x} = (S \ {x}) \ {c} /\ (S \ {x}) \ {c} \in SUBSET P
      OBVIOUS
    <3>5. g[x] \in Nat /\ g[c] \in Nat /\ h[(S \ {x}) \ {c}] \in Nat
      BY <2>1, <2>2, <3>4
    <3> HIDE DEF Split
    <3>6. h[(S \ {c}) \ {x}] = h[(S \ {x}) \ {c}]
      BY <3>4
    <3>7. \A a, b, d \in Nat : a + (b + d) = b + (a + d)
      OBVIOUS
    <3>8. g[c] + (g[x] + h[(S \ {x}) \ {c}]) = g[x] + (g[c] + h[(S \ {x}) \ {c}])
      BY <3>5, <3>7
    <3>9. QED
      BY <2>2, <3>3, <3>6, <3>8
  <2>5. QED
    BY <2>3, <2>4
<1>5. Nat \subseteq Split
  <2> HIDE DEF Split
  <2> QED BY <1>3, <1>4, NatSteps
<1>6. \A S \in SUBSET P : \A x \in S : h[S] = g[x] + h[S \ {x}]
  BY <1>2, <1>5
<1>7. QED
  BY <1>1, <1>6

\* Only the summands count.
LEMMA TotalSame ==
  ASSUME NEW P, IsFiniteSet(P), NEW f, NEW g, \A x \in P : f[x] \in Nat /\ g[x] = f[x]
  PROVE  Total(f, P) = Total(g, P)
<1>1. PICK h \in [SUBSET P -> Nat] : Adds(h, f, SUBSET P) /\ Total(f, P) = h[P]
  BY TotalUnfolds
<1>2. PICK k \in [SUBSET P -> Nat] : Adds(k, g, SUBSET P) /\ Total(g, P) = k[P]
  BY TotalUnfolds
<1>3. \A T \in SUBSET P : IsFiniteSet(T) /\ Cardinality(T) \in Nat
  BY FS_Subset, FS_CardinalityType
<1> DEFINE Same == {n \in Nat : \A T \in SUBSET P : Cardinality(T) = n => k[T] = h[T]}
<1>4. 0 \in Same
  BY <1>1, <1>2, <1>3, FS_EmptySet DEF Adds
<1>5. ASSUME NEW n \in Nat, n \in Same PROVE n + 1 \in Same
  <2>1. SUFFICES ASSUME NEW T \in SUBSET P, Cardinality(T) = n + 1 PROVE k[T] = h[T]
    OBVIOUS
  <2>2. T # {}
    BY <2>1, NotEmpty
  <2>3. First(T) \in P /\ T \ {First(T)} \in SUBSET P /\ Cardinality(T \ {First(T)}) = n
    BY <1>3, <2>1, <2>2, FirstOut
  <2>4. k[T \ {First(T)}] = h[T \ {First(T)}]
    BY <1>5, <2>3
  <2>5. k[T] = g[First(T)] + k[T \ {First(T)}] /\ h[T] = f[First(T)] + h[T \ {First(T)}]
    BY <1>1, <1>2, <2>2 DEF Adds
  <2>6. QED
    BY <2>3, <2>4, <2>5
<1>6. Nat \subseteq Same
  <2> HIDE DEF Same
  <2> QED BY <1>4, <1>5, NatSteps
<1>7. k[P] = h[P]
  BY <1>3, <1>6
<1>8. QED
  BY <1>1, <1>2, <1>7
-----------------------------------------------------------------------------
(* The charge. *)

PlannedOnes == {p \in Subgraphs : pc[p] = "planned"}

(* Every plan measures its trials from a count that has already been reached. *)
ChargeInv ==
  /\ trials \in Nat /\ used \in Nat
  /\ own \in [Subgraphs -> Nat] /\ before \in [Subgraphs -> Nat]
  /\ \A p \in Subgraphs : before[p] <= trials
  /\ used >= Total(own, PlannedOnes)

LEMMA LimitTypes == TopM \in Nat /\ SandboxJobs \in Nat
BY PlanningAssumption

LEMMA ChargeStays ==
  ASSUME ChargeInv, trials' \in Nat, trials <= trials', used' \in Nat, used <= used',
         own' \in [Subgraphs -> Nat], before' \in [Subgraphs -> Nat],
         \A p \in Subgraphs : before'[p] <= trials',
         \A p \in Subgraphs : pc'[p] = "planned" <=> pc[p] = "planned",
         \A p \in Subgraphs : pc[p] = "planned" => own'[p] = own[p]
  PROVE  ChargeInv'
<1>1. PlannedOnes' = PlannedOnes
  BY DEF PlannedOnes
<1>2. IsFiniteSet(PlannedOnes) /\ PlannedOnes \in SUBSET Subgraphs
  BY PlanningAssumption, FS_Subset DEF PlannedOnes
<1>3. \A p \in PlannedOnes : own[p] \in Nat /\ own'[p] = own[p]
  BY DEF PlannedOnes, ChargeInv
<1>4. Total(own, PlannedOnes) = Total(own', PlannedOnes)
  BY <1>2, <1>3, TotalSame
<1>5. Total(own, PlannedOnes) \in Nat
  BY <1>2, <1>3, TotalSplits
<1>6. used' >= Total(own', PlannedOnes)
  BY <1>4, <1>5 DEF ChargeInv
<1>7. used' >= Total(own', PlannedOnes')
  BY <1>1, <1>6
<1>8. Total(own, PlannedOnes)' = Total(own', PlannedOnes')
  BY Zenon DEF Total, MapThenSumSet, MapThenFoldSet
<1>9. QED
  BY <1>7, <1>8 DEF ChargeInv

(* The new plan pays for its own trials, whoever else ran some meanwhile. *)
LEMMA PlannedPays ==
  ASSUME ChargeInv, Typed, NEW p \in Subgraphs, Planned(p)
  PROVE  ChargeInv'
<1>1. PICK n \in 0..TopM : Trial(p, n) /\ charge(p, n)
  BY DEF Planned
<1>2. /\ n \in Nat /\ trials' = trials + n /\ own' = [own EXCEPT ![p] = n]
      /\ before' = before /\ pc[p] = "gather" /\ pc' = [pc EXCEPT ![p] = "planned"]
  <2>1. n \in Nat
    BY LimitTypes
  <2>2. trials' = trials + n /\ own' = [own EXCEPT ![p] = n]
    BY <1>1, Zenon DEF Trial
  <2> QED
    BY <2>1, <2>2 DEF Planned, Ready
<1>3. used' \in Nat /\ used' >= used + n
  BY <1>1, <1>2 DEF charge, ChargeInv
<1> DEFINE S == PlannedOnes \cup {p}
<1>4. PlannedOnes' = S /\ p \in S /\ S \ {p} = PlannedOnes /\ S \in SUBSET Subgraphs
  BY <1>2 DEF PlannedOnes, Typed
<1>5. own' \in [Subgraphs -> Nat] /\ own'[p] = n
  BY <1>2 DEF ChargeInv
<1>6. IsFiniteSet(S) /\ IsFiniteSet(PlannedOnes)
  BY <1>4, PlanningAssumption, FS_Subset
<1>7. \A q \in PlannedOnes : own[q] \in Nat /\ own'[q] = own[q]
  BY <1>2 DEF PlannedOnes, ChargeInv
<1>8. Total(own, PlannedOnes) = Total(own', PlannedOnes) /\ Total(own, PlannedOnes) \in Nat
  BY <1>6, <1>7, TotalSame, TotalSplits
<1>9. Total(own', S) = own'[p] + Total(own', S \ {p})
  <2>1. \A q \in S : own'[q] \in Nat
    BY <1>4, <1>5
  <2>2. QED
    <3> HIDE DEF S
    <3> QED BY <1>4, <1>6, <2>1, TotalSplits
<1>10. used' >= Total(own', S)
  <2>1. Total(own', S) = n + Total(own, PlannedOnes)
    BY <1>4, <1>5, <1>8, <1>9
  <2>2. used \in Nat /\ used >= Total(own, PlannedOnes)
    BY DEF ChargeInv
  <2> HIDE DEF S
  <2>3. QED
    BY <1>2, <1>3, <1>8, <2>1, <2>2
<1>11. used' >= Total(own', PlannedOnes')
  BY <1>4, <1>10
<1>12. Total(own, PlannedOnes)' = Total(own', PlannedOnes')
  BY Zenon DEF Total, MapThenSumSet, MapThenFoldSet
<1>13. \A q \in Subgraphs : before'[q] <= trials'
  BY <1>2 DEF ChargeInv
<1>14. QED
  BY <1>2, <1>3, <1>5, <1>11, <1>12, <1>13 DEF ChargeInv

LEMMA ChargeStep == Typed /\ ChargeInv /\ [Next]_vars => ChargeInv'
<1> SUFFICES ASSUME Typed, ChargeInv, [Next]_vars PROVE ChargeInv'
  OBVIOUS
<1>1. ASSUME UNCHANGED money,
             \A p \in Subgraphs : pc'[p] = "planned" <=> pc[p] = "planned"
      PROVE  ChargeInv'
  BY <1>1, ChargeStays DEF ChargeInv, money
<1>2. ASSUME NEW r \in Regions, RegionStep(r) \/ ThreadEnds(r) PROVE ChargeInv'
  <2>1. UNCHANGED <<flow, money>>
    BY <1>2 DEF RegionStep, ThreadEnds, StartRegion, Prepare, Execute, Alarm, EnterEda,
                EdaReturns, GraceEnds
  <2> QED
    BY <1>1, <2>1 DEF flow
<1>3. ASSUME NEW p \in Subgraphs, StartPlan(p) PROVE ChargeInv'
  <2>1. /\ pc[p] = "start" /\ pc' = [pc EXCEPT ![p] = "gather"]
        /\ before' = [before EXCEPT ![p] = trials] /\ UNCHANGED <<trials, own, used>>
    BY <1>3 DEF StartPlan, audit_and_budget
  <2>2. before' \in [Subgraphs -> Nat] /\ \A q \in Subgraphs : before'[q] <= trials'
    BY <2>1 DEF ChargeInv
  <2>3. \A q \in Subgraphs : pc'[q] = "planned" <=> pc[q] = "planned"
    BY <2>1 DEF Typed
  <2> QED
    BY <2>1, <2>2, <2>3, ChargeStays DEF ChargeInv
<1>4. ASSUME NEW p \in Subgraphs,
             NoticeFailure(p) \/ DrainEnds(p) \/ Leave(p) \/ CancelPlan(p) PROVE ChargeInv'
  <2>1. /\ UNCHANGED money /\ pc[p] # "planned"
        /\ \E c \in Plans \ {"planned"} : pc' = [pc EXCEPT ![p] = c]
    BY <1>4 DEF NoticeFailure, AwaitSiblings, DrainEnds, Leave, CancelPlan, Plans, Ended
  <2> QED
    BY <1>1, <2>1 DEF Typed
<1>5. ASSUME NEW p \in Subgraphs, StartExecution(p) PROVE ChargeInv'
  BY <1>1, <1>5 DEF StartExecution
<1>6. ASSUME NEW p \in Subgraphs, Planned(p) PROVE ChargeInv'
  BY <1>6, PlannedPays
<1>7. ASSUME NEW p \in Subgraphs, Degraded(p) PROVE ChargeInv'
  <2>1. /\ pc[p] = "gather" /\ pc' = [pc EXCEPT ![p] = "degraded"] /\ UNCHANGED <<before, used>>
        /\ UNCHANGED <<trials, own>> \/ \E n \in 0..TopM : Trial(p, n)
    BY <1>7 DEF Degraded, Ready
  <2>2. \E n \in Nat, m \in Nat : trials' = trials + n /\ own' = [own EXCEPT ![p] = m]
    <3>1. CASE UNCHANGED <<trials, own>>
      <4>1. trials' = trials + 0 /\ own' = [own EXCEPT ![p] = own[p]] /\ own[p] \in Nat
        BY <3>1 DEF ChargeInv
      <4> QED
        BY <4>1
    <3>2. CASE \E n \in 0..TopM : Trial(p, n)
      <4>1. PICK n \in 0..TopM : Trial(p, n)
        BY <3>2
      <4>2. n \in Nat
        BY LimitTypes
      <4>3. trials' = trials + n /\ own' = [own EXCEPT ![p] = n]
        BY <4>1, Zenon DEF Trial
      <4> QED
        BY <4>2, <4>3
    <3> QED
      BY <2>1, <3>1, <3>2
  <2>3. /\ trials' \in Nat /\ trials <= trials' /\ own' \in [Subgraphs -> Nat]
        /\ \A q \in Subgraphs : q # p => own'[q] = own[q]
        /\ \A q \in Subgraphs : before'[q] <= trials'
    BY <2>1, <2>2 DEF ChargeInv
  <2>4. \A q \in Subgraphs : /\ pc'[q] = "planned" <=> pc[q] = "planned"
                             /\ pc[q] = "planned" => q # p
    BY <2>1 DEF Typed
  <2> QED
    BY <2>1, <2>3, <2>4, ChargeStays DEF ChargeInv
<1>8. CASE aggregate_plans
  <2>1. /\ \E n \in 0..Remaining : used' = used + n
        /\ UNCHANGED <<pc, trials, before, own>>
    BY <1>8 DEF aggregate_plans
  <2>2. Remaining \in Nat
    BY PlanningAssumption DEF Remaining, ChargeInv
  <2>3. used' \in Nat /\ used <= used'
    BY <2>1, <2>2 DEF ChargeInv
  <2> QED
    BY <2>1, <2>3, ChargeStays DEF ChargeInv
<1>9. CASE Abort \/ UNCHANGED vars
  BY <1>1, <1>9 DEF Abort, vars, flow
<1> QED
  BY <1>2, <1>3, <1>4, <1>5, <1>6, <1>7, <1>8, <1>9 DEF Next, Run, PlanStep

(* The iteration pays for every sandbox trial of its planned subgraphs, for  *)
(* any number of them and any interleaving of their awaits: each plan's      *)
(* count starts at or before the trials it runs, so a difference of shared   *)
(* counters is never too small (plan_subgraph, aggregate_plans).             *)
THEOREM TrialsCharged == Spec => []ChargeCoversTrials
<1>1. Init => ChargeInv
  <2> SUFFICES ASSUME Init PROVE ChargeInv
    OBVIOUS
  <2>1. PlannedOnes = {}
    BY DEF Init, PlannedOnes
  <2>2. own \in [Subgraphs -> Nat] /\ before \in [Subgraphs -> Nat] /\ \A p \in Subgraphs : before[p] <= trials
    BY DEF Init
  <2>3. Total(own, {}) = 0
    <3>1. IsFiniteSet({}) /\ \A x \in {} : own[x] \in Nat
      BY FS_EmptySet
    <3>2. PICK h \in [SUBSET {} -> Nat] : Adds(h, own, SUBSET {}) /\ Total(own, {}) = h[{}]
      BY <3>1, TotalUnfolds
    <3> QED
      BY <3>2 DEF Adds
  <2> QED
    BY <2>1, <2>2, <2>3 DEF Init, ChargeInv
<1>2. Typed /\ ChargeInv /\ [Next]_vars => ChargeInv'
  BY ChargeStep
<1>3. ChargeInv => ChargeCoversTrials
  BY Zenon DEF ChargeInv, ChargeCoversTrials, Total, PlannedOnes
<1>4. (Typed /\ WorkInv) => Typed
  OBVIOUS
<1> QED
  BY <1>1, <1>2, <1>3, <1>4, TypeCorrect, PTL DEF Spec
=============================================================================
