--------------------------- MODULE WindowPlanning ---------------------------
(* One window's planning: the plan_subgraph tasks the workflow runs side by side
   (runtime.py), each of which plans its regions in parallel (planning.py) with
   trajectory searches in worker threads (production_engine.py, _run_eda), the
   isolated sandbox trials they charge to the iteration, and aggregate_plans.

   What a region's plan contains is arbitrary (RepairTrajectory has that part);
   a region uses the EDA slots at most once.  A coroutine runs alone between two
   awaits, so an action is what happens from one await to the next.            *)
EXTENDS Integers, FiniteSetsExt

CONSTANTS
  Subgraphs,      \* the subgraphs of the window
  Regions,        \* their planning regions
  SubgraphOf,     \* [Regions -> Subgraphs]
  Context,        \* regions that only give context, or are unsupported helpers
  Helpers,        \* the planning regions that assist others
  Assisted,       \* [Helpers -> SUBSET Violations]: assisted_target_violation_ids
  Violations,     \* a set of numbers, in the order of their ids
  ViolationsOf,   \* [Regions -> SUBSET Violations]
  Claimed,        \* claimed_frontier_violation_ids of the window
  UnsupportedBy,  \* violations whose support report refuses them
  MaxConcurrent,  \* llm.max_concurrent_requests
  EdaSlots,       \* capacity of the shared EDA semaphore
  TopM,           \* sandbox_top_m_per_view
  SandboxJobs     \* sandbox_max_jobs_per_iteration

ASSUME PlanningAssumption ==
  /\ IsFiniteSet(Subgraphs) /\ SubgraphOf \in [Regions -> Subgraphs]
  /\ Context \subseteq Regions /\ Helpers \subseteq Regions \ Context
  /\ Violations \subseteq Nat
  /\ ViolationsOf \in [Regions -> SUBSET Violations]
  /\ Assisted \in [Helpers -> SUBSET Violations]
  /\ \A r, s \in Regions : r # s => ViolationsOf[r] \cap ViolationsOf[s] = {}
  /\ {MaxConcurrent, EdaSlots} \subseteq Nat \ {0} /\ {TopM, SandboxJobs} \subseteq Nat

VARIABLES
  window,     \* "planning", "aggregated" or "aborted"
  pc,         \* per subgraph: where plan_subgraph is
  stage,      \* per subgraph: "prepare" or "execute"
  hit,        \* per subgraph: it was cancelled itself
  task,       \* per region: its coroutine
  cancels,    \* per region: cancellations delivered during its search
  prepared,   \* per region: what its preparation left
  thread,     \* regions whose EDA worker thread runs
  slots,      \* regions that hold an EDA slot
  events,     \* integration_audit.events
  mark,       \* per subgraph: the events before it started (audit_event_start)
  attempted,  \* per subgraph: the attempted frontier it reported
  trials,     \* sandbox_service.metrics["trials"]
  before,     \* per subgraph: trials when it started
  limit,      \* per subgraph: its sandbox_job_limit
  own,        \* history, per subgraph: the trials it ran
  used        \* iteration_sandbox_jobs_used

tasks == <<task, cancels, prepared, thread, slots>>
money == <<trials, before, limit, own, used>>
flow == <<window, pc, stage, hit>>
vars == <<flow, tasks, events, mark, attempted, money>>

RegionsOf(p) == {r \in Regions : SubgraphOf[r] = p}
Planning(p) == RegionsOf(p) \ Context

claimed_frontier(p) == Claimed \cap UNION {ViolationsOf[r] : r \in RegionsOf(p)}

(* One target per region: the first claimed one of its own, or, for a helper,
   the first it assists.                                                       *)
Candidates(r) ==
  (IF r \in Helpers THEN Assisted[r] ELSE ViolationsOf[r])
    \cap claimed_frontier(SubgraphOf[r])
planning_targets(r) ==
  IF Candidates(r) = {} THEN {} ELSE {CHOOSE v \in Candidates(r) :
                                        \A w \in Candidates(r) : v <= w}

region_worker_count(p) ==
  LET n == Cardinality(Planning(p)) IN IF n < MaxConcurrent THEN n ELSE MaxConcurrent

Active(r) == task[r] \in {"llm", "waiting", "eda", "grace"}
ActiveIn(p) == {r \in RegionsOf(p) : Active(r)}
Over(r) == task[r] \in {"done", "alarm", "cancelled"}

Event(kind, r, V) == [kind |-> kind, region |-> r, targets |-> V]

(* Left behind by an earlier window of the run. *)
OldEvents == {Event("bound", r, Claimed) : r \in Regions}
             \cup {Event("received", r, {}) : r \in Regions}
Numbered(e, n) == [kind |-> e.kind, region |-> e.region, targets |-> e.targets, window |-> n]
Emit(E) == events' = events \cup {Numbered(e, 1) : e \in E}

Init ==
  /\ window = "planning"
  /\ pc = [p \in Subgraphs |-> "start"]
  /\ stage = [p \in Subgraphs |-> "prepare"]
  /\ hit = [p \in Subgraphs |-> FALSE]
  /\ task = [r \in Regions |-> "idle"]
  /\ cancels = [r \in Regions |-> 0]
  /\ prepared = [r \in Regions |-> "none"]
  /\ thread = {} /\ slots = {}
  /\ events = {Numbered(e, 0) : e \in OldEvents}
  /\ mark = [p \in Subgraphs |-> {}]
  /\ attempted = [p \in Subgraphs |-> {}]
  /\ trials = 0 /\ used = 0
  /\ before = [p \in Subgraphs |-> 0]
  /\ limit = [p \in Subgraphs |-> 0]
  /\ own = [p \in Subgraphs |-> 0]
-----------------------------------------------------------------------------
(* Slip: the audit is read from its beginning. *)
audit_and_budget_unmarked(p) ==
  /\ UNCHANGED mark
  /\ limit' = [limit EXCEPT ![p] = IF used < SandboxJobs THEN SandboxJobs - used ELSE 0]
  /\ before' = [before EXCEPT ![p] = trials]

(* What plan_subgraph reads before its first await. *)
audit_and_budget(p) ==
  /\ mark' = [mark EXCEPT ![p] = events]
  /\ limit' = [limit EXCEPT ![p] = IF used < SandboxJobs THEN SandboxJobs - used ELSE 0]
  /\ before' = [before EXCEPT ![p] = trials]

StartPlan(p) ==
  /\ pc[p] = "start" /\ window = "planning"
  /\ audit_and_budget(p)
  /\ pc' = [pc EXCEPT ![p] = "gather"]
  /\ UNCHANGED <<window, stage, hit, tasks, events, attempted, trials, own, used>>

(* The preparation tasks share a semaphore of region_worker_count permits; in
   the execution as many workers pull regions from a queue, and a worker that
   met an infrastructure failure pulls no more.                                *)
Alarmed(p) == {r \in RegionsOf(p) : task[r] = "alarm"}
Capacity(p) ==
  region_worker_count(p) - IF stage[p] = "execute" THEN Cardinality(Alarmed(p)) ELSE 0

StartRegion(r) ==
  LET p == SubgraphOf[r] IN
  /\ r \in Planning(p) /\ task[r] = "idle" /\ pc[p] \in {"gather", "cancelled"}
  /\ Cardinality(ActiveIn(p)) < Capacity(p)
  /\ IF stage[p] = "execute" /\ prepared[r] = "none"
     THEN task' = [task EXCEPT ![r] = "done"]
     ELSE task' = [task EXCEPT ![r] = "llm"]
  /\ Emit(IF stage[p] = "prepare" THEN {Event("entered", r, planning_targets(r))} ELSE {})
  /\ UNCHANGED <<flow, cancels, prepared, thread, slots, mark, attempted, money>>

(* plan_symbolic_region: a provisional plan, or none: a result that needs no
   execution (unsupported, or a rejected answer) or an exception kept for later. *)
Prepare(r) ==
  /\ task[r] = "llm" /\ stage[SubgraphOf[r]] = "prepare"
  /\ \E o \in {"plan", "none"} :
       /\ prepared' = [prepared EXCEPT ![r] = o]
       /\ Emit(IF o = "plan" THEN {Event("received", r, {})} ELSE {})
  /\ task' = [task EXCEPT ![r] = "done"]
  /\ UNCHANGED <<flow, cancels, thread, slots, mark, attempted, money>>

(* execute_symbolic_plan: a final answer that binds some violations of the
   region, then at most one search; or a result without one, or an exception
   that degrades the region.                                                   *)
Execute(r) ==
  /\ task[r] = "llm" /\ stage[SubgraphOf[r]] = "execute"
  /\ \/ /\ task' = [task EXCEPT ![r] = "waiting"]
        /\ \E V \in {ViolationsOf[r], ViolationsOf[r] \cup planning_targets(r)} :
             Emit({Event("bound", r, V)})
     \/ task' = [task EXCEPT ![r] = "done"] /\ UNCHANGED events
  /\ UNCHANGED <<flow, cancels, prepared, thread, slots, mark, attempted, money>>

(* A provider or integrity failure ends the task and is raised by gather. *)
Alarm(r) ==
  /\ task[r] = "llm"
  /\ task' = [task EXCEPT ![r] = "alarm"]
  /\ UNCHANGED <<flow, cancels, prepared, thread, slots, events, mark, attempted, money>>
-----------------------------------------------------------------------------
(* _run_eda *)
EnterEda(r) ==
  /\ task[r] = "waiting" /\ Cardinality(slots) < EdaSlots
  /\ task' = [task EXCEPT ![r] = "eda"]
  /\ slots' = slots \cup {r} /\ thread' = thread \cup {r}
  /\ UNCHANGED <<flow, cancels, prepared, events, mark, attempted, money>>

ThreadEnds(r) ==
  /\ r \in thread /\ thread' = thread \ {r}
  /\ UNCHANGED <<flow, task, cancels, prepared, slots, events, mark, attempted, money>>

(* Slip: a search that fails keeps its slot. *)
EdaReturns_kept(r) ==
  /\ task[r] = "eda" /\ r \notin thread
  /\ \/ task' = [task EXCEPT ![r] = "done"] /\ slots' \in {slots, slots \ {r}}
     \/ task' = [task EXCEPT ![r] = "alarm"] /\ slots' = slots \ {r}
  /\ UNCHANGED <<flow, cancels, prepared, thread, events, mark, attempted, money>>

(* The worker returned: a result, or a failure of the infrastructure. *)
EdaReturns(r) ==
  /\ task[r] = "eda" /\ r \notin thread
  /\ slots' = slots \ {r}
  /\ \E t \in {"done", "alarm"} : task' = [task EXCEPT ![r] = t]
  /\ UNCHANGED <<flow, cancels, prepared, thread, events, mark, attempted, money>>

(* Slip: a cancelled search gives its slot back at once. *)
Interrupted_at_once(r) ==
  IF task[r] \in {"eda", "grace"} THEN "cancelled"
  ELSE IF Over(r) THEN task[r] ELSE "cancelled"

(* What a cancellation does to a region's coroutine: at an ordinary await it ends
   it; the first one during a search asks the worker to stop and waits for it,
   with the slot; a second one interrupts that wait.                           *)
Interrupted(r) ==
  IF task[r] = "eda" THEN "grace"
  ELSE IF Over(r) THEN task[r] ELSE "cancelled"

(* Task.cancel on every region of R that is not over.  A region that no task has
   started yet never starts.                                                   *)
CancelAll(R) ==
  /\ task' = [r \in Regions |-> IF r \in R THEN Interrupted(r) ELSE task[r]]
  /\ cancels' = [r \in Regions |->
       IF r \in R /\ task[r] \in {"eda", "grace"} THEN cancels[r] + 1 ELSE cancels[r]]
  /\ slots' = slots \ {r \in R : ~Over(r) /\ Interrupted(r) = "cancelled"}

(* The worker has stopped: the cancellation goes on, or, when the grace period
   was exceeded, an infrastructure failure replaces it.                        *)
GraceEnds(r) ==
  /\ task[r] = "grace" /\ r \notin thread
  /\ \E t \in {"cancelled", "alarm"} : task' = [task EXCEPT ![r] = t]
  /\ slots' = slots \ {r}
  /\ UNCHANGED <<flow, cancels, prepared, thread, events, mark, attempted, money>>
-----------------------------------------------------------------------------
(* asyncio.gather over the tasks of a stage, and its handler. *)

(* Slip: the siblings of the failed region are not awaited. *)
AwaitSiblings_not(p) == pc' = [pc EXCEPT ![p] = "raised"]

(* The plan goes on to the second gather, over the cancelled siblings. *)
AwaitSiblings(p) == pc' = [pc EXCEPT ![p] = "drain"]

NoticeFailure(p) ==
  /\ pc[p] \in {"gather", "leaving"} /\ Alarmed(p) # {}
  /\ CancelAll(Planning(p)) /\ AwaitSiblings(p)
  /\ UNCHANGED <<window, stage, hit, prepared, thread, events, mark, attempted,
                 money>>

DrainEnds(p) ==
  /\ pc[p] \in {"drain", "drain cancelled"} /\ ActiveIn(p) = {}
  /\ pc' = [pc EXCEPT ![p] = IF @ = "drain" THEN "raised" ELSE "cancelled"]
  /\ UNCHANGED <<window, stage, hit, tasks, events, mark, attempted, money>>

(* The first of the cancelled tasks to end completes the cancelled gather; the
   others may still be in their grace period.                                  *)
Leave(p) ==
  /\ pc[p] = "leaving" /\ Alarmed(p) = {}
  /\ ActiveIn(p) = {} \/ \E r \in Planning(p) : task[r] = "cancelled"
  /\ pc' = [pc EXCEPT ![p] = "cancelled"]
  /\ UNCHANGED <<window, stage, hit, tasks, events, mark, attempted, money>>

(* plan_subgraph is cancelled, because another one raised or at a signal.  If
   gather has already failed and the plan was not resumed yet, the cancellation
   wins: CancelledError is not among the exceptions the handler cancels for.   *)
CancelPlan(p) ==
  /\ ~hit[p] /\ hit' = [hit EXCEPT ![p] = TRUE]
  /\ \/ /\ pc[p] = "start" /\ pc' = [pc EXCEPT ![p] = "cancelled"] /\ UNCHANGED tasks
     \/ /\ pc[p] = "gather" /\ Alarmed(p) # {}
        /\ pc' = [pc EXCEPT ![p] = "cancelled"] /\ UNCHANGED tasks
     \/ /\ pc[p] = "gather" /\ Alarmed(p) = {}
        /\ CancelAll(Planning(p)) /\ pc' = [pc EXCEPT ![p] = "leaving"]
        /\ UNCHANGED <<prepared, thread>>
     \/ /\ pc[p] = "drain"
        /\ CancelAll(Planning(p)) /\ pc' = [pc EXCEPT ![p] = "drain cancelled"]
        /\ UNCHANGED <<prepared, thread>>
  /\ UNCHANGED <<window, stage, events, mark, attempted, money>>

(* All prepared: round two is computed and the workers start. *)
StartExecution(p) ==
  /\ pc[p] = "gather" /\ stage[p] = "prepare"
  /\ \A r \in Planning(p) : task[r] = "done"
  /\ stage' = [stage EXCEPT ![p] = "execute"]
  /\ task' = [r \in Regions |-> IF r \in Planning(p) THEN "idle" ELSE task[r]]
  /\ UNCHANGED <<window, pc, hit, cancels, prepared, thread, slots, events, mark,
                 attempted, money>>
-----------------------------------------------------------------------------
(* The end of plan(), without an await: isolated trials, graph, bundle, frontier
   sets, artifacts; then plan_subgraph merges the result and charges the trials. *)
local_events(p) == events \ mark[p]
Heard(p, kinds) == {e \in local_events(p) : e.kind \in kinds}

(* E are the regions that raised: their support report is not read. *)
unsupported_frontier(p, E) ==
  UnsupportedBy \cap claimed_frontier(p)
    \cap UNION {ViolationsOf[r] : r \in Planning(p) \ E}

llm_started_frontier(p) ==
  (UNION {planning_targets(e.region) : e \in {x \in Heard(p, {"received"}) :
                                                x.region \in Planning(p)}})
    \cap claimed_frontier(p)

plan_validated_frontier(p) ==
  (UNION {e.targets : e \in Heard(p, {"bound"})}) \cap claimed_frontier(p)

attempted_frontier(p, E) ==
  (llm_started_frontier(p) \cup plan_validated_frontier(p)) \ unsupported_frontier(p, E)

(* failed_call_audit of a plan that raised: entering planning is enough. *)
failed_call_audit(p) ==
  (UNION {e.targets : e \in {x \in Heard(p, {"entered"}) : x.region \in Planning(p)}})
    \cap claimed_frontier(p)

(* Slip: the trial count is read before the plan runs its own trials. *)
charge_early(p, n) ==
  used' = used + IF trials > before[p] THEN trials - before[p] ELSE 0

(* iteration_sandbox_jobs_used += max(trials - sandbox_trials_before, 0) *)
charge(p, n) ==
  used' = used + IF trials + n > before[p] THEN trials + n - before[p] ELSE 0

Trial(p, n) ==
  /\ n <= limit[p] /\ n <= TopM
  /\ trials' = trials + n /\ own' = [own EXCEPT ![p] = n]

Ready(p) ==
  /\ pc[p] = "gather" /\ stage[p] = "execute"
  /\ \A r \in Planning(p) : task[r] = "done"

Planned(p) ==
  /\ Ready(p)
  /\ \E n \in 0..TopM : Trial(p, n) /\ charge(p, n)
  /\ pc' = [pc EXCEPT ![p] = "planned"]
  /\ \E E \in SUBSET {r \in Planning(p) : prepared[r] = "none"} :
       attempted' = [attempted EXCEPT ![p] = attempted_frontier(p, E)]
  /\ UNCHANGED <<window, stage, hit, tasks, events, mark, before, limit>>

(* Any other exception of plan(), before the tasks or after them: no-ops for all
   regions, no charge for the trials it ran.                                   *)
Degraded(p) ==
  /\ \/ Ready(p) /\ \E n \in 0..TopM : Trial(p, n)
     \/ /\ pc[p] = "gather" /\ \A r \in Planning(p) : task[r] = "idle"
        /\ UNCHANGED <<trials, own>>
  /\ pc' = [pc EXCEPT ![p] = "degraded"]
  /\ attempted' = [attempted EXCEPT ![p] = failed_call_audit(p)]
  /\ UNCHANGED <<window, stage, hit, tasks, events, mark, before, limit, used>>

(* aggregate_plans: coordination gets what is left of the jobs. *)
Remaining == IF used < SandboxJobs THEN SandboxJobs - used ELSE 0

aggregate_plans ==
  /\ window = "planning" /\ \A p \in Subgraphs : pc[p] \in {"planned", "degraded"}
  /\ window' = "aggregated"
  /\ \E n \in 0..Remaining : used' = used + n
  /\ UNCHANGED <<pc, stage, hit, tasks, events, mark, attempted, trials, before,
                 limit, own>>
-----------------------------------------------------------------------------
Ended == {"planned", "degraded", "raised", "cancelled"}

(* Some plan did not return: the run stops, and asyncio.run cancels what is left. *)
Abort ==
  /\ window = "planning" /\ \A p \in Subgraphs : pc[p] \in Ended
  /\ \E p \in Subgraphs : pc[p] \in {"raised", "cancelled"}
  /\ window' = "aborted"
  /\ CancelAll(Regions)
  /\ UNCHANGED <<pc, stage, hit, prepared, thread, events, mark, attempted, money>>

RegionStep(r) ==
  \/ StartRegion(r) \/ Prepare(r) \/ Execute(r) \/ Alarm(r)
  \/ EnterEda(r) \/ EdaReturns(r) \/ GraceEnds(r)

PlanStep(p) ==
  \/ StartPlan(p) \/ NoticeFailure(p) \/ DrainEnds(p) \/ Leave(p)
  \/ StartExecution(p) \/ Planned(p) \/ Degraded(p)

Run ==
  \/ \E r \in Regions : RegionStep(r) \/ ThreadEnds(r)
  \/ \E p \in Subgraphs : PlanStep(p)
  \/ aggregate_plans \/ Abort

Next == Run \/ \E p \in Subgraphs : CancelPlan(p)

Spec == Init /\ [][Next]_vars

(* As long as something can run the event loop runs something: calls of the LLM
   have deadlines, and a worker thread ends, because EDA commands have timeouts
   and obey their control.  Nobody has to cancel.                              *)
FairSpec == Spec /\ WF_vars(Run)
-----------------------------------------------------------------------------
(* "Do not release the shared EDA slot while the worker can still mutate its
   owned workspace" (_run_eda): a worker thread without a slot belongs to a
   region that was cancelled twice.                                            *)
SlotCoversWorker == \A r \in thread : r \in slots \/ cancels[r] = 2

(* A plan that returned, degraded or raised has left no region task behind: its
   frontier sets, its trials and the abort of the run see a plan at rest.  Only
   a plan that was cancelled itself may (its gather ends with the first task). *)
EndedPlansAreAtRest ==
  \A p \in Subgraphs : pc[p] \in {"planned", "degraded", "raised"} => ActiveIn(p) = {}

(* No work outlives what it holds: a thread its slot, a region task its plan.  *)
WorkIsContained == SlotCoversWorker /\ EndedPlansAreAtRest

(* A target counts as attempted only for work done in this window by a region of
   the plan that reports it, although all plans share one audit log
   (planning.py: "A returned LLM plan, binding/root progress, or a fresh physical
   evaluation does").                                                          *)
AttemptedIsOwnWork ==
  \A p \in Subgraphs : pc[p] = "planned" =>
    \A v \in attempted[p] : \E e \in events :
      /\ e.window = 1 /\ e.region \in Planning(p)
      /\ \/ e.kind = "received" /\ v \in planning_targets(e.region)
         \/ e.kind = "bound" /\ v \in e.targets

(* The iteration is charged at least the trials of its planned subgraphs, however
   their awaits interleave: a difference read across an await may charge a trial
   twice, never forget one.                                                    *)
ChargeCoversTrials ==
  used >= MapThenSumSet(LAMBDA p : own[p], {p \in Subgraphs : pc[p] = "planned"})

(* However failures, cancellations and workers interleave, every plan ends, the
   window is aggregated or aborted, and nothing keeps running.                 *)
PlanningEnds ==
  <>(window # "planning" /\ thread = {} /\ \A r \in Regions : ~Active(r))
=============================================================================
