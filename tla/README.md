# A TLA+ development for DRCAgent

DRCAgent repairs design-rule violations of a layout.  One *run* works on one
benchmark case: it plans repairs with an LLM and a library of repair kernels,
executes them with EDA tools in containers, and commits the ones whose fresh
evidence shows progress.  The modules in this directory model the parts of the
program that coordinate processes, tools, files and restarts.  They are written
from the source (paths below are relative to `src/src/drc_agent/`), which is
shipped partly as compiled extension modules; what is compiled is modelled only
through the way the Python source uses it, and is marked external in
`PROJECT.json`.  The repository has no tests.

## 1. Inventory

| component | state it keeps | operations | talks to |
|---|---|---|---|
| Resource arbiter (`infrastructure/resource_arbiter.py`) | slot files `<kind>-NNN.lock` with JSON metadata, POSIX record locks, `events.jsonl`, `policy.json` | acquire (scan, lock, probe, admit), update/clear worker, close, status, async bridge | every process on the machine or the shared file system; `docker inspect` |
| Transaction executor (`backends/transaction.py`) | `attempts/<id>/`, `attempt_index.jsonl`, `latest_attempt.json` and alias files, EDA reservation, job workspace | execute (prepare, patch, five tools, verdict, publication, cleanup), ledger register/terminal | EDA backend, validation budget, evaluator |
| Workflow runtime (`workflow/runtime.py`) | `_Session`, safe checkpoints (SQLite), `manifest.json`, window results, iteration summaries, experience journal | the workflow nodes from initialize_case to finalize_run; run, resume, abort | everything below, through the compiled workflow graph |
| Continuation (`workflow/runtime.py`, compiled `continuation`) | `continuation/records.jsonl`, execution envelope in the manifest | resume with an amendment, verify-only | runtime, command line |
| Regions and agent graph (`regions/`, `graphs/agent.py`) | none between calls | net components, association, grouping of violations into regions, edges between regions, three message rounds; rebuilt from each snapshot | runtime |
| Region context (`regions/topology.py`, `agents/context.py`) | none between calls | topology around a region's violations, hints, truncation to a token budget, grounding | planner, LLM |
| Active window (`workflow/active_window.py`) | none between calls | select a dependency-closed window; coordinate its candidates in rounds of solving and verifying | agent graph, sandbox, CP-SAT coordinator |
| Window planning (`workflow/runtime.py` plan_subgraph, `workflow/planning.py`) | shared audit log, EDA semaphore, sandbox trials, per-plan frontiers | plan several subgraphs side by side, each with parallel regions; aggregate | LLM client, repair kernels, sandbox service |
| Repair trajectory (`repair_kernel_integration/production_engine.py`) | plan in force, bound plan, revision counts, live budget, candidates, failures | bind an LLM plan to the scenes, search, revise after feedback, condense | planning; kernels (compiled) |
| Candidate checks (`actions/candidates.py`) | verdict on a candidate | six levels of validation | planning |
| Batching and attribution (`coordinator/batching.py`) | none | schedule bounded batches, delta-debug a failed batch | coordination |
| LLM client, EDA backends, lock primitive, experience store, kernels | compiled | | |
| Configuration, schemas, metrics, CLI, benchmarks | data, reporting, dispatch | | |

`PROJECT.json` lists every component with its sources, including the ones that
are not modelled and why.

**How they interact.**  `ResearchRuntime.run` or `.resume` owns a run directory
under a lock and drives the workflow: initialize, parse and build the graph,
then iterations of rolling windows.  Each window is selected from the current
frontier, planned by parallel tasks (LLM calls and sandbox trials, both behind
the resource arbiter), coordinated into one patch, executed by the transaction
executor (EDA tools, again behind the arbiter), and committed or rolled back.
Commits and completed windows are checkpointed; the manifest is written when a
process starts, stops and completes.

**What is hard.**  Several processes on several hosts share slot files, with no
server: locking, orphan detection and crash recovery are a protocol over
`lockf`, file rewrites and process probes.  The tools of a transaction fail in
many places and the accounting of attempts must survive each of them, including
interruptions.  A run stops anywhere and continues from a checkpoint that has to
agree with other files written at other times.  What each component must
guarantee:

* arbiter: a slot never runs two operations, an orphaned worker keeps its slot,
  no slot is lost, polling requests are served;
* transaction: each physical attempt has exactly one terminal record, its
  reservation is settled, only completely proven repairs are committed, and
  what is returned agrees with what is on disk;
* runtime: windows work on the current snapshot, checkpoints skip nothing,
  counted windows are not repeated, stopped runs can be resumed, a run stops for
  the reason it reports and does stop;
* continuation: one process executes a run, under the last authorization; a crash
  between journal and manifest loses neither an interrupted run nor granted
  iterations (it does lose a run that was granted budget); a repeated command is
  free;
* regions, graph, context: violations that share what a repair may write are
  planned together or told of each other; what a planner is shown is closed,
  citable and repairable however much was cut;
* windows: dependency closure, helpers bound, exact verification, back-off to a
  singleton, no bundle paid for twice, no batch split;
* planning: no work outlives the slot or the plan it belongs to, what a plan
  reports as attempted is its own work, trials are charged;
* trajectory: a revision never exceeds the authority its feedback grants, every
  target ends with a candidate or a reason, failures of the infrastructure reach
  the runtime;
* candidate checks: what passes has no degenerate polygon, overfills no resource,
  and takes a shape apart only into pieces whose extents along it leave no gap
  outside the fragment under repair.

`PROJECT.json` "hazards" lists the hazards at their lines with the property that
covers each, or the reason why none does.  Section 7 names those the properties
do not reach.

## 2. Plan

| module | status | composes / refines |
|---|---|---|
| `BoundedPool`, `ResourceArbiter`, `ResourceArbiterProofs` | done | the arbiter refines the pool (checked and proved) |
| `TransactionAttempt`, `TransactionAttemptProofs` | done | uses the acceptance policy |
| `RunLifecycle`, `RunLifecycleProofs` | done | abstracts a window to an arbitrary outcome |
| `Continuation`, `ContinuationProofs` | done | the resume of `RunLifecycle` with records, amendments and concurrent commands |
| `WindowPlanning`, `WindowPlanningProofs` | done | parallel plans, slots, audit log; abstracts a region's plan |
| `RepairTrajectory`, `RepairTrajectoryProofs` | done | one region's plan |
| `RegionGraph`, `RegionContext` | done | the context is built on the graph |
| `ActiveWindow`, `WindowCoordination`, `Batching` | done | coordination hands its bundle to the scheduler of `Batching` |
| `WindowStagesProofs` | done | about `ActiveWindow`, `RegionGraph` and `RegionContext` |
| `WindowCoordinationProofs` | done | about `CandidateCheck`, `WindowCoordination` and `Batching` |
| `CandidateCheck` | done | |
| `MCWindowStages` | done | the five stages before a transaction in one run |
| `DurableRun` | open | an abstract run (a sequence of committed snapshots) that `RunLifecycle` would refine |

## 3. Modules

### 3.1 `ResourceArbiter` and `BoundedPool`

One pool of one kind (`http` or `eda`): `limits[kind]` slot files.  Each *call*
is one `acquire()` with the operation it protects, or one
`read_resource_status()` (*inspector*).  `pc`, `at` and `job` say where a call
is in `_try_acquire`, `update_worker`, `clear_worker` and `close`; `record` is
the POSIX record lock of each slot file and `file` its contents; `op` is the
worker process or container the lease started and `recorded` the leases whose
worker is durable in the slot file.

Actions follow the code between two externally visible steps: `Poll`,
`TryLock`, `ReadMetadata`, `ProbeOwner`, `Truncate` and `Flush` (the rewrite of a
slot file is not atomic, and a crash or an inspector may see the empty file),
`Announce` (the audit event, which may fail and is undone), spawning and
recording a worker, release, and the cancellations of the asyncio bridge.
`Crash` kills a process: its record locks vanish, its files and its workers
stay.

Abstractions: the orphan probe is one step; host name and boot id are part of
the process identity, which is never reused; a call performs one operation; the
retry of buffered data when a stream is closed after a failed write is not
modelled; `events.jsonl` and `policy.json` appear only through the fact that
writing them can fail.

`BoundedPool` is what callers rely on: a slot is used by one call and
a call uses one slot; slots are taken one at a time and given back, several at once
when a process dies with its calls.  `ImplementsPool` maps the
operations in flight, those of orphans included, onto the pool's usage.

### 3.2 `TransactionAttempt`

The `execute()` calls that one window sees: the first one and those of resumed
runs (`MaxCalls`).  `stage` is the line the running call has reached; `attempt`,
`retryOf`, `written`, `index` and `claim` are the attempt ledger and its
reservation, and `lost` remembers the attempts whose terminal record could not be
appended; `validity`, `failure`, `score` are the evidence in memory; `disk`,
`pointer`, `alias` and `workspace` are the files.  Every tool may fail, report a
missing executable, be cancelled, or raise; `Raise`, `Unwind` and `Kill` are the
decorator `_account_physical_attempts` and process death at any stage.
`evaluate_acceptance` is translated with its four switches as constants.

Abstractions: appending the terminal record and settling the reservation are one
step; the files of a directory that are always written together are one entry;
the external scorer returns arbitrary counts in 0..1 with a baseline of 1; the
legacy aliases and the path-remapping rewrite of the same records are folded
into their steps.

### 3.3 `RunLifecycle`

One run directory and the successive processes that work on it.  `pc` is the
workflow node about to run, `session` the part of `_Session` that checkpoints
carry, `resumed` the resume state, `view` the snapshot that the violations and
the graph in memory describe, `window` the active window and its outcome,
`flags` the two booleans that checkpoints do not carry.  On disk: the latest
safe `checkpoint`, the `manifest`, the window `results`, the experience
`journal` and the iteration `summaries`.

Handlers that write several files are split between the writes, because a kill
or an exception may fall there: `commit_or_rollback` (session and result, then
the experience journal, then the checkpoint), `finish_iteration` (summary, then
checkpoint), `initialize_case` (manifest, then checkpoint), `finalize_run`.
They never await, so a signal, which the handler turns into a task
cancellation, cannot fall between (`InHandler`).  `Abort` is
`_finalize_aborted` for each kind of exception, `Kill` is SIGKILL or an abort
whose manifest could not be written, `resume` is `_resume_p5` without an
amendment with `_resume_session`.

Abstractions: a snapshot is its set of residual violations: under the
acceptance switches of every released configuration a commit leaves a proper
subset, so `best_snapshot` equals `current_snapshot`.  Planning, coordination
and the transaction of a window are one step with an arbitrary outcome, cost and
flags (`TransactionAttempt` has the detail of the transaction).  Selection
returns any non-empty subset of the pending frontier, or none.  Engineering
target restriction, the lists of skipped violations and identity comparisons of
`_resume_p5` that a single installation always passes are left out.  The order of
the nodes and "latest safe checkpoint" are compiled and taken from how
`runtime.py` relies on them.

### 3.4 `Continuation`

`run`, `resume`, `_resume_p5`, `_resume_legacy`, `initialize_case` and
`_finalize_aborted` as seen by several commands on one run directory.  On disk:
`manifest`, `journal` (`continuation/records.jsonl`) and `checkpoint`; `owner` is
who holds `continuation_lock`; per process `pc`, its `request`, its copy of the
manifest (`mem`) and its session (`work`).  A command reads the manifest, takes
the lock or meets a conflict, reads the manifest again, and then declines,
authorizes (appends a record) or continues; the manifest that names the record is
written only by `initialize_case`, so a kill may fall in between.  A run of the older protocol takes `ResumeLegacy`, which
ends in a NameError for what passes its checks (`status`, 1215).  `Accepts`
conjoins the comparisons of `_resume_p5`; `RecordValid` is the validator that
every reading of the journal applies.  Aborts, kills and a changed installation
may come at any point.

Abstractions: the windows of an iteration are checkpoints that may move the
snapshot; one budget stands for the three budget fields; hashes and identities
are one fact, whether the installation is the original one; the lock and the
journal primitives are compiled and taken from how `runtime.py` uses them.

### 3.5 `WindowPlanning`

The `plan_subgraph` tasks of one window.  An action is what a coroutine does from
one await to the next.  `pc`, `stage` and `hit` follow the plan of a subgraph,
`task`, `cancels` and `prepared` the coroutines of its regions, `thread` the EDA
worker threads and `slots` the shared semaphore (`_run_eda` keeps the slot of a
cancelled search for a grace period while its thread still writes), `events` and
`mark` the shared audit log and where each plan started reading it, `trials`,
`before`, `limit` and `used` the sandbox charge.  An infrastructure failure of one
region drains its siblings; cancellations come from outside at any await.

Abstractions: a region uses the slots at most once; what its plan contains is
`RepairTrajectory`; the path without the formal kernel is left out.

### 3.6 `RepairTrajectory`

`FormalProductionTrajectoryEngine.plan` for one region: the symbolic plan and its
one rebinding, the revision of the preferred DOFs, the loop over targets and root
proposals, searches with a retry, revisions after execution feedback
(`validate_execution_feedback_revision`), condensation, finalization.  Plans are
records over small sets; `world` holds what the compiled kernels decide (which
DOFs have executable proposals); a search or condensation ends in any way, and an
LLM answer is any plan of `Plans` or a failure.

### 3.7 `RegionGraph` and `RegionContext`

From a report to the context a planner is shown.  `RegionGraph` steps through the
nodes of the runtime: nets, association of objects with violations (seed window,
halo), the union-find with path halving over hard pairs and affinity merges within
the caps, splitting, region records, the edges of the agent graph, and the three
message rounds.  `RegionContext` builds the topology around a region's violations
and the compact context, truncates it one step at a time, and grounds each
violation on its witness or on geometry.  The layout lies on one axis: a box is an
interval.  The token estimate is left open, so truncation may stop after any step.

### 3.8 `ActiveWindow`, `WindowCoordination`, `Batching`

`ActiveWindow` is `select_active_window` with the engineering restriction: seed,
hard closure, soft growth, region roles, helper bindings; the attempted targets of
a window leave the frontier before the next selection.  `WindowCoordination` is
`coordinate_active_window`: rounds of solving (external), compiling (external), caps,
reuse of isolated evidence, sandbox, judgement, no-goods, one retry at the same
cardinality and back-off.  It EXTENDS `Batching`, whose `schedule` packs the verified
bundle and whose `Attribute`/`Replay`/`Conclude` narrow a failed batch down.

### 3.9 `CandidateCheck`

`CandidateChecker.validate`: a candidate with its design goes through identity,
sources, editability, geometry, resources and anchors, one action per level.
Polygon, segment and box arithmetic is translated in two dimensions; so are the
decomposition of a shape into pieces, the semantic postconditions, the locality
test and the heuristic benefit.

## 4. Runs

Bounds are chosen so that every action fires and every hazard can occur: two
competitors and a third that arrives late, two slots so that scanning goes past a
busy one, two windows so that the second depends on the first, two iterations so
that counts cross an iteration.

| run | bounds | shows |
|---|---|---|
| `arbiter_safety` | 3 calls in 3 processes on 2 hosts, 2 slots, event and metadata faults, crashes | `SlotExclusion`, `OrphanStaysVisible`, `LeaseKeepsLock`, `ImplementsPool`, `TypeOK` |
| `arbiter_reclaim` | 1 slot, 2 requests, an inspector, 1 cancellation, crashes | `NoSlotLost`; `RequestsServed` under fairness |
| `arbiter_siblings` | 2 threads of one process and another process | counterexample to `SlotExclusion` |
| `attempt_accounting` | 2 calls, most permissive acceptance, terminal records may be lost | `Accounted`, `RetryAfterFailure`, `CommittedIsProven`, `ReturnIsEvidenced`, `ClaimsSettled`, `TypeOK` |
| `life_safety` | 2 violations, 2 iterations of 2 windows, 1 stop | `WindowSeesCurrent`, `RecordsComplete`, `StoppedRunsResume`, `StopJustified`, `NothingIsRepeated`, `TypeOK` |
| `life_ends` | 2 iterations of 1 window, 1 stop | `RunEnds` under fairness |
| `life_killed` | as `life_safety` | counterexample to `KilledRunsResume` |
| `continuation` | a run and 3 resume commands with 6 kinds of request, 2 stops, 1 commit after the baseline | `WriterIsAuthorized`, `RecordsValid`, `StoppedRunsGoOn`, `RepeatedRequestsAreFree`, `DecisionsAreCurrent` |
| `planning` | 2 subgraphs, 4 regions (a helper, a context region), 1 EDA slot, 1 sandbox job | `WorkIsContained`, `AttemptedIsOwnWork`, `ChargeCoversTrials`; `PlanningEnds` under fairness |
| `trajectory` | 2 violations, 3 DOFs, 10 worlds, 30 plans, depth 2, 1 live evaluation | `SearchesAreLawful`, `EveryTargetExplained`, `RevisionsStayAuthorized`; `RegionEnds` under fairness |
| `trajectory_alarms` | as `trajectory` | counterexample to `FailuresReachRuntime` |
| `stages` | below | `RegionsAreSound`, `NeighboursAreTold`, `ContextIsSound`, `WindowIsSound`, `CoordinationIsExact`, `BatchesAndBlame`, `CandidatesAreSound` |

`stages` explores five stages from all their own inputs while the others are idle;
between any two of them stands a planner or a compiled component, and they hand
over plain values.  Regions: four violations in some 850 placements over six
objects (a long wire, short ones, a via, frozen ones).  Selection: every graph over
four regions with at most three edges, in six ways of laying regions out in scopes.
Coordination: four candidates, two writing a common object, budgets from 0 to 5
rounds.  Batching: lists of up to three of eight bundles.  Candidates: some 9000, any
quadrilateral and many pentagons on a small grid, any cutting of a horizontal and a
vertical wire into two pieces and many into three, side pieces beside the wire, wider
than it or on another layer, pairs of edits on one source, up to three claims on three
resources, one odd candidate per remaining refusal.

Several properties are conjunctions of parts that are stated one by one in the
module (`ReturnIsEvidenced`, `RecordsComplete`, `NothingIsRepeated`,
`WriterIsAuthorized`, `StoppedRunsGoOn`, `WorkIsContained`, `SearchesAreLawful` and
those of `stages`); every part has a slip of its own in `PROJECT.json` "mutants", or
is violated together with its neighbour by one.

`attempt_accounting` uses the most permissive acceptance switches on purpose:
what holds there (a commit needs a complete chain of fresh evidence) does not
come from the switches.  In the `life_*` runs a window costs 0 or 3 of 5 sandbox
jobs, so that iterations end by deferral (fewer than 3 left) as well as by their
window limit and by an exhausted frontier.

**Symmetry** is used where constants are interchangeable (calls with their
processes in the arbiter, violations in the life cycle, resume commands) and never with a
liveness property.  **Deadlock checking** is off where the system may
stop: calls that are done, runs that are over.

**Fairness.**  `arbiter_reclaim` assumes weak fairness of each living call's own
steps and that operations finish; waiting requests poll, as the loop in
`acquire` does, and a probe that repeatedly finds a free slot is eventually the
one that takes it.  `life_ends` assumes only that the event loop keeps running
the workflow (`WF_vars(Workflow)`); stops and resumes are never assumed.
`planning` assumes that the event loop runs every coroutine that can go on and that
LLM calls, sandbox trials and EDA commands end (they have deadlines): `WF_vars(Run)`,
which leaves out the cancellations.  `trajectory` assumes the same of the single
coroutine of a region (`WF_vars(Next)`).

Every property of a passing run has a *slip*, a plausible wrong version of a
definition placed just before it in the module, under which that run finds the
property violated.

## 5. What the counterexamples say

1. `arbiter_siblings`: a failed attempt by a sibling thread closes a descriptor
   of the slot file and so drops the record lock of its whole process.
2. `life_killed`: the first manifest of a run lacks the snapshots that resume
   compares, so a killed run cannot be resumed.
3. `trajectory_alarms`: infrastructure and integrity failures are RuntimeErrors and
   are caught as failures of one region's plan.

Each is quoted with its lines in `PROJECT.json` "findings".  Further ways in
which the code departs from what its comments suggest are visible in the models and
have no run of their own: a budget amendment killed between the append of its record
and `initialize_case` is refused by every later command (`CutOffAmendments`), which
the comment at `runtime.py:1430` does not say; `_resume_legacy`, whose docstring says
that it preserves the older resume, never executes anything; a `docker inspect` that fails counts as "no container"
(`DockerFaults`), a second cancellation of the asyncio bridge abandons the lease
(`resource_arbiter.py:745`), and a run interrupted after its last iteration and
resumed executes one more (`Iterations` in `RunLifecycle` allows for it).

## 6. Proofs

`ResourceArbiterProofs` proves for every number of calls, processes, hosts and
slots:

* `TypeCorrect`: `Spec => []TypeOK`.
* `LockKept`: `Spec /\ [][~SiblingLosesLock]_vars => []LeaseKeepsLock`.
  `SiblingLosesLock` is the step in which a call closes its stream of a slot file
  while another call of its process is at work on the same file.
* `InFlightExclusive`: `Spec /\ [][Undisturbed]_vars => []SlotExclusion`, where
  `Undisturbed` excludes that step and one other, `ContainerOverlooked`: a probe takes
  the running container of a dead owner for gone because docker did not answer.
* `OrphanVisible` and `RefinesPool`: the same of `OrphanStaysVisible` and
  `ImplementsPool`.  `StepTurnsOne`: only a crash changes the use of the pool by more
  than one call; `SlotExclusion` after the step is the guard of `Take`.

  These four hold for any number of calls per process and whether or not docker
  answers: the hypotheses are about single steps of a behaviour, not about how the
  program is deployed.  They say that two steps of the code, and no others, can put two
  operations into one slot.  Neither hypothesis can be dropped: both steps do occur,
  `arbiter_siblings` shows what the first leads to, and an instance with
  `DockerFaults` the second.
* `SlotsReturned`: if slot metadata can always be read and written (`~SlotFaults`),
  `Spec => []NoSlotLost`, for any number of calls per process and any docker.
  `OwnerInLease` says at which steps of a call its slot may still name it.  With
  `SlotFaults` the property is false: the RELEASED rewrite may be the one that fails.

`SlotExclusion` is not inductive: a new owner is admitted because the metadata
it read named no living owner, so the invariant has to say what the metadata of
an occupied slot looks like at every intermediate step of a rewrite.  The
strengthening `FlightInv` conjoins `TypeOK`, `LockInv` (`LeaseKeepsLock`, and that the
calls of one process are at work on different slots), `WorkerPlace` and
`RecordPlace` (where a started or recorded worker can be), `FlushOntoEmpty` and
`RecordWritten` (what a rewrite in progress has done to the file), and
`OrphanGuarded` (the file of an orphan's slot names it unless it is being
examined under the lock).  Each action has a step, and each conjunct it can
disturb a step below it.

`TransactionAttemptProofs` proves for every number of calls and every setting of
the four acceptance switches:

* `TypeCorrect`: `Spec => []TypeOK`.
* `CommitsProven`: `Spec => []CommittedIsProven`.  The invariant `ProofInv` adds
  what the order of publication guarantees: no directory says COMMITTED before
  the call that owns it writes the verdict (`NotYetCommitted`), complete evidence
  has put every file in place by then (`EvidenceFiled`), and `verification.json`
  is the verdict on the evidence in memory (`VerdictWritten`).
* `ReservationsReturned`: `Spec => []ClaimsSettled`, and `AttemptsAccounted`:
  `Spec => []Accounted`.  `LedgerKept` follows the active ledger: nothing is
  recorded for an attempt until its terminal is due, it is `Settled` once
  `written`, and so is the attempt that a retry names.
* `RetriesFollowFailures`: `Spec => []RetryAfterFailure`.  `RetryKept` carries the
  failed attempt through the claim and the registration of its retry.
* `ReturnsEvidenced`: `Spec => []ReturnIsEvidenced`.  The verdict is formed three times,
  for `transaction.json`, the terminal record and the caller; `ReturnKept` says that the
  first and the evidence stay as they are until the call has returned, and
  `VerdictsAgree` that on the same evidence the three are one.

`ContinuationProofs` proves for any set of resume commands, any requests and any
number of stops:

* `TypeCorrect`: `Spec => []TypeOK`.
* `OneWriter`: `Spec => []SingleWriter`, and `DecidedOnDisk`:
  `Spec => DecisionsAreCurrent`.  `OwnerInv` says that whoever is between the lock and
  the end of its execution is the only owner, and that the manifest being decided on
  is the one on disk.
* `AuthorizedWriter`: `Spec => []WriterIsAuthorized`.  `AuthorityInv` says that the
  memory of the writer, and after `initialize_case` the manifest, carry the last
  durable record; it needs `OwnerInv`, because another process could append one.
* `JournalReadable`: `Spec => []RecordsValid`, from `AcceptedIsValid`: what
  `_resume_p5` accepts passes the validators of the record.
* `StoppedRunsContinue`: `Spec => []StoppedRunsGoOn`.  `AtRest` says how the three
  durable stories of a run relate (manifest and checkpoint agree outside RUNNING; a
  completed run has used up its last published envelope, and the journal is at most one
  amendment ahead, asked for in the status the manifest still has: `CutOff`), `InWork` that the checkpoint of a run in execution is the work of
  its one writer.
* `RepeatedRequestsStartNothing`: `Spec => RepeatedRequestsAreFree`.  A published
  record asks for iterations that `Exhausted` says are done, or that a later envelope
  includes (`JournalGrows`), so naming it again is no extension.

`RunLifecycleProofs` proves every safety property that `life_safety` checks, for any
baseline, any limits and any number of stopped processes:

* `TypeCorrect`: `Spec => [](TypeOK /\ Bounds)`.  `Bounds` says how far the counters
  have come: each stopped process buys the run at most one more iteration, because a
  completed run is not resumed.
* `PlannersSeeCurrent`: `Spec => []WindowSeesCurrent`.  `Rebuilt` follows the view
  through the nodes between a commit and the refresh.
* `MemoryAgrees`: `Agreement` relates the session to the checkpoint at every node (they
  differ only inside the handlers that are about to save) and `Stopped` the manifest of
  a stopped run to the checkpoint.  From it follow `StoppedRunsAreResumable`
  (`[]StoppedRunsResume`) and `CountedIsFinal` (`NothingIsRepeated`).
* `RecordsAreComplete`: `Spec => []RecordsComplete`.  `Journals` says which windows are
  in the experience journal at every node, also when an iteration continues after a
  resume; `Chained` says where the session stands in the chain of summaries.
* `StopsAreJustified`: `Spec => []StopJustified`.  `Tallies` ties the counters in
  memory to the records on disk: `no_progress` to the summaries (`TallyNext` is the
  arithmetic of `finish_iteration`) and the statuses to the window results.

TLC has checked each of these invariants on the instance of `life_safety`.

`WindowPlanningProofs` proves for any number of subgraphs, regions and slots:

* `WorkContained`: `Spec => []WorkIsContained`.  `Holding` says for each place of a
  region's coroutine where its slot and its worker thread are; `CancelKeeps` that
  `Task.cancel` respects it at every await.
* `TrialsCharged`: `Spec => []ChargeCoversTrials`.  The charge is a sum over the planned
  subgraphs, a fold; `TotalSplits` and the lemmas around it take it apart from its
  recursive definition.  `ChargeInv` says that every plan measures its own trials from
  a count the shared counter had reached, so the differences are never too small.
* `AttemptedIsOwn`: `Spec => []AttemptedIsOwnWork`.  The frontier of validated plans is
  read from events of *all* plans (`plan_validated_frontier` does not look at the
  region), so the proof needs what keeps them apart: no violation belongs to two
  regions, and a helper's target is cut down to the claims of its own subgraph
  (`TargetsClaimed`).

`RepairTrajectoryProofs` proves for any violations, proposals, plans and limits:

* `TypeCorrect`: `Spec => []TypeOK`, and `Invariant`: `Spec => []IInv`, from which the
  others follow.  `Adopted` says that from the first binding on the bound plan is the
  binding of the plan in force and no proposal within reach moves a DOF it forbids;
  `Asked` what a request for a revision carries; `Recorded` relates the searches so far
  to the plans received so far, `Fresh` to the violations and the proposals still to
  come (a search that is due has not been recorded), `Visited` the selected violations
  to the queue and the failures.
* `SearchesLawful`: `Spec => []SearchesAreLawful`; a revision that narrows the allowed
  DOFs filters what was already queued, which `Adopted` carries over the revision.
  `SharedOnlyByAlternation` is about the evidence directories, which are named by plan
  id, target and proposal: within one plan no two searches share one, and over
  revisions only the second searches (`search_01`) of plans that bear the same id with
  another plan between them.
* `TargetsExplained`: `Spec => []EveryTargetExplained`.
* `AuthorityKept`: `Spec => RevisionsStayAuthorized`, an action property: the two kinds
  of revision are validated against the feedback that forced them, and the last
  conjunct, that an alternative remains executable, follows from the binding and not
  from the validation alone.

`WindowCoordinationProofs` proves for any candidates, caps and budgets:

* `CoordinationExact`: `CoordinationSpec => []CoordinationIsExact`.  `RoundsLeft` keeps
  a round for every cardinality below the cap, which the retry at the same cardinality
  must not spend; `Bought` that a bundle the sandbox was asked about is a no-good before
  the solver is asked again; `Verified` that what is verified fits into one batch by the
  scheduler's own count.
* `BatchesAndBlameHold`: `BatchingSpec => []BatchesAndBlame`.  `PackedWell` is the
  invariant of the loop of `schedule`, carried over its turns by induction on a set of
  numbers; `Narrowed` follows the delta debugger.

* `CandidatesSound`: `CheckSpec => []CandidatesAreSound`.  `CheckInv` says what each level
  of the checker leaves behind.  The rest is what those tests imply.  The checker compares
  only edges that are not neighbours, by orientations and bounding boxes, while
  `GeometryIsSimple` asks for common points, by solving for them.  `CommonPointsAreFound`
  joins the two (a common point puts the end points of each segment on either side of the
  other, or, where they are parallel, an end of one between those of the other);
  `NoSpike` covers the neighbours: an edge that folds back puts a corner on an edge that is
  not its neighbour, which is compared, and in a triangle makes the area zero.
  `ExtentsMeet`: the sides of a hull are sides of pieces (`Hulls`), and each piece
  reaches into the fragment, so the extents of the pieces that end where the shape ends
  span what is left and right of it; the code looks at nothing but these extents, and
  the property claims nothing but them.  `DemandIsMet`: the last claim on a resource is tested against the
  demand of all of them.

`WindowStagesProofs` proves for any layout, report, agent graph, scopes and budgets:

* `SelectionInvariant`: `SelectionSpec => []SelectionInv`, and from it `WindowsAreSound`:
  `SelectionSpec => []WindowIsSound`.  That a window is connected speaks of what a
  breadth-first search reaches, so the proof rests on `SpreadIsLeast`: `Spread` is the
  least set that holds the start and what its members are joined to.  The search is over
  after as many rounds as there are nodes because a round that adds nothing is the last,
  and each of the others adds one.  `Closing` says that a scope whose hard dependents are
  not all selected waits in the queue, `HardKept` that a closed set around the seed
  stays within the selection while the soft growth adds scopes that are not closed,
  `Tied` that no smaller set within the selection holds the seed and is closed,
  `Restricted` that the restriction ended on a set that expands no more.
  `HelpersReachDecisions` is why the two traversals agree: what the first reaches from
  the decision regions within the window, the second reaches a decision region from.
* `NeighboursAreInformed`: `ContextSpec => []NeighboursAreTold`.  `EdgesJoinRegions`
  keeps the ends of the edges among the regions through the pruning, so that every
  sender has intents.
* `RegionsSound`: `ContextSpec => []RegionsAreSound`.  `ClosureByLabel` shows that a
  forest, a repeated merging of linked classes and a set of labels spanned by the pairs
  are three ways to the same classes, so that path halving and the order of the unions
  do not matter; a root is found after as many steps as there are elements because each
  step goes to a smaller one.  `SplitParts` does the same for the recursive cut: a round
  halves every part that needs it, a part that was cut has fewer members, and after as
  many rounds as there are members none needs a cut.  `RegionInv` carries this through
  the build: pairs that share a firm object are united or still to come, and a group is
  within the caps or a component of such pairs.
* `ContextsAreSound`: `ContextSpec => []ContextIsSound`.  `ContextInv` says of a context
  from its serialization to the prompt that its lists are orders of sets of listed
  things (a fragment or a landing is popped only when nothing names it any more), that
  its witnesses and hints are those of exactly the violations it lists, and that a
  violation an editable source can repair comes first, where the truncation never
  reaches it.  `DerivedFits` is the arithmetic of the hints: a distance rounded up to
  the grid closes the shortfall it was derived from, and only one within the cap is kept.

Assumptions on the constants that the proofs use and TLC evaluates: the proposals of a
region have distinct ids and the regions list each violation once
(`TrajectoryAssumption`); the numbers of the configuration are at least 1 or 0, as
`config/loader.py` requires them (`Field(ge=...)`); there are finitely many subgraphs,
scopes, regions and violations, and a report's graph is finite and well formed
(`PlanningAssumption`, `SelectionAssumption`, `BatchingAssumption`,
`CoordinationAssumption`); a layout has finitely many objects and violations, its
coordinates are integers and its limits natural numbers, the grid at least 1
(`LayoutAssumption`, `ContextAssumption`); the coordinates of a candidate and its design
are integers, its edits and claims lists and its capacities counts
(`CandidateAssumption`).

**How recursion is written.**  `schedule`, `Among`, `Packable`, `Spread`, the union-find's
`find`, the components of a net and the split of a region are recursive functions or
folds over a fixed range of rounds, not RECURSIVE operators, so that they can be proved
about.  Induction over data goes through sets of numbers: a set that
holds 0 and the successor of each of its members holds every number (`NatSteps`).  That
works for a function over `0..n` whose definition can be unfolded; it is why sums,
breadth-first searches, packing loops, path halving and the splitting are proved here.

Only model-checked: all liveness properties, because fairness and ENABLED are out of the
prover's reach.  Every safety property that a passing run checks is proved, under the
assumptions named above.

## 7. Not modelled

Compiled modules other than by use (the CP-SAT coordinator, the LLM client, the EDA
backends, the kernels, the pruner, the lock and journal primitives); prompts and LLM
content; the generation of candidates from intents; scores, metrics and logs;
configuration parsing and the command line; the benchmark harness.  `PROJECT.json`
gives the reason for each component.  In the regions, the layout has one dimension:
same-layer adjacencies and coverage figures are left out.

Hazards of the code that no property reaches, besides those noted in `PROJECT.json`:
hints of one rule family overwrite each other when two violations of a region share it
(`agents/context.py:371`); a decomposition without side pieces is not compared with its
parent at all (`actions/candidates.py:221`), and the side pieces only by their extents
along its long axis (213-232), so that a piece beside the wire, thinner than it or on
another legal layer takes the place of the wire; `planning_had_failures` and
`fatal_failure` are overwritten by later windows (`runtime.py:2949`, `3214`). No
document says what is meant there. The evidence directory of a search is reused when the
ids of successive plans alternate (A, B, A): ids are the planner's and need only differ
from the plan that is revised (`plan_binding.py:207`, `231`, `244`), so the registration
and `search_01` of the first plan are overwritten.

Smaller liberties. A layout tool that reports success has left its file, and it is there
when it is copied (`transaction.py:974-977`). A handler of the runtime is interrupted by
kills and by exceptions that end the run as FAILED; the typed failures that would leave
it resumable do not come from the artifact store or the checkpoints, which are compiled
and do not consult the storage guard. A rule witness always has the field
`editable_source_object_ids`, which its schema defaults to the empty list
(`schemas/rules.py:197`). A negative capacity is not considered. That linked regions are
told of each other speaks of the graph as it is built; a soft edge may be pruned
afterwards by the compiled pruner. `deduplicate_candidates`, which is compiled, is taken
not to merge the candidates of two targets. Where no alternative exists within the
operation bound of a plan, `plan` probes with the largest bound only if
`EXEC_OPERATION_BOUND_EXCEEDED` is among the codes (`production_engine.py:824-828`); the
model always does.
