----------------------------- MODULE RunLifecycle -----------------------------
(***************************************************************************)
(* The life of one run (workflow/runtime.py): rolling windows inside       *)
(* iterations, the safe checkpoints and the manifest that record them, the *)
(* ways a process stops (the workflow ends, a signal, an exception, a      *)
(* kill), and `resume`, which starts from the latest safe checkpoint.      *)
(*                                                                         *)
(* A snapshot is the set of violations left in it: with the acceptance     *)
(* policy of the released configurations a commit leaves a proper subset,  *)
(* so the set identifies the snapshot and best_snapshot is always          *)
(* current_snapshot.  An optional value is a set of at most one element.   *)
(***************************************************************************)
EXTENDS Integers, FiniteSets

CONSTANTS
  Violations,     \* violations of the baseline
  UnsupportedRule,\* those whose rule is not in supported_rule_ids
  MaxIterations,  \* WorkflowConfig.max_iterations
  MaxWindows,     \* WorkflowConfig.max_windows_per_iteration
  MaxNoProgress,  \* WorkflowConfig.max_no_progress_iterations
  SandboxJobs,    \* sandbox_max_jobs_per_iteration
  Costs,          \* sandbox jobs one window may use
  MaxStops        \* bound: processes stopped before their workflow ends

ASSUME LifecycleAssumption ==
  /\ IsFiniteSet(Violations) /\ UnsupportedRule \subseteq Violations
  /\ {MaxIterations, MaxWindows, MaxNoProgress} \subseteq Nat \ {0}
  /\ {SandboxJobs, MaxStops} \subseteq Nat
  /\ Costs \subseteq Nat

VARIABLES
  pc,          \* workflow node about to run; "down" if there is no process
  session,     \* the part of _Session that checkpoints carry
  resumed,     \* session.resume_state: its boundary and in_progress_iteration
  view,        \* the snapshot session.violations and session.graph describe
  window,      \* the active window and what became of it
  exit,        \* session.iteration_exit_reason
  flags,       \* session.explored (non-noop or failures) and fatal_failure
  checkpoint,  \* CheckpointStore: the latest checkpoint at a safe boundary
  manifest,    \* manifest.json
  results,     \* window_result.json of every window
  journal,     \* windows whose experience is staged or published
  summaries,   \* iteration_summary.json of every iteration
  stops        \* processes stopped so far

disk   == <<checkpoint, manifest, results, journal, summaries>>
memory == <<session, resumed, view, window, exit, flags>>
vars   == <<pc, memory, disk, stops>>

Snapshots  == SUBSET Violations
Iterations == 1..(MaxIterations + MaxStops)
Windows    == Iterations \X (0..(MaxWindows - 1))

WindowBoundaries == {"window_commit", "window_complete"}
SafeBoundaries   == WindowBoundaries \cup {"initialize_case", "iteration_complete"}
WindowStatuses   == {"COMMIT", "ROLLBACK", "NO_OP", "NO_SAFE_BUNDLE"}
ExitReasons      == {"FRONTIER_EXHAUSTED", "DEFERRED_BUDGET",
                     "MAX_WINDOWS_PER_ITERATION"}
Completed        == {"COMPLETED_INTEGRITY_FAILURE", "COMPLETED_DRC_CLEAN",
                     "COMPLETED_ALL_NOOP", "COMPLETED_NO_PROGRESS",
                     "COMPLETED_MAX_ITERATIONS", "COMPLETED_BUDGET_EXHAUSTED"}

Nodes == {"initialize", "first_checkpoint", "parse", "start_iteration", "select",
          "plan", "commit", "stage", "save_commit", "publish", "refresh",
          "finish", "save_iteration", "stop", "close", "down"}

(* Nodes in the middle of a handler that never awaits: a signal is only   *)
(* delivered, as a cancellation, after the handler returns.               *)
InHandler == {"first_checkpoint", "stage", "save_commit", "save_iteration",
              "close"}

NewSession(current, completed, no_progress) ==
  [current |-> current, completed |-> completed, no_progress |-> no_progress,
   start |-> current, frontier |-> {}, processed |-> {}, deferred |-> {},
   window_index |-> 0, statuses |-> {}, last_commit |-> {}, spent |-> 0]

NoWindow == [claimed |-> {}, attempted |-> {}, unsupported |-> {},
             status |-> "NO_OP", final |-> {}]
NoFlags  == [explored |-> FALSE, fatal |-> FALSE]
Fresh    == [boundary |-> "none", in_progress |-> 0]

iteration == session.completed + 1
Active    == <<iteration, session.window_index>>

-----------------------------------------------------------------------------
(* Entering and leaving a process. *)

Enter(s, from) ==
  /\ session' = s
  /\ resumed' = from
  /\ view' = {} /\ window' = NoWindow
  /\ exit' = "FRONTIER_EXHAUSTED" /\ flags' = NoFlags

Forget == Enter(NewSession({}, 0, 0), Fresh)

ManifestOf(status) == [status |-> status, completed |-> {session.completed},
                       current |-> {session.current}]

(* A fresh manifest has neither snapshots nor an iteration count. *)
initialize_case ==
  /\ pc = "initialize"
  /\ IF resumed = Fresh
       THEN /\ manifest' = [status |-> "RUNNING", completed |-> {}, current |-> {}]
            /\ pc' = "first_checkpoint"
       ELSE /\ manifest' = [manifest EXCEPT !.status = "RUNNING",
                                            !.current = {session.current}]
            /\ pc' = "parse"
  /\ UNCHANGED <<memory, checkpoint, results, journal, summaries, stops>>

Save(boundary) ==
  checkpoint' = [boundary |-> boundary, session |-> session]

FirstCheckpoint ==
  /\ pc = "first_checkpoint" /\ pc' = "parse"
  /\ Save("initialize_case")
  /\ UNCHANGED <<memory, manifest, results, journal, summaries, stops>>

(* parse_design_state, build_regions, build_agent_graph, prune. *)
ParseDesignState ==
  /\ pc = "parse" /\ pc' = "start_iteration"
  /\ view' = session.current
  /\ UNCHANGED <<session, resumed, window, exit, flags, disk, stops>>

-----------------------------------------------------------------------------
(* One iteration. *)

resume_current_iteration ==
  resumed.boundary \in WindowBoundaries /\ resumed.in_progress = iteration

start_iteration ==
  /\ pc = "start_iteration" /\ pc' = "select"
  /\ session' = IF resume_current_iteration THEN session
                ELSE [NewSession(session.current, session.completed,
                                 session.no_progress)
                        EXCEPT !.frontier = view]
  /\ window' = NoWindow
  /\ exit' = "FRONTIER_EXHAUSTED"
  /\ UNCHANGED <<resumed, view, flags, disk, stops>>

Pending == ((session.frontier \ session.processed) \cap view) \ UnsupportedRule

NoCapacity == SandboxJobs - session.spent < 3
WindowsUsed == session.window_index >= MaxWindows

EndIteration(reason) ==
  /\ pc = "select" /\ pc' = "finish"
  /\ exit' = reason
  /\ window' = NoWindow
  /\ UNCHANGED <<session, resumed, view, flags, disk, stops>>

SelectDeferred == NoCapacity /\ EndIteration("DEFERRED_BUDGET")

SelectFull ==
  ~NoCapacity /\ WindowsUsed /\ EndIteration("MAX_WINDOWS_PER_ITERATION")

(* Nothing is pending, or no planning view holds anything pending. *)
SelectNothing == ~NoCapacity /\ ~WindowsUsed /\ EndIteration(exit)

select_active_window ==
  /\ pc = "select" /\ pc' = "plan"
  /\ ~NoCapacity /\ ~WindowsUsed
  /\ \E claimed \in (SUBSET Pending) \ {{}} :
       window' = [NoWindow EXCEPT !.claimed = claimed, !.final = session.current]
  /\ UNCHANGED <<session, resumed, view, exit, flags, disk, stops>>

(* plan_subgraph, aggregate_plans, prepare, execute_transaction, verify:  *)
(* what was tried, what it cost, and how the master transaction ended.    *)
PlanAndExecute(status) ==
  /\ pc = "plan" /\ pc' = "commit"
  /\ \E attempted \in SUBSET window.claimed, cost \in Costs :
       \E unsupported \in SUBSET (window.claimed \ attempted),
          final \in IF status = "COMMIT"
                      THEN (SUBSET session.current) \ {session.current}
                      ELSE {session.current},
          explored \in IF status \in {"COMMIT", "ROLLBACK"} THEN {TRUE} ELSE BOOLEAN,
          fatal \in CASE status = "COMMIT"   -> {FALSE}
                      [] status = "ROLLBACK" -> BOOLEAN
                      [] OTHER               -> {flags.fatal} :
         /\ status \in {"COMMIT", "ROLLBACK"} => attempted # {}
         /\ window' = [window EXCEPT !.attempted = attempted, !.final = final,
                                     !.unsupported = unsupported, !.status = status]
         /\ session' = [session EXCEPT !.spent = @ + cost]
         /\ flags' = [explored |-> explored, fatal |-> fatal]
  /\ UNCHANGED <<resumed, view, exit, disk, stops>>

(* Slip: a rollback restores the snapshot the iteration started from. *)
final_snapshot_of_iteration ==
  IF window.status = "COMMIT" THEN window.final ELSE session.start

final_snapshot ==
  IF window.status = "COMMIT" THEN window.final ELSE session.current

(* Slip: a window that attempted nothing does not use up its index. *)
next_window_index_if_attempted ==
  session.window_index + (IF window.attempted = {} THEN 0 ELSE 1)

next_window_index == session.window_index + 1

(* Slip: the checkpoint of a commit does not wait for its experience. *)
after_window_unstaged ==
  IF window.status = "COMMIT" THEN "save_commit" ELSE "publish"

(* Slip: commits are checkpointed with the other windows, after refresh. *)
after_window_unsaved == "publish"

(* A commit is staged in the experience journal and then checkpointed. *)
after_window == IF window.status = "COMMIT" THEN "stage" ELSE "publish"

(* commit_or_rollback: the session and window_result.json first, then for *)
(* a commit the experience journal and only then the checkpoint.          *)
commit_or_rollback ==
  /\ pc = "commit" /\ pc' = after_window
  /\ results' = [results EXCEPT ![Active] = window.status]
  /\ session' =
       [session EXCEPT
          !.current = final_snapshot,
          !.processed = @ \cup window.attempted \cup window.unsupported,
          !.deferred = (@ \cup (window.claimed \ window.unsupported))
                         \ window.attempted,
          !.statuses = @ \cup {window.status},
          !.last_commit = IF window.status = "COMMIT" THEN {final_snapshot} ELSE @,
          !.window_index = next_window_index]
  /\ UNCHANGED <<resumed, view, window, exit, flags, checkpoint, manifest,
                 journal, summaries, stops>>

Finished == <<iteration, session.window_index - 1>>

StageExperience ==
  /\ pc = "stage" /\ pc' = "save_commit"
  /\ journal' = journal \cup {Finished}
  /\ UNCHANGED <<memory, checkpoint, manifest, results, summaries, stops>>

SaveCommit ==
  /\ pc = "save_commit" /\ pc' = "publish"
  /\ Save("window_commit")
  /\ UNCHANGED <<memory, manifest, results, journal, summaries, stops>>

update_experience ==
  /\ pc = "publish" /\ pc' = "refresh"
  /\ journal' = journal \cup {Finished}
  /\ UNCHANGED <<memory, checkpoint, manifest, results, summaries, stops>>

(* Slip: only the checkpoint is refreshed. *)
refresh_checkpoint_only ==
  /\ pc = "refresh" /\ pc' = "select"
  /\ window' = NoWindow
  /\ Save("window_complete")
  /\ UNCHANGED <<session, resumed, view, exit, flags, manifest, results, journal,
                 summaries, stops>>

refresh_after_window ==
  /\ pc = "refresh" /\ pc' = "select"
  /\ view' = IF window.status = "COMMIT" THEN session.current ELSE view
  /\ window' = NoWindow
  /\ Save("window_complete")
  /\ UNCHANGED <<session, resumed, exit, flags, manifest, results, journal,
                 summaries, stops>>

made_progress == Cardinality(session.current) < Cardinality(session.start)

Deferred == exit = "DEFERRED_BUDGET"

(* Slip: progress does not reset the count. *)
no_progress_total ==
  session.no_progress + (IF Deferred \/ made_progress THEN 0 ELSE 1)

no_progress ==
  IF Deferred THEN session.no_progress
  ELSE IF made_progress THEN 0 ELSE session.no_progress + 1

finish_iteration ==
  /\ pc = "finish" /\ pc' = "save_iteration"
  /\ session.last_commit \subseteq {session.current}
  /\ session' = [session EXCEPT
       !.completed = iteration,
       !.no_progress = no_progress]
  /\ summaries' = [summaries EXCEPT ![iteration] =
       {[start |-> session.start, final |-> session.current, deferred |-> Deferred,
         windows |-> session.window_index]}]
  /\ UNCHANGED <<resumed, view, window, exit, flags, checkpoint, manifest,
                 results, journal, stops>>

SaveIteration ==
  /\ pc = "save_iteration" /\ pc' = "stop"
  /\ Save("iteration_complete")
  /\ UNCHANGED <<memory, manifest, results, journal, summaries, stops>>

-----------------------------------------------------------------------------
(* The end of the workflow. *)

all_noop == session.statuses = {"NO_OP"} /\ ~flags.explored

(* The status finalize_run records, or CONTINUE. *)
stopping_condition(budget_exhausted) ==
  IF flags.fatal THEN "COMPLETED_INTEGRITY_FAILURE"
  ELSE IF session.current = {} THEN "COMPLETED_DRC_CLEAN"
  ELSE IF all_noop THEN "COMPLETED_ALL_NOOP"
  ELSE IF session.no_progress >= MaxNoProgress THEN "COMPLETED_NO_PROGRESS"
  ELSE IF session.completed >= MaxIterations THEN "COMPLETED_MAX_ITERATIONS"
  ELSE IF budget_exhausted THEN "COMPLETED_BUDGET_EXHAUSTED"
  ELSE "CONTINUE"

Continue ==
  /\ pc = "stop" /\ pc' = "start_iteration"
  /\ stopping_condition(FALSE) = "CONTINUE"
  /\ UNCHANGED <<memory, disk, stops>>

(* check_stopping_condition routes to finalize_run, which writes the      *)
(* manifest; its own checkpoint is not a safe one.                        *)
finalize_run ==
  /\ pc = "stop" /\ pc' = "close"
  /\ \E budget_exhausted \in BOOLEAN :
       /\ stopping_condition(budget_exhausted) # "CONTINUE"
       /\ manifest' =
            ManifestOf(stopping_condition(budget_exhausted))
  /\ UNCHANGED <<memory, checkpoint, results, journal, summaries, stops>>

Close ==
  /\ pc = "close" /\ pc' = "down"
  /\ Forget
  /\ UNCHANGED <<disk, stops>>

Stop ==
  /\ stops < MaxStops /\ stops' = stops + 1
  /\ pc # "down" /\ pc' = "down"
  /\ Forget

(* _finalize_aborted: a signal, a typed failure of a tool or service, or  *)
(* any other exception.                                                   *)
Abort(status) ==
  /\ Stop
  /\ status # "FAILED" => pc \notin InHandler
  /\ manifest' = ManifestOf(status)
  /\ UNCHANGED <<checkpoint, results, journal, summaries>>

(* SIGKILL, or an abort whose manifest could not be written. *)
Kill == Stop /\ UNCHANGED disk

Resumable ==
  /\ pc = "down" /\ checkpoint.boundary \in SafeBoundaries
  /\ manifest.status \in {"INTERRUPTED", "RUNNING", "FAILED_INFRASTRUCTURE"}
  /\ \/ manifest.completed = {checkpoint.session.completed}
     \/ manifest.completed = {} /\ manifest.status \in {"INTERRUPTED", "RUNNING"}
  /\ manifest.current = {checkpoint.session.current}

AtBoundary(windowed) ==
  IF checkpoint.boundary \in WindowBoundaries THEN windowed
  ELSE NewSession(checkpoint.session.current, checkpoint.session.completed,
                  checkpoint.session.no_progress)

(* Slip: the frontier of the iteration is not restored. *)
resume_session_without_frontier ==
  AtBoundary([checkpoint.session EXCEPT !.frontier = {}])

(* Slip: progress is measured from the resumed snapshot. *)
resume_session_without_start ==
  AtBoundary([checkpoint.session EXCEPT !.start = checkpoint.session.current])

(* Slip: the windows of the iteration are numbered from 0 again. *)
resume_session_without_index ==
  AtBoundary([checkpoint.session EXCEPT !.window_index = 0])

resume_session ==
  AtBoundary(checkpoint.session)

resume ==
  /\ Resumable
  /\ pc' = "initialize"
  /\ Enter(resume_session,
           [boundary |-> checkpoint.boundary,
            in_progress |-> IF checkpoint.boundary = "iteration_complete"
                            THEN checkpoint.session.completed
                            ELSE checkpoint.session.completed + 1])
  /\ UNCHANGED <<disk, stops>>

Init ==
  /\ pc = "initialize"
  /\ session = NewSession(Violations, 0, 0) /\ resumed = Fresh
  /\ view = {} /\ window = NoWindow
  /\ exit = "FRONTIER_EXHAUSTED" /\ flags = NoFlags
  /\ checkpoint = [boundary |-> "none", session |-> NewSession({}, 0, 0)]
  /\ manifest = [status |-> "NONE", completed |-> {}, current |-> {}]
  /\ results = [w \in Windows |-> "none"]
  /\ journal = {}
  /\ summaries = [i \in Iterations |-> {}]
  /\ stops = 0

Workflow ==
  \/ initialize_case \/ FirstCheckpoint \/ ParseDesignState
  \/ start_iteration
  \/ SelectDeferred \/ SelectFull \/ SelectNothing \/ select_active_window
  \/ \E status \in WindowStatuses : PlanAndExecute(status)
  \/ commit_or_rollback \/ StageExperience \/ SaveCommit
  \/ update_experience \/ refresh_after_window
  \/ finish_iteration \/ SaveIteration
  \/ Continue \/ finalize_run \/ Close

Aborts == {"INTERRUPTED", "FAILED_INFRASTRUCTURE", "FAILED",
           "BLOCKED_INTEGRITY", "BUDGET_EXHAUSTED"}

Next ==
  \/ Workflow
  \/ \E status \in Aborts : Abort(status)
  \/ Kill
  \/ resume

Spec == Init /\ [][Next]_vars

(* The event loop keeps running the workflow it was given. *)
FairSpec == Spec /\ WF_vars(Workflow)

-----------------------------------------------------------------------------
Sessions ==
  [current: Snapshots, completed: 0..(MaxIterations + MaxStops),
   no_progress: 0..(MaxIterations + MaxStops), start: Snapshots,
   frontier: Snapshots, processed: Snapshots, deferred: Snapshots,
   window_index: 0..MaxWindows, statuses: SUBSET WindowStatuses,
   last_commit: SUBSET Snapshots, spent: Nat]

Statuses == {"NONE", "RUNNING"} \cup Aborts \cup Completed

(* Every variable keeps its type; a session accounts only for violations  *)
(* of its iteration's frontier, whether it was restored or started.       *)
TypeOK ==
  /\ pc \in Nodes /\ session \in Sessions
  /\ resumed \in [boundary: SafeBoundaries \cup {"none"},
                  in_progress: 0..(MaxIterations + MaxStops + 1)]
  /\ view \in Snapshots
  /\ window \in [claimed: Snapshots, attempted: Snapshots, unsupported: Snapshots,
                 status: WindowStatuses, final: Snapshots]
  /\ exit \in ExitReasons
  /\ flags \in [explored: BOOLEAN, fatal: BOOLEAN]
  /\ checkpoint \in [boundary: SafeBoundaries \cup {"none"}, session: Sessions]
  /\ manifest \in [status: Statuses, completed: SUBSET Nat, current: SUBSET Snapshots]
  /\ results \in [Windows -> WindowStatuses \cup {"none"}]
  /\ journal \subseteq Windows
  /\ summaries \in [Iterations ->
       SUBSET [start: Snapshots, final: Snapshots, deferred: BOOLEAN,
               windows: 0..MaxWindows]]
  /\ stops \in 0..MaxStops
  /\ session.processed \cup session.deferred \subseteq session.frontier

(* A window that the latest safe checkpoint counts: one of the            *)
(* window_count windows of a completed iteration, or one before the next  *)
(* window of the iteration in progress.  A process that was killed may    *)
(* have left result files beyond those.                                   *)
Counted(w) ==
  \/ /\ w[1] <= checkpoint.session.completed
     /\ \E s \in summaries[w[1]] : w[2] < s.windows
  \/ /\ checkpoint.boundary \in WindowBoundaries
     /\ w[1] = checkpoint.session.completed + 1
     /\ w[2] < checkpoint.session.window_index

(* select_active_window, the planners and the transaction of a window all *)
(* work on the current snapshot: its violations and graph were rebuilt    *)
(* after the commit, or the resume, that produced it.                     *)
WindowSeesCurrent ==
  pc \in {"plan", "commit"} =>
    view = session.current /\ window.claimed \subseteq session.current

(* The experience of every window that a safe checkpoint counts is staged *)
(* or published, so a resumed run never skips one (the comment at         *)
(* runtime.py:3422): for a commit before window_commit is saved, for the  *)
(* others before window_complete is.                                      *)
ExperienceDurable == \A w \in Windows : Counted(w) => w \in journal

(* A run stopped by a signal or by a failing tool or service passes the   *)
(* comparisons of _resume_p5 if it has a safe checkpoint: the manifest    *)
(* that _finalize_aborted writes from memory agrees with the checkpoint,  *)
(* wherever the run was stopped.                                          *)
StoppedRunsResume ==
  /\ pc = "down" /\ checkpoint.boundary # "none"
  /\ manifest.status \in {"INTERRUPTED", "FAILED_INFRASTRUCTURE"}
  => Resumable

Finals(i) == IF i = 0 THEN {Violations} ELSE {s.final : s \in summaries[i]}

(* The summaries of the completed iterations form one chain from the      *)
(* baseline to the snapshot of the checkpoint: each iteration is measured *)
(* from where the one before ended, also when a resumed process finished  *)
(* it (start_iteration and resume_session decide what to restore).        *)
SummariesChain ==
  /\ \A i \in 1..checkpoint.session.completed :
       Finals(i) # {} /\ {s.start : s \in summaries[i]} = Finals(i - 1)
  /\ checkpoint.boundary # "none" =>
       \A s \in Finals(checkpoint.session.completed) :
         checkpoint.session.current \subseteq s

(* What the checkpoint counts can be read back from the journal and the   *)
(* summaries.                                                             *)
RecordsComplete == ExperienceDurable /\ SummariesChain

(* Iterations 1..n that count against max_no_progress_iterations and come *)
(* after iteration k.                                                     *)
CountedAfter(k, n) ==
  {i \in (k + 1)..n : \A s \in summaries[i] : ~s.deferred}

WindowsOf(n) ==
  {w \in Windows : w[1] = n /\ \E s \in summaries[n] : w[2] < s.windows}

(* A completed run stopped for the reason its manifest gives, measured on *)
(* the summaries and window results on disk: clean, every window of the   *)
(* last iteration a NO_OP, max_no_progress_iterations since the last      *)
(* progress, or all iterations done.                                      *)
StopJustified ==
  \A n \in manifest.completed :
    CASE manifest.status = "COMPLETED_DRC_CLEAN" ->
           manifest.current = {{}} /\ Finals(n) = {{}}
      [] manifest.status = "COMPLETED_ALL_NOOP" ->
           /\ WindowsOf(n) # {}
           /\ \A w \in WindowsOf(n) : results[w] = "NO_OP"
      [] manifest.status = "COMPLETED_NO_PROGRESS" ->
           \E k \in 0..n :
             /\ Cardinality(CountedAfter(k, n)) >= MaxNoProgress
             /\ \A i \in CountedAfter(k, n) : \A s \in summaries[i] : s.start = s.final
      [] manifest.status = "COMPLETED_MAX_ITERATIONS" -> n >= MaxIterations
      [] OTHER -> TRUE

(* A window that the latest safe checkpoint counts is never run again,    *)
(* whatever is killed and resumed: its window_result.json stays.          *)
CountedResultsStay ==
  [][\A w \in Windows : Counted(w) => results'[w] = results[w]]_vars

(* A violation removed from the checkpointed snapshot never comes back:   *)
(* rollbacks and resumed processes continue from the last commit.         *)
ProgressIsKept ==
  [][checkpoint.boundary # "none" =>
       checkpoint'.session.current \subseteq checkpoint.session.current]_vars

(* Nothing that was counted is done again or undone.                      *)
NothingIsRepeated == CountedResultsStay /\ ProgressIsKept

(* Every process ends: the windows of an iteration and the iterations of  *)
(* a run are bounded whatever the planners return, and the check that the *)
(* last committed window left the current snapshot                        *)
(* (ITERATION_FINAL_COMMITTED_SNAPSHOT_MISMATCH) never blocks one.        *)
RunEnds == (pc # "down") ~> (pc = "down")

-----------------------------------------------------------------------------
(* Statements of the repository that the code does not keep. *)

(* README.md:148 and runtime.py:1333-1337: a process that disappeared     *)
(* while its manifest says RUNNING resumes from its safe checkpoint.      *)
KilledRunsResume ==
  /\ pc = "down" /\ checkpoint.boundary # "none"
  /\ manifest.status = "RUNNING"
  => Resumable
=============================================================================
