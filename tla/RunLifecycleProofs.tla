-------------------------- MODULE RunLifecycleProofs --------------------------
(***************************************************************************)
(* The safety of a run's life, for any baseline, any limits and any number *)
(* of stopped processes.                                                   *)
(***************************************************************************)
EXTENDS RunLifecycle, FiniteSetTheorems, TLAPS

-----------------------------------------------------------------------------
(* The inductive invariant. *)

(* The nodes of an iteration, from its first to the last before its end. *)
Opening   == {"initialize", "first_checkpoint", "parse", "start_iteration"}
AfterStep == {"stage", "save_commit", "publish", "refresh"}
InWindows == {"select", "plan", "commit", "finish"} \cup AfterStep
Working   == Opening \cup InWindows

Sound(s) == s.processed \cup s.deferred \subseteq s.frontier /\ s.no_progress <= s.completed

(* How far the counters can have come. *)
Bounds ==
  /\ Sound(session) /\ Sound(checkpoint.session)
  /\ session.completed <= MaxIterations + stops
  /\ checkpoint.session.completed <= MaxIterations + stops
  /\ pc \in Working => session.completed < MaxIterations + stops
  /\ pc = "close" => manifest.status \in Completed
  /\ pc = "down" /\ manifest.status \notin Completed =>
       checkpoint.session.completed < MaxIterations + stops
  /\ pc \in {"plan", "commit"} =>
       session.window_index < MaxWindows /\ window.claimed \subseteq session.frontier
  /\ window.attempted \cup window.unsupported \subseteq window.claimed
  /\ pc \in AfterStep => session.window_index > 0

Rebuilt ==
  /\ pc \in {"start_iteration", "select", "plan", "commit", "finish",
             "save_iteration", "stop"} => view = session.current
  /\ pc \in {"plan", "commit"} => window.claimed \subseteq view
  /\ pc \in AfterStep => view = session.current \/ window.status = "COMMIT"

(* What a process holds in memory is what the checkpoint says, except     *)
(* inside the handlers that are about to write it.                        *)
Agreement ==
  /\ pc \in Working => session.completed = checkpoint.session.completed
  /\ pc \in {"stop", "close"} =>
       checkpoint = [boundary |-> "iteration_complete", session |-> session]
  /\ pc = "save_iteration" => session.completed = checkpoint.session.completed + 1
  /\ pc # "down" /\ checkpoint.boundary # "none" =>
       session.current \subseteq checkpoint.session.current
  /\ pc \notin {"down", "stage", "save_commit"} /\ checkpoint.boundary # "none" =>
       session.current = checkpoint.session.current
  /\ pc = "commit" /\ window.status = "COMMIT" => window.final \subseteq session.current
  /\ pc \in InWindows /\ checkpoint.boundary \in WindowBoundaries =>
       session.window_index >= checkpoint.session.window_index
  /\ pc \in Opening /\ checkpoint.boundary \in WindowBoundaries =>
       /\ resume_current_iteration
       /\ session.window_index >= checkpoint.session.window_index
  /\ pc = "first_checkpoint" => resumed = Fresh
  /\ checkpoint.boundary = "none" => checkpoint.session.completed = 0
  /\ resumed.boundary \in WindowBoundaries =>
       /\ resumed.in_progress <= iteration
       /\ pc \in {"save_iteration", "stop", "close"} => resumed.in_progress < iteration

(* A manifest of a stopped run says what the checkpoint says. *)
Stopped ==
  manifest.status \in {"INTERRUPTED", "FAILED_INFRASTRUCTURE"} =>
    /\ pc \in {"down", "initialize"}
    /\ checkpoint.boundary # "none" =>
         /\ manifest.completed = {checkpoint.session.completed}
         /\ manifest.current = {checkpoint.session.current}

Journaled(i, n) == \A w \in Windows : w[1] = i /\ w[2] < n => w \in journal

Journals ==
  /\ \A i \in Iterations : \A s \in summaries[i] : Journaled(i, s.windows)
  /\ checkpoint.boundary \in WindowBoundaries =>
       Journaled(checkpoint.session.completed + 1, checkpoint.session.window_index)
  /\ pc \in Opening /\ resume_current_iteration =>
       Journaled(iteration, session.window_index)
  /\ pc \in InWindows \ {"stage", "publish"} => Journaled(iteration, session.window_index)
  /\ pc \in {"stage", "publish"} => Journaled(iteration, session.window_index - 1)

Linked(i) ==
  /\ \E s \in summaries[i] : summaries[i] = {s}
  /\ {s.start : s \in summaries[i]} = Finals(i - 1)

Starts(s) == Finals(s.completed) = {s.start} /\ s.current \subseteq s.start

Chained ==
  /\ \A i \in 1..checkpoint.session.completed : Linked(i)
  /\ checkpoint.boundary \in WindowBoundaries => Starts(checkpoint.session)
  /\ checkpoint.boundary \in {"initialize_case", "iteration_complete"} =>
       Finals(checkpoint.session.completed) = {checkpoint.session.current}
  /\ pc \in InWindows => Starts(session)
  /\ pc \in Opening => IF resume_current_iteration THEN Starts(session)
                       ELSE Finals(session.completed) = {session.current}
  /\ pc = "save_iteration" =>
       Linked(session.completed) /\ Finals(session.completed) = {session.current}

-----------------------------------------------------------------------------
(* Type correctness. *)

LEMMA NewSessionType ==
  ASSUME NEW current \in Snapshots, NEW n \in 0..(MaxIterations + MaxStops),
         NEW k \in 0..(MaxIterations + MaxStops), k <= n
  PROVE  NewSession(current, n, k) \in Sessions /\ Sound(NewSession(current, n, k))
BY LifecycleAssumption DEF NewSession, Sessions, Sound, Snapshots

LEMMA TypeInit == Init => TypeOK /\ Bounds
<1> SUFFICES ASSUME Init PROVE TypeOK /\ Bounds
  OBVIOUS
<1> USE LifecycleAssumption
<1>1. /\ session \in Sessions /\ Sound(session)
      /\ checkpoint.session \in Sessions /\ Sound(checkpoint.session)
      /\ session.completed = 0 /\ checkpoint.session.completed = 0
  <2>1. /\ NewSession(Violations, 0, 0) \in Sessions /\ Sound(NewSession(Violations, 0, 0))
        /\ NewSession({}, 0, 0) \in Sessions /\ Sound(NewSession({}, 0, 0))
    BY NewSessionType DEF Snapshots
  <2> QED
    BY <2>1 DEF Init, NewSession
<1>2. TypeOK
  BY <1>1 DEF Init, TypeOK, Fresh, NoWindow, NoFlags, Nodes, WindowStatuses, ExitReasons,
              Statuses, Snapshots, Sound
<1>3. Bounds
  BY <1>1 DEF Init, Bounds, NoWindow, AfterStep
<1> QED
  BY <1>2, <1>3

(* Leaving a process, whatever is written to the manifest. *)
LEMMA TypeStop ==
  ASSUME TypeOK, Bounds, Stop, UNCHANGED <<checkpoint, results, journal, summaries>>,
         manifest' \in [status: Statuses, completed: SUBSET Nat, current: SUBSET Snapshots]
  PROVE  TypeOK' /\ Bounds'
<1> USE LifecycleAssumption
<1>1. /\ NewSession({}, 0, 0) \in Sessions /\ Sound(NewSession({}, 0, 0))
      /\ NewSession({}, 0, 0).completed = 0
  <2>1. NewSession({}, 0, 0).completed = 0
    BY DEF NewSession
  <2> QED
    BY <2>1, NewSessionType DEF Snapshots
<1>2. /\ pc' = "down" /\ session' = NewSession({}, 0, 0) /\ resumed' = Fresh
      /\ view' = {} /\ window' = NoWindow /\ exit' = "FRONTIER_EXHAUSTED" /\ flags' = NoFlags
      /\ stops' = stops + 1 /\ stops' \in 0..MaxStops /\ stops \in Nat
  BY DEF Stop, Forget, Enter, TypeOK
<1>3. TypeOK'
  BY <1>1, <1>2 DEF TypeOK, Fresh, NoWindow, NoFlags, Nodes, WindowStatuses, ExitReasons,
                    Snapshots, Sound
<1>4. checkpoint.session.completed \in Nat /\ MaxIterations \in Nat
  BY DEF TypeOK, Sessions
<1>5. pc' \notin Working /\ pc' \notin AfterStep
  BY <1>2 DEF AfterStep, Working, Opening, InWindows
<1>6. Sound(session') /\ session'.completed = 0 /\ checkpoint' = checkpoint
  BY <1>1, <1>2
<1>7. Bounds'
  BY <1>2, <1>4, <1>5, <1>6 DEF Bounds, NoWindow, Sound
<1> QED
  BY <1>3, <1>7

(* The session of the latest checkpoint, entered again by resume. *)
LEMMA ResumedType ==
  ASSUME TypeOK, Bounds
  PROVE  resume_session \in Sessions /\ Sound(resume_session)
         /\ resume_session.completed = checkpoint.session.completed
<1>1. CASE checkpoint.boundary \in WindowBoundaries
  BY <1>1 DEF resume_session, AtBoundary, TypeOK, Bounds
<1>2. CASE checkpoint.boundary \notin WindowBoundaries
  <2> DEFINE s == checkpoint.session
  <2>1. /\ s.current \in Snapshots /\ s.completed \in 0..(MaxIterations + MaxStops)
        /\ s.no_progress \in 0..(MaxIterations + MaxStops) /\ s.no_progress <= s.completed
    BY DEF TypeOK, Bounds, Sessions, Sound
  <2>2. resume_session = NewSession(s.current, s.completed, s.no_progress)
    BY <1>2 DEF resume_session, AtBoundary
  <2>3. NewSession(s.current, s.completed, s.no_progress).completed = s.completed
    BY DEF NewSession
  <2> QED
    BY <2>1, <2>2, <2>3, NewSessionType
<1> QED
  BY <1>1, <1>2

LEMMA TypeStep == TypeOK /\ Bounds /\ [Next]_vars => TypeOK' /\ Bounds'
<1> SUFFICES ASSUME TypeOK, Bounds, [Next]_vars PROVE TypeOK' /\ Bounds'
  OBVIOUS
<1> USE LifecycleAssumption
<1> USE DEF memory, disk, Nodes, Working, Opening, InWindows, AfterStep
<1>1. CASE initialize_case
  <2>1. manifest' \in [status: Statuses, completed: SUBSET Nat, current: SUBSET Snapshots]
    <3>1. \/ manifest' = [status |-> "RUNNING", completed |-> {}, current |-> {}]
          \/ manifest' = [manifest EXCEPT !.status = "RUNNING", !.current = {session.current}]
      BY <1>1 DEF initialize_case
    <3>2. {session.current} \in SUBSET Snapshots /\ "RUNNING" \in Statuses
      BY DEF TypeOK, Sessions, Statuses
    <3>3. CASE manifest' = [status |-> "RUNNING", completed |-> {}, current |-> {}]
      BY <3>2, <3>3
    <3>4. CASE manifest' = [manifest EXCEPT !.status = "RUNNING", !.current = {session.current}]
      BY <3>2, <3>4 DEF TypeOK
    <3> QED
      BY <3>1, <3>3, <3>4
  <2>2. pc' \in {"first_checkpoint", "parse"}
    BY <1>1 DEF initialize_case
  <2>3. TypeOK'
    BY <1>1, <2>1, <2>2 DEF initialize_case, TypeOK
  <2>4. Bounds'
    BY <1>1, <2>2 DEF initialize_case, Bounds
  <2> QED
    BY <2>3, <2>4
<1>2. CASE FirstCheckpoint
  BY <1>2 DEF FirstCheckpoint, Save, TypeOK, Bounds, SafeBoundaries
<1>3. CASE ParseDesignState
  BY <1>3 DEF ParseDesignState, TypeOK, Bounds, Sessions
<1>4. CASE start_iteration
  <2> DEFINE fresh == NewSession(session.current, session.completed, session.no_progress)
             begun == [fresh EXCEPT !.frontier = view]
  <2>1. fresh \in Sessions /\ Sound(fresh) /\ fresh.completed = session.completed
    <3>1. fresh.completed = session.completed
      BY DEF NewSession
    <3> QED
      BY <3>1, NewSessionType DEF TypeOK, Bounds, Sessions, Sound
  <2>2. begun \in Sessions /\ begun.completed = session.completed
        /\ begun.no_progress = session.no_progress
        /\ begun.processed = {} /\ begun.deferred = {}
    BY DEF NewSession, TypeOK, Sessions, WindowStatuses, Snapshots
  <2>3. begun.processed \cup begun.deferred \subseteq begun.frontier /\ Sound(begun)
    BY <2>2 DEF Sound, Bounds
  <2>4. session' \in {session, begun} /\ window' = NoWindow /\ exit' = "FRONTIER_EXHAUSTED"
    BY <1>4 DEF start_iteration
  <2> HIDE DEF begun
  <2>5. /\ session' \in Sessions /\ Sound(session') /\ session'.completed = session.completed
    BY <2>2, <2>3, <2>4 DEF TypeOK, Bounds
  <2>6. TypeOK'
    BY <1>4, <2>4, <2>5
       DEF start_iteration, TypeOK, NoWindow, WindowStatuses, ExitReasons, Snapshots, Sound
  <2>7. Bounds'
    BY <1>4, <2>4, <2>5 DEF start_iteration, Bounds, NoWindow
  <2> QED
    BY <2>6, <2>7
<1>5. ASSUME NEW reason \in ExitReasons, EndIteration(reason) PROVE TypeOK' /\ Bounds'
  BY <1>5 DEF EndIteration, TypeOK, Bounds, NoWindow, WindowStatuses, Snapshots
<1>6. CASE select_active_window
  <2>1. PICK claimed \in (SUBSET Pending) \ {{}} :
          window' = [NoWindow EXCEPT !.claimed = claimed, !.final = session.current]
    BY <1>6 DEF select_active_window
  <2>2. claimed \subseteq session.frontier /\ claimed \in Snapshots
    BY DEF Pending, TypeOK, Sessions, Snapshots
  <2>3. session.window_index \in 0..MaxWindows /\ session.window_index < MaxWindows
    BY <1>6 DEF select_active_window, WindowsUsed, TypeOK, Sessions
  <2>4. TypeOK'
    BY <1>6, <2>1, <2>2 DEF select_active_window, TypeOK, NoWindow, WindowStatuses, Snapshots,
                             Sessions
  <2>5. Bounds'
    BY <1>6, <2>1, <2>2, <2>3 DEF select_active_window, Bounds, NoWindow
  <2> QED
    BY <2>4, <2>5
<1>7. ASSUME NEW status \in WindowStatuses, PlanAndExecute(status) PROVE TypeOK' /\ Bounds'
  <2>1. PICK attempted \in SUBSET window.claimed, cost \in Costs :
          \E unsupported \in SUBSET (window.claimed \ attempted),
             final \in Snapshots, explored \in BOOLEAN, fatal \in BOOLEAN :
            /\ window' = [window EXCEPT !.attempted = attempted, !.final = final,
                                        !.unsupported = unsupported, !.status = status]
            /\ session' = [session EXCEPT !.spent = @ + cost]
            /\ flags' = [explored |-> explored, fatal |-> fatal]
    <3>1. flags.fatal \in BOOLEAN /\ session.current \in Snapshots
      BY DEF TypeOK, Sessions
    <3> DEFINE Final == IF status = "COMMIT" THEN (SUBSET session.current) \ {session.current}
                        ELSE {session.current}
               Explored == IF status \in {"COMMIT", "ROLLBACK"} THEN {TRUE} ELSE BOOLEAN
               Fatal == CASE status = "COMMIT" -> {FALSE}
                          [] status = "ROLLBACK" -> BOOLEAN
                          [] OTHER -> {flags.fatal}
    <3>2. \E attempted \in SUBSET window.claimed, cost \in Costs :
            \E unsupported \in SUBSET (window.claimed \ attempted),
               final \in Final, explored \in Explored, fatal \in Fatal :
              /\ window' = [window EXCEPT !.attempted = attempted, !.final = final,
                                          !.unsupported = unsupported, !.status = status]
              /\ session' = [session EXCEPT !.spent = @ + cost]
              /\ flags' = [explored |-> explored, fatal |-> fatal]
      BY <1>7, ZenonT(60) DEF PlanAndExecute
    <3>3. Final \subseteq Snapshots
      BY <3>1 DEF Snapshots
    <3>4. Explored \subseteq BOOLEAN /\ Fatal \subseteq BOOLEAN
      BY <3>1
    <3> HIDE DEF Final, Explored, Fatal
    <3> QED
      BY <3>2, <3>3, <3>4, ZenonT(60)
  <2>2. PICK unsupported \in SUBSET (window.claimed \ attempted),
             final \in Snapshots, explored \in BOOLEAN, fatal \in BOOLEAN :
            /\ window' = [window EXCEPT !.attempted = attempted, !.final = final,
                                        !.unsupported = unsupported, !.status = status]
            /\ session' = [session EXCEPT !.spent = @ + cost]
            /\ flags' = [explored |-> explored, fatal |-> fatal]
    BY <2>1
  <2>3. /\ session' \in Sessions /\ session'.completed = session.completed /\ Sound(session')
        /\ session'.window_index = session.window_index
        /\ session'.frontier = session.frontier
        /\ session'.processed \cup session'.deferred \subseteq session'.frontier
    BY <2>2 DEF TypeOK, Sessions, Sound, Bounds
  <2>4. /\ window' \in [claimed: Snapshots, attempted: Snapshots, unsupported: Snapshots,
                        status: WindowStatuses, final: Snapshots]
        /\ window'.claimed = window.claimed
        /\ window'.attempted \cup window'.unsupported \subseteq window'.claimed
    BY <2>2 DEF TypeOK, Snapshots
  <2>5. flags' \in [explored: BOOLEAN, fatal: BOOLEAN]
    BY <2>2
  <2>6. TypeOK'
    BY <1>7, <2>3, <2>4, <2>5 DEF PlanAndExecute, TypeOK
  <2>7. Bounds'
    BY <1>7, <2>3, <2>4 DEF PlanAndExecute, Bounds
  <2> QED
    BY <2>6, <2>7
<1>8. CASE commit_or_rollback
  <2>1. /\ final_snapshot \in Snapshots /\ window.attempted \in Snapshots
        /\ window.unsupported \in Snapshots /\ window.claimed \in Snapshots
        /\ window.status \in WindowStatuses
    BY DEF final_snapshot, TypeOK, Sessions
  <2>2. session.window_index + 1 \in 0..MaxWindows /\ session.window_index + 1 > 0
    BY <1>8 DEF commit_or_rollback, Bounds, TypeOK, Sessions
  <2>3. session' \in Sessions
    <3>1. session \in Sessions
      BY DEF TypeOK
    <3>2. /\ session.processed \cup window.attempted \cup window.unsupported \in Snapshots
          /\ (session.deferred \cup (window.claimed \ window.unsupported)) \ window.attempted
               \in Snapshots
          /\ session.statuses \cup {window.status} \in SUBSET WindowStatuses
          /\ (IF window.status = "COMMIT" THEN {final_snapshot} ELSE session.last_commit)
               \in SUBSET Snapshots
      BY <2>1, <3>1 DEF Sessions, Snapshots
    <3> QED
      BY <1>8, <2>1, <2>2, <3>1, <3>2 DEF commit_or_rollback, next_window_index, Sessions
  <2>4. /\ session'.completed = session.completed /\ session'.no_progress = session.no_progress
        /\ session'.window_index = session.window_index + 1
        /\ session'.frontier = session.frontier
        /\ session'.processed = session.processed \cup window.attempted \cup window.unsupported
        /\ session'.deferred = (session.deferred \cup (window.claimed \ window.unsupported))
                                 \ window.attempted
    BY <1>8 DEF commit_or_rollback, next_window_index, TypeOK, Sessions
  <2>5. session'.processed \cup session'.deferred \subseteq session'.frontier
    BY <1>8, <2>4 DEF commit_or_rollback, Bounds, TypeOK
  <2>6. pc' \in {"stage", "publish"}
    BY <1>8 DEF commit_or_rollback, after_window
  <2>7. TypeOK'
    BY <1>8, <2>1, <2>3, <2>5, <2>6 DEF commit_or_rollback, TypeOK
  <2>8. Bounds'
    BY <1>8, <2>2, <2>4, <2>5, <2>6 DEF commit_or_rollback, Bounds, Sound
  <2> QED
    BY <2>7, <2>8
<1>9. ASSUME pc \in {"stage", "publish"} PROVE Finished \in Windows
  <2>1. iteration \in 1..(MaxIterations + MaxStops)
    BY <1>9 DEF iteration, Bounds, TypeOK, Sessions
  <2>2. session.window_index - 1 \in 0..(MaxWindows - 1)
    BY <1>9 DEF Bounds, TypeOK, Sessions
  <2> QED
    BY <2>1, <2>2 DEF Finished, Windows, Iterations
<1>10. CASE StageExperience
  BY <1>9, <1>10 DEF StageExperience, TypeOK, Bounds
<1>11. CASE SaveCommit
  BY <1>11 DEF SaveCommit, Save, TypeOK, Bounds, SafeBoundaries, WindowBoundaries
<1>12. CASE update_experience
  BY <1>9, <1>12 DEF update_experience, TypeOK, Bounds
<1>13. CASE refresh_after_window
  <2>1. view' \in Snapshots
    BY <1>13 DEF refresh_after_window, TypeOK, Sessions
  <2> QED
    BY <1>13, <2>1 DEF refresh_after_window, Save, TypeOK, Bounds, SafeBoundaries,
                       WindowBoundaries, NoWindow, WindowStatuses, Snapshots
<1>14. CASE finish_iteration
  <2>1. /\ no_progress \in Nat /\ no_progress <= session.no_progress + 1
        /\ iteration \in 1..(MaxIterations + stops) /\ stops \in 0..MaxStops
    BY <1>14 DEF finish_iteration, no_progress, iteration, TypeOK, Sessions, Bounds
  <2>2. no_progress <= iteration
    BY <2>1 DEF Bounds, Sound, iteration, TypeOK, Sessions
  <2>3. iteration \in 0..(MaxIterations + MaxStops) /\ no_progress \in 0..(MaxIterations + MaxStops)
    BY <2>1, <2>2
  <2>4. /\ session' \in Sessions /\ Sound(session') /\ session'.completed = iteration
        /\ session'.processed \cup session'.deferred \subseteq session'.frontier
    BY <1>14, <2>2, <2>3 DEF finish_iteration, TypeOK, Sessions, Sound, Bounds
  <2>5. [start |-> session.start, final |-> session.current, deferred |-> Deferred,
         windows |-> session.window_index]
          \in [start: Snapshots, final: Snapshots, deferred: BOOLEAN, windows: 0..MaxWindows]
    BY DEF TypeOK, Sessions, Deferred
  <2>6. TypeOK'
    BY <1>14, <2>4, <2>5 DEF finish_iteration, TypeOK
  <2>7. Bounds'
    BY <1>14, <2>1, <2>4 DEF finish_iteration, Bounds
  <2> QED
    BY <2>6, <2>7
<1>15. CASE SaveIteration
  BY <1>15 DEF SaveIteration, Save, TypeOK, Bounds, SafeBoundaries
<1>16. CASE Continue
  <2>1. session.completed < MaxIterations
    BY <1>16 DEF Continue, stopping_condition, TypeOK, Sessions
  <2> QED
    BY <1>16, <2>1 DEF Continue, TypeOK, Bounds, Sessions
<1>17. CASE finalize_run
  <2>1. PICK budget_exhausted \in BOOLEAN :
          /\ stopping_condition(budget_exhausted) # "CONTINUE"
          /\ manifest' = ManifestOf(stopping_condition(budget_exhausted))
    BY <1>17 DEF finalize_run
  <2>2. stopping_condition(budget_exhausted) \in Completed
    BY <2>1 DEF stopping_condition, Completed
  <2>3. manifest' \in [status: Statuses, completed: SUBSET Nat, current: SUBSET Snapshots]
        /\ manifest'.status \in Completed
    BY <2>1, <2>2 DEF ManifestOf, Statuses, TypeOK, Sessions
  <2> QED
    BY <1>17, <2>3 DEF finalize_run, TypeOK, Bounds
<1>18. CASE Close
  <2>1. /\ NewSession({}, 0, 0) \in Sessions /\ Sound(NewSession({}, 0, 0))
        /\ NewSession({}, 0, 0).completed = 0
    <3>1. NewSession({}, 0, 0).completed = 0
      BY DEF NewSession
    <3> QED
      BY <3>1, NewSessionType DEF Snapshots
  <2>2. /\ session' = NewSession({}, 0, 0) /\ resumed' = Fresh
        /\ view' = {} /\ window' = NoWindow /\ exit' = "FRONTIER_EXHAUSTED" /\ flags' = NoFlags
    BY <1>18 DEF Close, Forget, Enter
  <2>3. TypeOK'
    BY <1>18, <2>1, <2>2 DEF Close, TypeOK, Fresh, NoWindow, NoFlags, WindowStatuses,
                             ExitReasons, Snapshots, Sound
  <2>4. Sound(session') /\ session'.completed = 0 /\ stops \in Nat /\ pc' = "down"
    BY <1>18, <2>1, <2>2 DEF Close, TypeOK
  <2>5. Bounds'
    BY <1>18, <2>2, <2>4 DEF Close, Bounds, NoWindow, Sound
  <2> QED
    BY <2>3, <2>5
<1>19. ASSUME NEW status \in Aborts, Abort(status) PROVE TypeOK' /\ Bounds'
  BY <1>19, TypeStop DEF Abort, ManifestOf, Statuses, TypeOK, Sessions
<1>20. CASE Kill
  BY <1>20, TypeStop DEF Kill, TypeOK
<1>21. CASE resume
  <2> DEFINE from == [boundary |-> checkpoint.boundary,
                      in_progress |-> IF checkpoint.boundary = "iteration_complete"
                                      THEN checkpoint.session.completed
                                      ELSE checkpoint.session.completed + 1]
  <2>1. from \in [boundary: SafeBoundaries \cup {"none"},
                  in_progress: 0..(MaxIterations + MaxStops + 1)]
    BY DEF TypeOK, Sessions
  <2>2. /\ session' = resume_session /\ resumed' = from
        /\ view' = {} /\ window' = NoWindow /\ exit' = "FRONTIER_EXHAUSTED" /\ flags' = NoFlags
    BY <1>21 DEF resume, Enter
  <2>3. /\ pc = "down" /\ manifest.status \notin Completed
    BY <1>21 DEF resume, Resumable, Completed
  <2> HIDE DEF from
  <2>4. TypeOK'
    BY <1>21, <2>1, <2>2, ResumedType DEF resume, TypeOK, NoWindow, NoFlags, WindowStatuses,
                                          ExitReasons, Snapshots, Sound
  <2>5. Bounds'
    BY <1>21, <2>2, <2>3, ResumedType DEF resume, Bounds, NoWindow
  <2> QED
    BY <2>4, <2>5
<1>22. CASE UNCHANGED vars
  BY <1>22 DEF vars, TypeOK, Bounds
<1> QED
  <2>1. ASSUME SelectDeferred \/ SelectFull \/ SelectNothing PROVE TypeOK' /\ Bounds'
    <3>1. {"DEFERRED_BUDGET", "MAX_WINDOWS_PER_ITERATION", exit} \subseteq ExitReasons
      BY DEF ExitReasons, TypeOK
    <3> QED
      BY <1>5, <2>1, <3>1 DEF SelectDeferred, SelectFull, SelectNothing
  <2> QED
    BY <1>1, <1>2, <1>3, <1>4, <2>1, <1>6, <1>7, <1>8, <1>10, <1>11, <1>12, <1>13, <1>14,
       <1>15, <1>16, <1>17, <1>18, <1>19, <1>20, <1>21, <1>22 DEF Next, Workflow

THEOREM TypeCorrect == Spec => [](TypeOK /\ Bounds)
<1>1. Init => TypeOK /\ Bounds
  BY TypeInit
<1>2. (TypeOK /\ Bounds) /\ [Next]_vars => (TypeOK /\ Bounds)'
  BY TypeStep
<1> QED
  BY <1>1, <1>2, PTL DEF Spec

-----------------------------------------------------------------------------
(* What the steps do to the session: the fields the invariants are about. *)

LEMMA SessionSteps ==
  ASSUME TypeOK
  PROVE  /\ start_iteration =>
              IF resume_current_iteration THEN session' = session
              ELSE /\ session'.current = session.current /\ session'.start = session.current
                   /\ session'.completed = session.completed /\ session'.window_index = 0
         /\ \A status \in WindowStatuses : PlanAndExecute(status) =>
              /\ session'.current = session.current /\ session'.start = session.start
              /\ session'.completed = session.completed
              /\ session'.window_index = session.window_index
              /\ window'.status = status /\ window'.claimed = window.claimed
              /\ window'.final \subseteq session.current
         /\ commit_or_rollback =>
              /\ session'.current = final_snapshot /\ session'.start = session.start
              /\ session'.completed = session.completed
              /\ session'.window_index = session.window_index + 1
              /\ pc' \in {"stage", "publish"}
              /\ pc' = "publish" => session'.current = session.current
              /\ pc' = "stage" => window.status = "COMMIT"
         /\ finish_iteration =>
              /\ session'.current = session.current /\ session'.completed = iteration
              /\ session'.window_index = session.window_index
<1>1. ASSUME start_iteration
      PROVE  IF resume_current_iteration THEN session' = session
              ELSE /\ session'.current = session.current /\ session'.start = session.current
                   /\ session'.completed = session.completed /\ session'.window_index = 0
  BY <1>1 DEF start_iteration, NewSession
<1>2. ASSUME NEW status \in WindowStatuses, PlanAndExecute(status)
      PROVE  /\ session'.current = session.current /\ session'.start = session.start
             /\ session'.completed = session.completed
             /\ session'.window_index = session.window_index
             /\ window'.status = status /\ window'.claimed = window.claimed
             /\ window'.final \subseteq session.current
  <2>1. PICK attempted \in SUBSET window.claimed, cost \in Costs :
          \E unsupported \in SUBSET (window.claimed \ attempted),
             final \in SUBSET session.current :
            /\ window' = [window EXCEPT !.attempted = attempted, !.final = final,
                                        !.unsupported = unsupported, !.status = status]
            /\ session' = [session EXCEPT !.spent = @ + cost]
    BY <1>2 DEF PlanAndExecute
  <2> QED
    BY <2>1 DEF TypeOK, Sessions
<1>3. ASSUME commit_or_rollback
      PROVE  /\ session'.current = final_snapshot /\ session'.start = session.start
             /\ session'.completed = session.completed
             /\ session'.window_index = session.window_index + 1
             /\ pc' \in {"stage", "publish"}
             /\ pc' = "publish" => session'.current = session.current
             /\ pc' = "stage" => window.status = "COMMIT"
  BY <1>3 DEF commit_or_rollback, next_window_index, after_window, final_snapshot, TypeOK, Sessions
<1>4. ASSUME finish_iteration
      PROVE  /\ session'.current = session.current /\ session'.completed = iteration
             /\ session'.window_index = session.window_index
  BY <1>4 DEF finish_iteration, TypeOK, Sessions
<1> QED
  BY <1>1, <1>2, <1>3, <1>4

LEMMA LeavingStep ==
  ASSUME Stop \/ Close
  PROVE  /\ pc' = "down" /\ resumed' = Fresh /\ pc # "down"
         /\ checkpoint' = checkpoint \/ Stop
BY DEF Stop, Close, Forget, Enter, disk

LEMMA ResumeStep ==
  ASSUME TypeOK, Bounds, resume
  PROVE  /\ pc = "down" /\ pc' = "initialize"
         /\ checkpoint' = checkpoint /\ manifest' = manifest /\ journal' = journal
         /\ summaries' = summaries /\ results' = results
         /\ session'.current = checkpoint.session.current
         /\ session'.completed = checkpoint.session.completed
         /\ checkpoint.boundary \in WindowBoundaries =>
              session' = checkpoint.session /\ resume_current_iteration'
         /\ resumed'.boundary = checkpoint.boundary
         /\ checkpoint.boundary \in WindowBoundaries =>
              resumed'.in_progress = checkpoint.session.completed + 1
<1>1. /\ session' = resume_session
      /\ resumed' = [boundary |-> checkpoint.boundary,
                     in_progress |-> IF checkpoint.boundary = "iteration_complete"
                                     THEN checkpoint.session.completed
                                     ELSE checkpoint.session.completed + 1]
  BY DEF resume, Enter
<1>2. resume_session.current = checkpoint.session.current
  BY DEF resume_session, AtBoundary, NewSession
<1>3. checkpoint.boundary \in WindowBoundaries =>
        /\ resume_session = checkpoint.session
        /\ resumed'.in_progress = checkpoint.session.completed + 1
  BY <1>1 DEF resume_session, AtBoundary, WindowBoundaries
<1>4. checkpoint.boundary \in WindowBoundaries => resume_current_iteration'
  BY <1>1, <1>3 DEF resume_current_iteration, iteration
<1>5. /\ pc = "down" /\ pc' = "initialize"
      /\ checkpoint' = checkpoint /\ manifest' = manifest /\ journal' = journal
      /\ summaries' = summaries /\ results' = results
  BY DEF resume, Resumable, disk
<1>6. resumed'.boundary = checkpoint.boundary
  BY <1>1
<1>7. resume_session.completed = checkpoint.session.completed
  BY ResumedType
<1> QED
  BY <1>1, <1>2, <1>3, <1>4, <1>5, <1>6, <1>7

-----------------------------------------------------------------------------
(* Planners and transactions see the current snapshot. *)

LEMMA RebuiltStep == TypeOK /\ Rebuilt /\ [Next]_vars => Rebuilt'
<1> SUFFICES ASSUME TypeOK, Rebuilt, [Next]_vars PROVE Rebuilt'
  OBVIOUS
<1> USE DEF memory, disk, AfterStep
<1>1. CASE initialize_case \/ FirstCheckpoint \/ ParseDesignState
  BY <1>1 DEF initialize_case, FirstCheckpoint, ParseDesignState, Rebuilt
<1>2. CASE start_iteration
  BY <1>2, SessionSteps DEF start_iteration, Rebuilt
<1>3. ASSUME NEW reason, EndIteration(reason) PROVE Rebuilt'
  BY <1>3 DEF EndIteration, Rebuilt
<1>4. CASE select_active_window
  BY <1>4 DEF select_active_window, Rebuilt, NoWindow, Pending
<1>5. ASSUME NEW status \in WindowStatuses, PlanAndExecute(status) PROVE Rebuilt'
  BY <1>5, SessionSteps DEF PlanAndExecute, Rebuilt
<1>6. CASE commit_or_rollback
  BY <1>6, SessionSteps DEF commit_or_rollback, Rebuilt
<1>7. CASE StageExperience \/ SaveCommit \/ update_experience
  BY <1>7 DEF StageExperience, SaveCommit, update_experience, Rebuilt
<1>8. CASE refresh_after_window
  BY <1>8 DEF refresh_after_window, Rebuilt
<1>9. CASE finish_iteration
  BY <1>9, SessionSteps DEF finish_iteration, Rebuilt
<1>10. CASE SaveIteration \/ Continue \/ finalize_run
  BY <1>10 DEF SaveIteration, Continue, finalize_run, Rebuilt
<1>11. CASE Close \/ Kill \/ resume \/ \E status \in Aborts : Abort(status)
  <2>1. pc' \in {"down", "initialize"}
    BY <1>11, LeavingStep DEF Kill, Abort, resume
  <2> QED
    BY <2>1 DEF Rebuilt
<1>12. CASE UNCHANGED vars
  BY <1>12 DEF vars, Rebuilt
<1> QED
  BY <1>1, <1>2, <1>3, <1>4, <1>5, <1>6, <1>7, <1>8, <1>9, <1>10, <1>11, <1>12
     DEF Next, Workflow, SelectDeferred, SelectFull, SelectNothing

(* Wherever a window is planned and executed, the violations and the      *)
(* graph it works on are those of the current snapshot (refresh after a   *)
(* commit, parse_design_state after a resume).                            *)
THEOREM PlannersSeeCurrent == Spec => []WindowSeesCurrent
<1>1. Init => Rebuilt
  BY DEF Init, Rebuilt, AfterStep
<1>2. (TypeOK /\ Bounds) /\ Rebuilt /\ [Next]_vars => Rebuilt'
  BY RebuiltStep
<1>3. Rebuilt => WindowSeesCurrent
  BY DEF Rebuilt, WindowSeesCurrent
<1> QED
  BY <1>1, <1>2, <1>3, TypeCorrect, PTL DEF Spec

-----------------------------------------------------------------------------
(* Memory, checkpoint and manifest agree. *)

LEMMA AgreementStep == TypeOK /\ Bounds /\ Agreement /\ [Next]_vars => Agreement'
<1> SUFFICES ASSUME TypeOK, Bounds, Agreement, [Next]_vars PROVE Agreement'
  OBVIOUS
<1> USE DEF memory, disk, Working, Opening, InWindows, AfterStep, WindowBoundaries
<1>0. /\ iteration \in Nat /\ session.completed \in Nat /\ session.window_index \in Nat
      /\ checkpoint.session.window_index \in Nat /\ checkpoint.session.completed \in Nat
      /\ resumed.in_progress \in Nat
  BY DEF TypeOK, Sessions, iteration
<1>1. CASE initialize_case
  BY <1>1 DEF initialize_case, Agreement, resume_current_iteration, iteration
<1>2. CASE FirstCheckpoint
  BY <1>2 DEF FirstCheckpoint, Save, Agreement, resume_current_iteration, iteration, Fresh
<1>3. CASE ParseDesignState
  BY <1>3 DEF ParseDesignState, Agreement, resume_current_iteration, iteration
<1>4. CASE start_iteration
  BY <1>0, <1>4, SessionSteps
     DEF start_iteration, Agreement, iteration
<1>5. ASSUME NEW reason, EndIteration(reason) PROVE Agreement'
  BY <1>5 DEF EndIteration, Agreement, iteration
<1>6. CASE select_active_window
  BY <1>6 DEF select_active_window, Agreement, iteration, NoWindow
<1>7. ASSUME NEW status \in WindowStatuses, PlanAndExecute(status) PROVE Agreement'
  BY <1>7, SessionSteps DEF PlanAndExecute, Agreement, iteration
<1>8. CASE commit_or_rollback
  <2>1. final_snapshot \subseteq session.current
    BY <1>8 DEF commit_or_rollback, final_snapshot, Agreement
  <2> QED
    BY <1>0, <1>8, <2>1, SessionSteps DEF commit_or_rollback, Agreement, iteration
<1>9. CASE StageExperience
  BY <1>9 DEF StageExperience, Agreement, iteration
<1>10. CASE SaveCommit
  BY <1>0, <1>10 DEF SaveCommit, Save, Agreement, iteration
<1>11. CASE update_experience
  BY <1>11 DEF update_experience, Agreement, iteration
<1>12. CASE refresh_after_window
  BY <1>0, <1>12 DEF refresh_after_window, Save, Agreement, iteration
<1>13. CASE finish_iteration
  BY <1>0, <1>13, SessionSteps DEF finish_iteration, Agreement, iteration
<1>14. CASE SaveIteration
  BY <1>14 DEF SaveIteration, Save, Agreement, iteration
<1>15. CASE Continue
  BY <1>0, <1>15 DEF Continue, Agreement, resume_current_iteration, iteration
<1>16. CASE finalize_run
  BY <1>16 DEF finalize_run, Agreement, iteration
<1>17. CASE Close \/ Kill \/ \E status \in Aborts : Abort(status)
  <2>1. pc' = "down" /\ resumed' = Fresh /\ checkpoint' = checkpoint
    BY <1>17, LeavingStep DEF Kill, Abort, Close
  <2> QED
    BY <2>1 DEF Agreement, Fresh
<1>18. CASE resume
  BY <1>0, <1>18, ResumeStep DEF Agreement, iteration
<1>19. CASE UNCHANGED vars
  BY <1>19 DEF vars, Agreement, resume_current_iteration, iteration
<1> QED
  BY <1>1, <1>2, <1>3, <1>4, <1>5, <1>6, <1>7, <1>8, <1>9, <1>10, <1>11, <1>12, <1>13,
     <1>14, <1>15, <1>16, <1>17, <1>18, <1>19
     DEF Next, Workflow, SelectDeferred, SelectFull, SelectNothing

LEMMA StoppedStep == TypeOK /\ Agreement /\ Stopped /\ [Next]_vars => Stopped'
<1> SUFFICES ASSUME TypeOK, Agreement, Stopped, [Next]_vars PROVE Stopped'
  OBVIOUS
<1> USE DEF memory, disk
<1>1. CASE initialize_case
  <2>1. manifest'.status = "RUNNING"
    <3>1. CASE manifest' = [status |-> "RUNNING", completed |-> {}, current |-> {}]
      BY <3>1
    <3>2. CASE manifest' = [manifest EXCEPT !.status = "RUNNING", !.current = {session.current}]
      BY <3>2 DEF TypeOK
    <3> QED
      BY <1>1, <3>1, <3>2 DEF initialize_case
  <2> QED
    BY <2>1 DEF Stopped
<1>2. CASE finalize_run
  <2>1. manifest'.status \in Completed
    BY <1>2 DEF finalize_run, ManifestOf, stopping_condition, Completed
  <2> QED
    BY <2>1 DEF Stopped, Completed
<1>3. ASSUME pc \notin {"down", "initialize"}, UNCHANGED manifest PROVE Stopped'
  BY <1>3 DEF Stopped
<1>4. CASE \/ FirstCheckpoint \/ ParseDesignState \/ start_iteration
           \/ SelectDeferred \/ SelectFull \/ SelectNothing \/ select_active_window
           \/ \E status \in WindowStatuses : PlanAndExecute(status)
  BY <1>3, <1>4 DEF FirstCheckpoint, ParseDesignState, start_iteration, SelectDeferred,
                    SelectFull, SelectNothing, EndIteration, select_active_window, PlanAndExecute
<1>5. CASE \/ commit_or_rollback \/ StageExperience \/ SaveCommit \/ update_experience
           \/ refresh_after_window \/ finish_iteration \/ SaveIteration \/ Continue \/ Close
  BY <1>3, <1>5 DEF commit_or_rollback, StageExperience, SaveCommit, update_experience,
                    refresh_after_window, finish_iteration, SaveIteration, Continue, Close
<1>6. CASE Kill
  BY <1>6, LeavingStep DEF Kill, Stopped
<1>7. ASSUME NEW status \in Aborts, Abort(status) PROVE Stopped'
  <2>1. /\ pc' = "down" /\ checkpoint' = checkpoint /\ pc # "down"
        /\ manifest' = [status |-> status, completed |-> {session.completed},
                        current |-> {session.current}]
    BY <1>7, LeavingStep DEF Abort, ManifestOf
  <2>2. ASSUME status \in {"INTERRUPTED", "FAILED_INFRASTRUCTURE"}, checkpoint.boundary # "none"
        PROVE  /\ session.completed = checkpoint.session.completed
               /\ session.current = checkpoint.session.current
    <3>1. pc \in Nodes \ (InHandler \cup {"down"})
      BY <1>7, <2>1, <2>2 DEF Abort, TypeOK
    <3> QED
      BY <2>2, <3>1 DEF Nodes, InHandler, Agreement, Working, Opening, InWindows, AfterStep
  <2> QED
    BY <2>1, <2>2 DEF Stopped
<1>8. CASE resume
  BY <1>8 DEF resume, Stopped
<1>9. CASE UNCHANGED vars
  BY <1>9 DEF vars, Stopped
<1> QED
  BY <1>1, <1>2, <1>4, <1>5, <1>6, <1>7, <1>8, <1>9 DEF Next, Workflow

Agreed == TypeOK /\ Bounds /\ Agreement /\ Stopped

THEOREM MemoryAgrees == Spec => []Agreed
<1>1. Init => Agreed
  <2> SUFFICES ASSUME Init PROVE Agreement /\ Stopped
    BY TypeInit DEF Agreed
  <2>1. session = NewSession(Violations, 0, 0) /\ checkpoint.session = NewSession({}, 0, 0)
        /\ checkpoint.boundary = "none" /\ resumed = Fresh /\ pc = "initialize"
        /\ manifest.status = "NONE"
    BY DEF Init
  <2>2. session.completed = 0 /\ checkpoint.session.completed = 0
    BY <2>1 DEF NewSession
  <2>3. Agreement
    BY <2>1, <2>2 DEF Agreement, Fresh, WindowBoundaries, Working, Opening, InWindows, AfterStep
  <2>4. Stopped
    BY <2>1 DEF Stopped
  <2> QED
    BY <2>3, <2>4
<1>2. Agreed /\ [Next]_vars => Agreed'
  BY TypeStep, AgreementStep, StoppedStep DEF Agreed
<1> QED
  BY <1>1, <1>2, PTL DEF Spec

(* A run stopped by a signal or a failing service always passes the       *)
(* comparisons of _resume_p5 once it has a safe checkpoint.               *)
THEOREM StoppedRunsAreResumable == Spec => []StoppedRunsResume
<1>1. Agreed => StoppedRunsResume
  <2> SUFFICES ASSUME Agreed, pc = "down", checkpoint.boundary # "none",
                      manifest.status \in {"INTERRUPTED", "FAILED_INFRASTRUCTURE"}
               PROVE  Resumable
    BY DEF StoppedRunsResume
  <2>1. checkpoint.boundary \in SafeBoundaries
    BY DEF Agreed, TypeOK
  <2> QED
    BY <2>1 DEF Agreed, Stopped, Resumable
<1> QED
  BY <1>1, MemoryAgrees, PTL

-----------------------------------------------------------------------------
(* What a checkpoint counts is neither run again nor taken back. *)

LEMMA ResultsKept == Agreed /\ [Next]_vars =>
  [\A w \in Windows : Counted(w) => results'[w] = results[w]]_vars
<1> SUFFICES ASSUME Agreed, Next, NEW w \in Windows, Counted(w) PROVE results'[w] = results[w]
  OBVIOUS
<1> USE DEF memory, disk
<1>1. CASE commit_or_rollback
  <2>1. pc = "commit" /\ results' = [results EXCEPT ![Active] = window.status]
    BY <1>1 DEF commit_or_rollback
  <2>2. session.completed = checkpoint.session.completed /\ session.completed \in Nat
    BY <2>1 DEF Agreed, Agreement, Working, InWindows, TypeOK, Sessions
  <2>3. checkpoint.boundary \in WindowBoundaries =>
          session.window_index >= checkpoint.session.window_index
    BY <2>1 DEF Agreed, Agreement, InWindows
  <2>4. session.window_index \in Nat /\ checkpoint.session.window_index \in Nat
    BY DEF Agreed, TypeOK, Sessions
  <2>5. w # Active
    BY <2>2, <2>3, <2>4 DEF Counted, Active, iteration
  <2> QED
    BY <2>1, <2>5 DEF Agreed, TypeOK
<1>2. ASSUME UNCHANGED results PROVE results'[w] = results[w]
  BY <1>2
<1>3. CASE \/ initialize_case \/ FirstCheckpoint \/ ParseDesignState \/ start_iteration
           \/ SelectDeferred \/ SelectFull \/ SelectNothing \/ select_active_window
           \/ \E status \in WindowStatuses : PlanAndExecute(status)
  BY <1>2, <1>3 DEF initialize_case, FirstCheckpoint, ParseDesignState, start_iteration,
     SelectDeferred, SelectFull, SelectNothing, EndIteration, select_active_window, PlanAndExecute
<1>4. CASE \/ StageExperience \/ SaveCommit \/ update_experience \/ refresh_after_window
           \/ finish_iteration \/ SaveIteration \/ Continue \/ finalize_run \/ Close
  BY <1>2, <1>4 DEF StageExperience, SaveCommit, update_experience, refresh_after_window,
                    finish_iteration, SaveIteration, Continue, finalize_run, Close
<1>5. CASE Kill \/ resume \/ \E status \in Aborts : Abort(status)
  BY <1>2, <1>5 DEF Kill, resume, Abort
<1> QED
  BY <1>1, <1>3, <1>4, <1>5 DEF Next, Workflow

LEMMA CommitsKept == Agreed /\ [Next]_vars =>
  [checkpoint.boundary # "none" =>
     checkpoint'.session.current \subseteq checkpoint.session.current]_vars
<1> SUFFICES ASSUME Agreed, Next, checkpoint.boundary # "none"
             PROVE  checkpoint'.session.current \subseteq checkpoint.session.current
  OBVIOUS
<1> USE DEF memory, disk
<1>1. CASE FirstCheckpoint \/ SaveCommit \/ refresh_after_window \/ SaveIteration
  <2>1. pc # "down" /\ checkpoint'.session = session
    BY <1>1 DEF FirstCheckpoint, SaveCommit, refresh_after_window, SaveIteration, Save
  <2> QED
    BY <2>1 DEF Agreed, Agreement
<1>2. ASSUME UNCHANGED checkpoint
      PROVE  checkpoint'.session.current \subseteq checkpoint.session.current
  BY <1>2
<1>3. CASE \/ initialize_case \/ ParseDesignState \/ start_iteration
           \/ SelectDeferred \/ SelectFull \/ SelectNothing \/ select_active_window
           \/ \E status \in WindowStatuses : PlanAndExecute(status)
  BY <1>2, <1>3 DEF initialize_case, ParseDesignState, start_iteration,
     SelectDeferred, SelectFull, SelectNothing, EndIteration, select_active_window, PlanAndExecute
<1>4. CASE \/ commit_or_rollback \/ StageExperience \/ update_experience
           \/ finish_iteration \/ Continue \/ finalize_run \/ Close
  BY <1>2, <1>4 DEF commit_or_rollback, StageExperience, update_experience,
                    finish_iteration, Continue, finalize_run, Close
<1>5. CASE Kill \/ resume \/ \E status \in Aborts : Abort(status)
  BY <1>2, <1>5 DEF Kill, resume, Abort
<1> QED
  BY <1>1, <1>3, <1>4, <1>5 DEF Next, Workflow

(* Whatever is killed and resumed, a window that the latest checkpoint    *)
(* counts is not run again and a violation removed from the checkpointed  *)
(* snapshot does not come back.                                           *)
THEOREM CountedIsFinal == Spec => NothingIsRepeated
<1>1. Spec => CountedResultsStay
  BY MemoryAgrees, ResultsKept, PTL DEF Spec, CountedResultsStay
<1>2. Spec => ProgressIsKept
  BY MemoryAgrees, CommitsKept, PTL DEF Spec, ProgressIsKept
<1> QED
  BY <1>1, <1>2 DEF NothingIsRepeated

-----------------------------------------------------------------------------
(* What a checkpoint counts is in the experience journal. *)

LEMMA JournalsStep == Agreed /\ Journals /\ [Next]_vars => Journals'
<1> SUFFICES ASSUME Agreed, Journals, [Next]_vars PROVE Journals'
  OBVIOUS
<1>0. TypeOK /\ Bounds /\ Agreement
  BY DEF Agreed
<1> USE <1>0
<1> USE DEF memory, disk, Working, Opening, InWindows, AfterStep, WindowBoundaries
<1>a. /\ iteration \in Nat /\ session.completed \in Nat /\ session.window_index \in Nat
      /\ iteration = session.completed + 1
      /\ checkpoint.session.window_index \in Nat /\ checkpoint.session.completed \in Nat
  BY DEF TypeOK, Sessions, iteration
<1>1. CASE initialize_case
  BY <1>1 DEF initialize_case, Journals, resume_current_iteration, iteration, Journaled
<1>2. CASE FirstCheckpoint
  BY <1>2 DEF FirstCheckpoint, Save, Journals, resume_current_iteration, iteration, Journaled
<1>3. CASE ParseDesignState
  BY <1>3 DEF ParseDesignState, Journals, resume_current_iteration, iteration, Journaled
<1>4. CASE start_iteration
  <2>1. pc' = "select" /\ UNCHANGED <<resumed, checkpoint, journal, summaries>>
    BY <1>4 DEF start_iteration
  <2>2. Journaled(iteration, 0)
    BY DEF Journaled, Windows
  <2>3. session'.completed = session.completed
    BY <1>4, SessionSteps
  <2>4. Journaled(iteration, session'.window_index)
    BY <1>4, <2>2, SessionSteps DEF start_iteration, Journals
  <2> QED
    BY <2>1, <2>3, <2>4 DEF Journals, Journaled, iteration
<1>5. ASSUME NEW reason, EndIteration(reason) PROVE Journals'
  BY <1>5 DEF EndIteration, Journals, Journaled, iteration
<1>6. CASE select_active_window
  BY <1>6 DEF select_active_window, Journals, Journaled, iteration
<1>7. ASSUME NEW status \in WindowStatuses, PlanAndExecute(status) PROVE Journals'
  BY <1>7, SessionSteps DEF PlanAndExecute, Journals, Journaled, iteration
<1>8. CASE commit_or_rollback
  <2>1. /\ session'.window_index - 1 = session.window_index
        /\ session'.completed = session.completed /\ pc' \in {"stage", "publish"}
    BY <1>8, <1>a, SessionSteps
  <2> QED
    BY <1>8, <2>1 DEF commit_or_rollback, Journals, Journaled, iteration
<1>9. ASSUME pc \in {"stage", "publish"}, journal' = journal \cup {Finished},
             UNCHANGED <<memory, checkpoint, summaries>>, pc' \in {"save_commit", "refresh"}
      PROVE  Journals'
  <2>1. Journaled(iteration, session.window_index)'
    <3> SUFFICES ASSUME NEW w \in Windows, w[1] = iteration, w[2] < session.window_index,
                        w # Finished
                 PROVE  w \in journal
      BY <1>9 DEF Journaled, iteration
    <3>1. w = <<w[1], w[2]>> /\ w[2] \in Nat
      BY DEF Windows
    <3>2. w[2] # session.window_index - 1
      BY <3>1 DEF Finished
    <3>3. w[2] < session.window_index - 1
      BY <1>a, <3>1, <3>2
    <3> QED
      BY <1>9, <3>3 DEF Journals, Journaled
  <2> QED
    BY <1>9, <2>1 DEF Journals, Journaled, iteration
<1>10. CASE StageExperience \/ update_experience
  BY <1>9, <1>10 DEF StageExperience, update_experience
<1>11. CASE SaveCommit \/ refresh_after_window
  <2>1. pc \in {"save_commit", "refresh"} /\ pc' \in {"publish", "select"}
    BY <1>11 DEF SaveCommit, refresh_after_window
  <2>2. Journaled(iteration, session.window_index)
    BY <2>1 DEF Journals
  <2>3. Journaled(iteration, session.window_index - 1)
    BY <1>a, <2>2 DEF Journaled, Windows
  <2>4. checkpoint'.session = session
        /\ UNCHANGED <<session, resumed, journal, summaries>>
    BY <1>11 DEF SaveCommit, refresh_after_window, Save
  <2> QED
    BY <1>a, <2>1, <2>2, <2>3, <2>4 DEF Journals, Journaled, iteration
<1>12. CASE finish_iteration
  <2>1. Journaled(iteration, session.window_index) /\ pc' = "save_iteration"
    BY <1>12 DEF finish_iteration, Journals
  <2>2. \A i \in Iterations : \A s \in summaries'[i] : Journaled(i, s.windows)
    BY <1>12, <2>1 DEF finish_iteration, Journals, TypeOK
  <2>3. UNCHANGED <<journal, checkpoint>>
    BY <1>12 DEF finish_iteration
  <2> QED
    BY <2>1, <2>2, <2>3 DEF Journals, Journaled
<1>13. CASE SaveIteration
  BY <1>13 DEF SaveIteration, Save, Journals, Journaled
<1>14. CASE Continue
  <2>1. ~resume_current_iteration' /\ pc' = "start_iteration"
    BY <1>14, <1>a DEF Continue, Agreement, resume_current_iteration, iteration, TypeOK
  <2> QED
    BY <1>14, <2>1 DEF Continue, Journals, Journaled
<1>15. CASE finalize_run
  BY <1>15 DEF finalize_run, Journals, Journaled
<1>16. CASE Close \/ Kill \/ \E status \in Aborts : Abort(status)
  <2>1. pc' = "down" /\ UNCHANGED <<checkpoint, journal, summaries>>
    BY <1>16, LeavingStep DEF Kill, Abort, Close
  <2> QED
    BY <2>1 DEF Journals, Journaled
<1>17. CASE resume
  <2>1. ASSUME resume_current_iteration'
        PROVE  checkpoint.boundary \in WindowBoundaries /\ session' = checkpoint.session
    BY <1>17, <2>1, ResumeStep DEF resume_current_iteration
  <2> QED
    BY <1>17, <2>1, ResumeStep DEF Journals, Journaled, iteration
<1>18. CASE UNCHANGED vars
  BY <1>18 DEF vars, Journals, Journaled, resume_current_iteration, iteration
<1> QED
  BY <1>1, <1>2, <1>3, <1>4, <1>5, <1>6, <1>7, <1>8, <1>10, <1>11, <1>12, <1>13,
     <1>14, <1>15, <1>16, <1>17, <1>18
     DEF Next, Workflow, SelectDeferred, SelectFull, SelectNothing

-----------------------------------------------------------------------------
(* The summaries form one chain. *)

LEMMA ChainedStep == Agreed /\ Chained /\ [Next]_vars => Chained'
<1> SUFFICES ASSUME Agreed, Chained, [Next]_vars PROVE Chained'
  OBVIOUS
<1>0. TypeOK /\ Bounds /\ Agreement
  BY DEF Agreed
<1> USE <1>0, LifecycleAssumption
<1> USE DEF memory, disk, Working, Opening, InWindows, AfterStep, WindowBoundaries
<1>a. /\ session.completed \in Nat /\ iteration = session.completed + 1
      /\ checkpoint.session.completed \in Nat
  BY DEF TypeOK, Sessions, iteration
<1>1. CASE initialize_case
  BY <1>1 DEF initialize_case, Chained, Linked, Starts, Finals, resume_current_iteration, iteration
<1>2. CASE FirstCheckpoint
  <2>1. /\ pc = "first_checkpoint" /\ pc' = "parse" /\ UNCHANGED <<session, summaries, resumed>>
        /\ checkpoint' = [boundary |-> "initialize_case", session |-> session]
    BY <1>2 DEF FirstCheckpoint, Save
  <2>2. resumed = Fresh /\ session.completed = checkpoint.session.completed
    BY <2>1 DEF Agreement
  <2>3. ~resume_current_iteration /\ ~resume_current_iteration'
    BY <2>1, <2>2 DEF resume_current_iteration, Fresh
  <2>4. Finals(session.completed) = {session.current}
    BY <2>1, <2>3 DEF Chained
  <2>5. \A i \in 1..session.completed : Linked(i)
    BY <2>2 DEF Chained
  <2> QED
    BY <2>1, <2>3, <2>4, <2>5 DEF Chained, Linked, Starts, Finals
<1>3. CASE ParseDesignState
  BY <1>3 DEF ParseDesignState, Chained, Linked, Starts, Finals, resume_current_iteration, iteration
<1>4. CASE start_iteration
  <2>1. pc = "start_iteration" /\ pc' = "select" /\ UNCHANGED <<checkpoint, summaries>>
    BY <1>4 DEF start_iteration
  <2>2. Starts(session)'
    BY <1>4, <2>1, SessionSteps DEF Chained, Starts, Finals
  <2> QED
    BY <2>1, <2>2 DEF Chained, Linked, Starts, Finals
<1>5. ASSUME NEW reason, EndIteration(reason) PROVE Chained'
  BY <1>5 DEF EndIteration, Chained, Linked, Starts, Finals
<1>6. CASE select_active_window
  BY <1>6 DEF select_active_window, Chained, Linked, Starts, Finals
<1>7. ASSUME NEW status \in WindowStatuses, PlanAndExecute(status) PROVE Chained'
  <2>1. pc = "plan" /\ pc' = "commit" /\ UNCHANGED <<checkpoint, summaries>>
    BY <1>7 DEF PlanAndExecute
  <2>2. Starts(session)'
    BY <1>7, <2>1, SessionSteps DEF Chained, Starts, Finals
  <2> QED
    BY <2>1, <2>2 DEF Chained, Linked, Starts, Finals
<1>8. CASE commit_or_rollback
  <2>1. /\ pc = "commit" /\ pc' \in {"stage", "publish"} /\ UNCHANGED <<checkpoint, summaries>>
        /\ final_snapshot \subseteq session.current
    BY <1>8, SessionSteps DEF commit_or_rollback, final_snapshot, Agreement
  <2>2. Starts(session)'
    BY <1>8, <2>1, SessionSteps DEF Chained, Starts, Finals
  <2>3. \A i : Linked(i)' = Linked(i) /\ Finals(i)' = Finals(i)
    BY <2>1 DEF Linked, Finals
  <2>4. Starts(checkpoint.session)' = Starts(checkpoint.session)
    BY <2>1, <2>3 DEF Starts
  <2>5. pc' \notin Opening /\ pc' # "save_iteration"
    BY <2>1
  <2>6. (\A i \in 1..checkpoint.session.completed : Linked(i))'
    BY <2>1, <2>3 DEF Chained
  <2>7. (checkpoint.boundary \in WindowBoundaries => Starts(checkpoint.session))'
    BY <2>1, <2>4 DEF Chained
  <2>8. (checkpoint.boundary \in {"initialize_case", "iteration_complete"} =>
           Finals(checkpoint.session.completed) = {checkpoint.session.current})'
    BY <2>1, <2>3 DEF Chained
  <2> QED
    BY <2>2, <2>5, <2>6, <2>7, <2>8 DEF Chained
<1>9. CASE StageExperience \/ update_experience
  <2>1. /\ pc \in InWindows /\ pc' \in InWindows
        /\ UNCHANGED <<session, checkpoint, summaries>>
    BY <1>9 DEF StageExperience, update_experience
  <2> QED
    BY <2>1 DEF Chained, Linked, Starts, Finals
<1>10. CASE SaveCommit \/ refresh_after_window
  <2>1. /\ pc \in InWindows /\ pc' \in InWindows /\ checkpoint'.session = session
        /\ checkpoint'.boundary \in WindowBoundaries /\ UNCHANGED <<session, summaries>>
    BY <1>10 DEF SaveCommit, refresh_after_window, Save
  <2>2. session.completed = checkpoint.session.completed
    BY <2>1 DEF Agreement
  <2> QED
    BY <2>1, <2>2 DEF Chained, Linked, Starts, Finals
<1>11. CASE finish_iteration
  <2> DEFINE summary == [start |-> session.start, final |-> session.current,
                         deferred |-> Deferred, windows |-> session.window_index]
  <2>1. PICK n \in Nat : n = session.completed
    BY <1>a
  <2>2. /\ summaries' = [summaries EXCEPT ![n + 1] = {summary}]
        /\ pc = "finish" /\ pc' = "save_iteration" /\ checkpoint' = checkpoint
        /\ session'.current = session.current /\ session'.completed = n + 1
    BY <1>11, <2>1, <1>a, SessionSteps DEF finish_iteration
  <2>3. /\ n = checkpoint.session.completed /\ n < MaxIterations + stops
        /\ stops \in 0..MaxStops
    BY <2>1, <2>2 DEF Agreement, Bounds, TypeOK
  <2>4. n + 1 \in Iterations /\ \A i \in 1..n : i \in Iterations /\ i # n + 1
    BY <2>3 DEF Iterations
  <2>5. summaries'[n + 1] = {summary} /\ \A i \in 1..n : summaries'[i] = summaries[i]
    BY <2>2, <2>4 DEF TypeOK
  <2>6. \A i \in 0..n : i = 0 \/ i \in 1..n
    OBVIOUS
  <2>7. \A i \in 0..n : Finals(i)' = Finals(i)
    BY <2>5, <2>6 DEF Finals
  <2>8. ASSUME NEW i \in 1..n PROVE Linked(i)'
    <3>1. Linked(i) /\ i - 1 \in 0..n
      BY <2>3 DEF Chained
    <3>2. Finals(i - 1)' = Finals(i - 1)
      BY <2>7, <3>1
    <3> QED
      BY <2>5, <3>1, <3>2 DEF Linked
  <2>9. Finals(n) = {session.start} /\ session.current \subseteq session.start
    BY <2>1, <2>2 DEF Chained, Starts
  <2>10. Linked(n + 1)'
    <3>1. Finals(n)' = {session.start} /\ (n + 1) - 1 = n
      BY <2>7, <2>9
    <3>2. {s.start : s \in summaries'[n + 1]} = {session.start}
      BY <2>5
    <3> QED
      BY <2>5, <3>1, <3>2 DEF Linked
  <2>11. Finals(n + 1)' = {session.current}
    BY <2>5 DEF Finals
  <2>12. Finals(n)' = Finals(n)
    BY <2>7
  <2> HIDE DEF summary
  <2>13. \A i \in 1..checkpoint'.session.completed : Linked(i)'
    BY <2>2, <2>3, <2>8
  <2> QED
    BY <2>2, <2>3, <2>10, <2>11, <2>12, <2>13 DEF Chained, Starts
<1>12. CASE SaveIteration
  <2>1. /\ pc = "save_iteration" /\ pc' = "stop" /\ UNCHANGED <<session, summaries>>
        /\ checkpoint' = [boundary |-> "iteration_complete", session |-> session]
        /\ session.completed = checkpoint.session.completed + 1
    BY <1>12 DEF SaveIteration, Save, Agreement
  <2>2. \A i \in 1..session.completed : Linked(i)
    BY <1>a, <2>1 DEF Chained
  <2> QED
    BY <2>1, <2>2 DEF Chained, Linked, Starts, Finals
<1>13. CASE Continue
  <2>1. ~resume_current_iteration' /\ pc' = "start_iteration"
    BY <1>13, <1>a DEF Continue, Agreement, resume_current_iteration, iteration, TypeOK
  <2>2. /\ UNCHANGED <<session, summaries, checkpoint>>
        /\ checkpoint = [boundary |-> "iteration_complete", session |-> session]
    BY <1>13 DEF Continue, Agreement
  <2> QED
    BY <2>1, <2>2 DEF Chained, Linked, Starts, Finals
<1>14. CASE finalize_run
  BY <1>14 DEF finalize_run, Chained, Linked, Starts, Finals
<1>15. CASE Close \/ Kill \/ \E status \in Aborts : Abort(status)
  <2>1. pc' = "down" /\ UNCHANGED <<checkpoint, summaries>>
    BY <1>15, LeavingStep DEF Kill, Abort, Close
  <2> QED
    BY <2>1 DEF Chained, Linked, Starts, Finals
<1>16. CASE resume
  <2>1. /\ pc' = "initialize" /\ UNCHANGED <<checkpoint, summaries>>
        /\ session'.completed = checkpoint.session.completed
        /\ session'.current = checkpoint.session.current
    BY <1>16, ResumeStep
  <2>2. checkpoint.boundary \in SafeBoundaries
    BY <1>16 DEF resume, Resumable
  <2>3. CASE checkpoint.boundary \in WindowBoundaries
    <3>1. session' = checkpoint.session /\ resume_current_iteration'
      BY <1>16, <2>3, ResumeStep
    <3> QED
      BY <2>1, <2>3, <3>1 DEF Chained, Linked, Starts, Finals
  <2>4. CASE checkpoint.boundary \notin WindowBoundaries
    <3>1. ~resume_current_iteration'
      BY <1>16, <2>4, ResumeStep DEF resume_current_iteration
    <3> QED
      BY <2>1, <2>2, <2>4, <3>1 DEF Chained, Linked, Starts, Finals, SafeBoundaries
  <2> QED
    BY <2>3, <2>4
<1>17. CASE UNCHANGED vars
  BY <1>17 DEF vars, Chained, Linked, Starts, Finals, resume_current_iteration, iteration
<1> QED
  BY <1>1, <1>2, <1>3, <1>4, <1>5, <1>6, <1>7, <1>8, <1>9, <1>10, <1>11, <1>12, <1>13,
     <1>14, <1>15, <1>16, <1>17
     DEF Next, Workflow, SelectDeferred, SelectFull, SelectNothing

LEMMA RecordsInit == Init => Journals /\ Chained
<1> SUFFICES ASSUME Init PROVE Journals /\ Chained
  OBVIOUS
<1>1. /\ pc = "initialize" /\ resumed = Fresh /\ checkpoint.boundary = "none"
      /\ session = NewSession(Violations, 0, 0)
      /\ checkpoint.session = NewSession({}, 0, 0)
      /\ summaries = [i \in Iterations |-> {}]
  BY DEF Init
<1>2. /\ session.completed = 0 /\ session.current = Violations
      /\ checkpoint.session.completed = 0
  BY <1>1 DEF NewSession
<1>3. ~resume_current_iteration
  BY <1>1 DEF resume_current_iteration, Fresh, WindowBoundaries
<1>4. Journals
  BY <1>1, <1>3 DEF Journals, Opening, InWindows, AfterStep, WindowBoundaries
<1>5. Chained
  BY <1>1, <1>2, <1>3 DEF Chained, Opening, InWindows, AfterStep, WindowBoundaries, Finals
<1> QED
  BY <1>4, <1>5

(* Whatever is killed or resumed, every window that the latest checkpoint *)
(* counts has its experience in the journal, and the iteration summaries  *)
(* lead from the baseline to the snapshot of the checkpoint.              *)
THEOREM RecordsAreComplete == Spec => []RecordsComplete
<1>1. (Agreed /\ Journals /\ Chained) /\ [Next]_vars => (Journals /\ Chained)'
  BY JournalsStep, ChainedStep
<1>2. Agreed /\ Journals /\ Chained => RecordsComplete
  <2> SUFFICES ASSUME Agreed, Journals, Chained PROVE RecordsComplete
    OBVIOUS
  <2>1. ExperienceDurable
    <3> SUFFICES ASSUME NEW w \in Windows, Counted(w) PROVE w \in journal
      BY DEF ExperienceDurable
    <3>1. w[1] \in Iterations
      BY DEF Windows
    <3> QED
      BY <3>1 DEF Counted, Journals, Journaled
  <2>2. checkpoint.session.completed \in Nat /\ checkpoint.boundary \in SafeBoundaries \cup {"none"}
    BY DEF Agreed, TypeOK, Sessions
  <2>3. \A i \in 1..checkpoint.session.completed :
          Finals(i) # {} /\ {s.start : s \in summaries[i]} = Finals(i - 1)
    <3> SUFFICES ASSUME NEW i \in 1..checkpoint.session.completed
                 PROVE  Finals(i) # {} /\ {s.start : s \in summaries[i]} = Finals(i - 1)
      OBVIOUS
    <3>1. Linked(i) /\ i # 0
      BY <2>2 DEF Chained
    <3> QED
      BY <3>1 DEF Linked, Finals
  <2>4. checkpoint.boundary # "none" =>
          \A s \in Finals(checkpoint.session.completed) : checkpoint.session.current \subseteq s
    BY <2>2 DEF Chained, Starts, SafeBoundaries, WindowBoundaries
  <2> QED
    BY <2>1, <2>3, <2>4 DEF RecordsComplete, SummariesChain
<1> QED
  BY <1>1, <1>2, MemoryAgrees, RecordsInit, PTL DEF Spec

-----------------------------------------------------------------------------
(* A completed run stopped for the reason it gives. *)

(* c iterations up to the n-th counted without progress. *)
Tallied(n, c) ==
  \E k \in 0..n :
    /\ Cardinality(CountedAfter(k, n)) >= c
    /\ \A i \in CountedAfter(k, n) : \A s \in summaries[i] : s.start = s.final

(* The session's statuses are those of the window results of iteration i. *)
Reported(i, s) ==
  /\ \A k \in 0..(MaxWindows - 1) : k < s.window_index => results[<<i, k>>] \in s.statuses
  /\ s.statuses # {} => s.window_index > 0

(* The counters that stop a run are those of the records on disk. *)
Tallies ==
  /\ Tallied(checkpoint.session.completed, checkpoint.session.no_progress)
  /\ pc # "down" => Tallied(session.completed, session.no_progress)
  /\ checkpoint.boundary \in WindowBoundaries =>
       Reported(checkpoint.session.completed + 1, checkpoint.session)
  /\ pc \in Opening /\ resume_current_iteration => Reported(iteration, session)
  /\ pc \in InWindows => Reported(iteration, session)
  /\ pc \in {"save_iteration", "stop"} =>
       /\ session.completed > 0 /\ Reported(session.completed, session)
       /\ \A s \in summaries[session.completed] : s.windows = session.window_index

Ended == manifest.status \in Completed => pc \in {"close", "down"}

LEMMA TallyKept ==
  ASSUME NEW n \in Nat, NEW c, Tallied(n, c), \A i \in 1..n : summaries'[i] = summaries[i]
  PROVE  Tallied(n, c)'
<1>1. PICK k \in 0..n :
        /\ Cardinality(CountedAfter(k, n)) >= c
        /\ \A i \in CountedAfter(k, n) : \A s \in summaries[i] : s.start = s.final
  BY DEF Tallied
<1>2. \A i \in (k + 1)..n : summaries'[i] = summaries[i]
  OBVIOUS
<1>3. CountedAfter(k, n)' = CountedAfter(k, n)
  BY <1>2 DEF CountedAfter
<1>4. \A i \in CountedAfter(k, n)' : \A s \in summaries'[i] : s.start = s.final
  BY <1>1, <1>2, <1>3 DEF CountedAfter
<1> QED
  BY <1>1, <1>3, <1>4 DEF Tallied

LEMMA CountedFinite ==
  ASSUME NEW k \in Nat, NEW n \in Nat
  PROVE  IsFiniteSet(CountedAfter(k, n)) /\ Cardinality(CountedAfter(k, n)) \in Nat
<1>1. IsFiniteSet((k + 1)..n) /\ CountedAfter(k, n) \in SUBSET ((k + 1)..n)
  BY FS_Interval DEF CountedAfter
<1>2. IsFiniteSet(CountedAfter(k, n))
  BY <1>1, FS_Subset
<1> QED
  BY <1>2, FS_CardinalityType

(* finish_iteration adds the summary that no_progress is computed from. *)
LEMMA TallyNext ==
  ASSUME NEW n \in Nat, NEW c \in Nat, NEW d, NEW summary, Tallied(n, c),
         summaries'[n + 1] = {summary}, \A i \in 1..n : summaries'[i] = summaries[i],
         summary.deferred \in BOOLEAN,
         \/ d = 0
         \/ summary.deferred /\ d = c
         \/ ~summary.deferred /\ d = c + 1 /\ summary.start = summary.final
  PROVE  Tallied(n + 1, d)'
<1>1. CASE d = 0
  <2>1. CountedAfter(n + 1, n + 1)' = {} /\ n + 1 \in 0..(n + 1)
    BY DEF CountedAfter
  <2>2. Cardinality(CountedAfter(n + 1, n + 1)') = 0
    BY <2>1, FS_EmptySet
  <2> QED
    BY <1>1, <2>1, <2>2 DEF Tallied
<1>2. CASE d # 0
  <2>1. PICK k \in 0..n :
          /\ Cardinality(CountedAfter(k, n)) >= c
          /\ \A i \in CountedAfter(k, n) : \A s \in summaries[i] : s.start = s.final
    BY DEF Tallied
  <2>2. (\A i \in (k + 1)..n : summaries'[i] = summaries[i]) /\ k \in 0..(n + 1)
    OBVIOUS
  <2>3. (k + 1)..(n + 1) = ((k + 1)..n) \cup {n + 1} /\ n + 1 \notin (k + 1)..n
    OBVIOUS
  <2>4. CASE summary.deferred /\ d = c
    <3>1. CountedAfter(k, n + 1)' = CountedAfter(k, n)
      BY <2>2, <2>3, <2>4 DEF CountedAfter
    <3>2. \A i \in CountedAfter(k, n + 1)' : \A s \in summaries'[i] : s.start = s.final
      BY <2>1, <2>2, <3>1 DEF CountedAfter
    <3> QED
      BY <2>1, <2>2, <2>4, <3>1, <3>2 DEF Tallied
  <2>5. CASE ~summary.deferred /\ d = c + 1 /\ summary.start = summary.final
    <3>1. CountedAfter(k, n + 1)' = CountedAfter(k, n) \cup {n + 1}
      BY <2>2, <2>3, <2>5 DEF CountedAfter
    <3>2. \A i \in CountedAfter(k, n + 1)' : \A s \in summaries'[i] : s.start = s.final
      BY <2>1, <2>2, <2>5, <3>1 DEF CountedAfter
    <3>3. IsFiniteSet(CountedAfter(k, n)) /\ Cardinality(CountedAfter(k, n)) \in Nat
      BY CountedFinite
    <3>4. n + 1 \notin CountedAfter(k, n)
      BY <2>3 DEF CountedAfter
    <3>5. Cardinality(CountedAfter(k, n + 1)') = Cardinality(CountedAfter(k, n)) + 1
      BY <3>1, <3>3, <3>4, FS_AddElement
    <3>6. Cardinality(CountedAfter(k, n + 1)') >= d
      BY <2>1, <2>5, <3>3, <3>5
    <3> QED
      BY <2>2, <3>2, <3>6 DEF Tallied
  <2> QED
    BY <1>2, <2>4, <2>5
<1> QED
  BY <1>1, <1>2

LEMMA NotBetter ==
  ASSUME TypeOK, session.current \subseteq session.start, ~made_progress
  PROVE  session.start = session.current
<1>1. session.start \subseteq Violations /\ IsFiniteSet(Violations)
  BY LifecycleAssumption DEF TypeOK, Sessions, Snapshots
<1>2. IsFiniteSet(session.start)
  BY <1>1, FS_Subset
<1>3. IsFiniteSet(session.current)
  BY <1>2, FS_Subset
<1>4. Cardinality(session.start) \in Nat /\ Cardinality(session.current) \in Nat
  BY <1>2, <1>3, FS_CardinalityType
<1>5. Cardinality(session.current) <= Cardinality(session.start)
  BY <1>2, FS_Subset
<1>6. Cardinality(session.current) = Cardinality(session.start)
  BY <1>4, <1>5 DEF made_progress
<1> QED
  BY <1>2, <1>6, FS_Subset

LEMMA FinishTally ==
  ASSUME Agreed, Chained, Tallies, finish_iteration
  PROVE  /\ \A n, d : n = session'.completed /\ d = session'.no_progress => Tallied(n, d)'
         /\ \A n, d : /\ n = checkpoint'.session.completed
                     /\ d = checkpoint'.session.no_progress => Tallied(n, d)'
<1> DEFINE summary == [start |-> session.start, final |-> session.current,
                       deferred |-> Deferred, windows |-> session.window_index]
<1>0. TypeOK /\ Bounds /\ Agreement
  BY DEF Agreed
<1>1. PICK n \in Nat : n = session.completed
  BY <1>0 DEF TypeOK, Sessions
<1>2. /\ pc = "finish" /\ summaries' = [summaries EXCEPT ![n + 1] = {summary}]
      /\ checkpoint' = checkpoint /\ session'.completed = n + 1
      /\ session'.no_progress = no_progress
  BY <1>0, <1>1 DEF finish_iteration, iteration, TypeOK, Sessions
<1>3. /\ n = checkpoint.session.completed /\ n < MaxIterations + stops /\ stops \in 0..MaxStops
      /\ MaxIterations \in Nat /\ MaxStops \in Nat
  BY <1>0, <1>1, <1>2, LifecycleAssumption
     DEF Agreement, Bounds, TypeOK, Working, InWindows
<1>4. n + 1 \in Iterations /\ \A i \in 1..n : i \in Iterations /\ i # n + 1
  BY <1>3 DEF Iterations
<1>5. summaries'[n + 1] = {summary} /\ \A i \in 1..n : summaries'[i] = summaries[i]
  BY <1>0, <1>2, <1>4 DEF TypeOK
<1>6. PICK c \in Nat : c = session.no_progress
  BY <1>0 DEF TypeOK, Sessions
<1>7. Tallied(n, c)
  BY <1>1, <1>2, <1>6 DEF Tallies
<1>8. session.current \subseteq session.start
  BY <1>2 DEF Chained, Starts, InWindows
<1>9. \/ no_progress = 0
      \/ summary.deferred /\ no_progress = c
      \/ ~summary.deferred /\ no_progress = c + 1 /\ summary.start = summary.final
  BY <1>0, <1>6, <1>8, NotBetter DEF no_progress
<1>10. summary.deferred \in BOOLEAN
  BY DEF Deferred
<1> HIDE DEF summary
<1>11. PICK d : d = no_progress
  OBVIOUS
<1>12. Tallied(n + 1, d)'
  BY <1>5, <1>7, <1>9, <1>10, <1>11, TallyNext
<1>13. PICK e : e = checkpoint.session.no_progress
  OBVIOUS
<1>14. Tallied(n, e)
  BY <1>3, <1>13 DEF Tallies
<1>15. Tallied(n, e)'
  BY <1>5, <1>14, TallyKept
<1> QED
  BY <1>2, <1>3, <1>11, <1>12, <1>13, <1>15

LEMMA TalliesStep == Agreed /\ Chained /\ Tallies /\ [Next]_vars => Tallies'
<1> SUFFICES ASSUME Agreed, Chained, Tallies, [Next]_vars PROVE Tallies'
  OBVIOUS
<1>0. TypeOK /\ Bounds /\ Agreement
  BY DEF Agreed
<1> USE <1>0
<1> USE DEF memory, disk, Working, Opening, InWindows, AfterStep, WindowBoundaries
<1>a. /\ session.completed \in Nat /\ iteration = session.completed + 1
      /\ session.window_index \in Nat /\ checkpoint.session.window_index \in Nat
      /\ checkpoint.session.completed \in Nat
  BY DEF TypeOK, Sessions, iteration
<1>1. CASE initialize_case
  BY <1>1 DEF initialize_case, Tallies, Tallied, CountedAfter, Reported,
              resume_current_iteration, iteration
<1>2. CASE FirstCheckpoint
  BY <1>2 DEF FirstCheckpoint, Save, Tallies, Tallied, CountedAfter, Reported,
              resume_current_iteration, iteration
<1>3. CASE ParseDesignState
  BY <1>3 DEF ParseDesignState, Tallies, Tallied, CountedAfter, Reported,
              resume_current_iteration, iteration
<1>4. CASE start_iteration
  <2>1. /\ pc = "start_iteration" /\ pc' = "select"
        /\ UNCHANGED <<resumed, checkpoint, summaries, results>>
    BY <1>4 DEF start_iteration
  <2>2. /\ session'.completed = session.completed
        /\ session'.no_progress = session.no_progress
    BY <1>4 DEF start_iteration, NewSession, TypeOK, Sessions
  <2>3. CASE resume_current_iteration
    BY <1>4, <2>1, <2>2, <2>3, SessionSteps
       DEF Tallies, Tallied, CountedAfter, Reported, iteration
  <2>4. CASE ~resume_current_iteration
    <3>1. session'.window_index = 0 /\ session'.statuses = {}
      BY <1>4, <2>4 DEF start_iteration, NewSession
    <3>2. Reported(iteration, session)'
      BY <3>1 DEF Reported
    <3> QED
      BY <2>1, <2>2, <3>2 DEF Tallies, Tallied, CountedAfter, Reported
  <2> QED
    BY <2>3, <2>4
<1>5. ASSUME NEW reason, EndIteration(reason) PROVE Tallies'
  BY <1>5 DEF EndIteration, Tallies, Tallied, CountedAfter, Reported, iteration
<1>6. CASE select_active_window
  BY <1>6 DEF select_active_window, Tallies, Tallied, CountedAfter, Reported, iteration
<1>7. ASSUME NEW status \in WindowStatuses, PlanAndExecute(status) PROVE Tallies'
  <2>1. PICK cost \in Costs : session' = [session EXCEPT !.spent = @ + cost]
    BY <1>7 DEF PlanAndExecute
  <2>2. /\ session'.completed = session.completed /\ session'.no_progress = session.no_progress
        /\ session'.window_index = session.window_index /\ session'.statuses = session.statuses
    BY <2>1 DEF TypeOK, Sessions
  <2>3. pc = "plan" /\ pc' = "commit" /\ UNCHANGED <<resumed, checkpoint, summaries, results>>
    BY <1>7 DEF PlanAndExecute
  <2> QED
    BY <2>2, <2>3 DEF Tallies, Tallied, CountedAfter, Reported, iteration
<1>8. CASE commit_or_rollback
  <2>1. /\ session'.completed = session.completed /\ session'.no_progress = session.no_progress
        /\ session'.window_index = session.window_index + 1
        /\ session'.statuses = session.statuses \cup {window.status}
    BY <1>8 DEF commit_or_rollback, next_window_index, TypeOK, Sessions
  <2>2. /\ pc = "commit" /\ pc' \in {"stage", "publish"}
        /\ UNCHANGED <<resumed, checkpoint, summaries>>
        /\ results' = [results EXCEPT ![Active] = window.status]
    BY <1>8, SessionSteps DEF commit_or_rollback
  <2>3. Active = <<iteration, session.window_index>>
        /\ session.completed = checkpoint.session.completed
    BY <2>2 DEF Active, Agreement
  <2>4. Active \in Windows
    <3>1. iteration \in 1..(MaxIterations + MaxStops)
      BY <2>2, <1>a, LifecycleAssumption DEF Bounds, TypeOK
    <3>2. session.window_index \in 0..(MaxWindows - 1)
      BY <2>2, <1>a, LifecycleAssumption DEF Bounds
    <3> QED
      BY <2>3, <3>1, <3>2 DEF Windows, Iterations
  <2>5. results'[Active] = window.status
        /\ \A w \in Windows \ {Active} : results'[w] = results[w]
    BY <2>2, <2>4 DEF TypeOK
  <2>6. \A k \in 0..(MaxWindows - 1) : <<iteration, k>> \in Windows
    BY <2>3, <2>4 DEF Windows
  <2>7. Reported(iteration, session)'
    <3>1. ASSUME NEW k \in 0..(MaxWindows - 1), k < session.window_index + 1
          PROVE  results'[<<iteration, k>>] \in session'.statuses
      <4>1. CASE k = session.window_index
        BY <2>1, <2>3, <2>5, <4>1
      <4>2. CASE k < session.window_index
        <5>1. <<iteration, k>> \in Windows \ {Active}
          BY <1>a, <2>3, <2>6, <4>2
        <5> QED
          BY <2>1, <2>2, <2>5, <4>2, <5>1 DEF Tallies, Reported
      <4> QED
        BY <1>a, <3>1, <4>1, <4>2
    <3> QED
      BY <1>a, <2>1, <3>1 DEF Reported, iteration
  <2>8. ASSUME checkpoint.boundary \in WindowBoundaries
        PROVE  Reported(checkpoint.session.completed + 1, checkpoint.session)'
    <3>1. session.window_index >= checkpoint.session.window_index
      BY <2>2, <2>8 DEF Agreement
    <3>2. ASSUME NEW k \in 0..(MaxWindows - 1), k < checkpoint.session.window_index
          PROVE  results'[<<iteration, k>>] = results[<<iteration, k>>]
      BY <1>a, <2>3, <2>5, <2>6, <3>1, <3>2
    <3>3. iteration = checkpoint.session.completed + 1
      BY <1>a, <2>3
    <3>4. Reported(checkpoint.session.completed + 1, checkpoint.session)
      BY <2>8 DEF Tallies
    <3>5. \A k \in 0..(MaxWindows - 1) : k < checkpoint.session.window_index =>
            results'[<<checkpoint.session.completed + 1, k>>] \in checkpoint.session.statuses
      BY <3>2, <3>3, <3>4 DEF Reported
    <3> QED
      BY <2>2, <3>4, <3>5 DEF Reported
  <2> QED
    BY <2>1, <2>2, <2>7, <2>8 DEF Tallies, Tallied, CountedAfter
<1>9. CASE StageExperience \/ update_experience
  BY <1>9 DEF StageExperience, update_experience, Tallies, Tallied, CountedAfter, Reported,
              iteration
<1>10. CASE SaveCommit \/ refresh_after_window
  <2>1. /\ pc \in InWindows /\ pc' \in InWindows /\ checkpoint'.session = session
        /\ UNCHANGED <<session, resumed, summaries, results>>
    BY <1>10 DEF SaveCommit, refresh_after_window, Save
  <2> QED
    BY <2>1 DEF Tallies, Tallied, CountedAfter, Reported, iteration
<1>11. CASE finish_iteration
  <2>1. /\ pc = "finish" /\ pc' = "save_iteration" /\ UNCHANGED <<checkpoint, results>>
        /\ session'.completed = iteration /\ session'.window_index = session.window_index
        /\ session'.statuses = session.statuses
    BY <1>11 DEF finish_iteration, TypeOK, Sessions
  <2>2. Reported(session.completed, session)'
    BY <2>1 DEF Tallies, Reported
  <2>3. \A s \in summaries'[iteration] : s.windows = session.window_index
    <3>1. iteration \in Iterations
      BY <1>a, <2>1, LifecycleAssumption DEF Bounds, Iterations, TypeOK
    <3>2. summaries'[iteration] =
            {[start |-> session.start, final |-> session.current, deferred |-> Deferred,
              windows |-> session.window_index]}
      BY <1>11, <3>1 DEF finish_iteration, TypeOK
    <3> QED
      BY <3>2
  <2>4. Tallied(session.completed, session.no_progress)'
    BY <1>11, FinishTally
  <2>5. Tallied(checkpoint.session.completed, checkpoint.session.no_progress)'
    BY <1>11, FinishTally
  <2> QED
    BY <1>a, <2>1, <2>2, <2>3, <2>4, <2>5 DEF Tallies, Reported
<1>12. CASE SaveIteration
  BY <1>12 DEF SaveIteration, Save, Tallies, Tallied, CountedAfter, Reported
<1>13. CASE Continue
  <2>1. ~resume_current_iteration' /\ pc' = "start_iteration"
    BY <1>13, <1>a DEF Continue, Agreement, resume_current_iteration, iteration, TypeOK
  <2> QED
    BY <1>13, <2>1 DEF Continue, Tallies, Tallied, CountedAfter, Reported
<1>14. CASE finalize_run
  BY <1>14 DEF finalize_run, Tallies, Tallied, CountedAfter, Reported
<1>15. CASE Close \/ Kill \/ \E status \in Aborts : Abort(status)
  <2>1. pc' = "down" /\ UNCHANGED <<checkpoint, summaries, results>>
    BY <1>15, LeavingStep DEF Kill, Abort, Close
  <2> QED
    BY <2>1 DEF Tallies, Tallied, CountedAfter, Reported
<1>16. CASE resume
  <2>1. session'.no_progress = checkpoint.session.no_progress
    BY <1>16 DEF resume, Enter, resume_session, AtBoundary, NewSession
  <2>2. ASSUME resume_current_iteration'
        PROVE  checkpoint.boundary \in WindowBoundaries /\ session' = checkpoint.session
    BY <1>16, <2>2, ResumeStep DEF resume_current_iteration
  <2>3. /\ pc = "down" /\ pc' = "initialize" /\ checkpoint' = checkpoint
        /\ UNCHANGED <<summaries, results>> /\ session'.completed = checkpoint.session.completed
    BY <1>16, ResumeStep
  <2>4. \A n, c : Tallied(n, c)' = Tallied(n, c)
    BY <2>3 DEF Tallied, CountedAfter
  <2>5. \A i, s : Reported(i, s)' = Reported(i, s)
    BY <2>3 DEF Reported
  <2>6. Tallied(checkpoint.session.completed, checkpoint.session.no_progress)
    BY DEF Tallies
  <2>7. resume_current_iteration' => Reported(iteration, session)'
    BY <2>2, <2>3, <2>5 DEF Tallies, iteration
  <2>8. (checkpoint.boundary \in WindowBoundaries =>
           Reported(checkpoint.session.completed + 1, checkpoint.session))'
    BY <2>3, <2>5 DEF Tallies
  <2> QED
    BY <2>1, <2>3, <2>4, <2>6, <2>7, <2>8 DEF Tallies
<1>17. CASE UNCHANGED vars
  BY <1>17 DEF vars, Tallies, Tallied, CountedAfter, Reported, resume_current_iteration,
               iteration
<1> QED
  BY <1>1, <1>2, <1>3, <1>4, <1>5, <1>6, <1>7, <1>8, <1>9, <1>10, <1>11, <1>12, <1>13,
     <1>14, <1>15, <1>16, <1>17
     DEF Next, Workflow, SelectDeferred, SelectFull, SelectNothing

LEMMA EndedStep == TypeOK /\ Ended /\ [Next]_vars => Ended'
<1> SUFFICES ASSUME TypeOK, Ended, [Next]_vars PROVE Ended'
  OBVIOUS
<1> USE DEF memory, disk
<1>1. CASE initialize_case
  <2>1. manifest'.status = "RUNNING"
    <3>1. CASE manifest' = [status |-> "RUNNING", completed |-> {}, current |-> {}]
      BY <3>1
    <3>2. CASE manifest' = [manifest EXCEPT !.status = "RUNNING", !.current = {session.current}]
      BY <3>2 DEF TypeOK
    <3> QED
      BY <1>1, <3>1, <3>2 DEF initialize_case
  <2> QED
    BY <2>1 DEF Ended, Completed
<1>2. ASSUME pc \notin {"close", "down"}, UNCHANGED manifest PROVE Ended'
  BY <1>2 DEF Ended
<1>3. CASE \/ FirstCheckpoint \/ ParseDesignState \/ start_iteration
           \/ SelectDeferred \/ SelectFull \/ SelectNothing \/ select_active_window
           \/ \E status \in WindowStatuses : PlanAndExecute(status)
  BY <1>2, <1>3 DEF FirstCheckpoint, ParseDesignState, start_iteration, SelectDeferred,
                    SelectFull, SelectNothing, EndIteration, select_active_window, PlanAndExecute
<1>4. CASE \/ commit_or_rollback \/ StageExperience \/ SaveCommit \/ update_experience
           \/ refresh_after_window \/ finish_iteration \/ SaveIteration \/ Continue
  BY <1>2, <1>4 DEF commit_or_rollback, StageExperience, SaveCommit, update_experience,
                    refresh_after_window, finish_iteration, SaveIteration, Continue
<1>5. CASE finalize_run
  BY <1>5 DEF finalize_run, Ended
<1>6. CASE Close \/ Kill \/ \E status \in Aborts : Abort(status)
  BY <1>6, LeavingStep DEF Close, Kill, Abort, Ended
<1>7. CASE resume
  BY <1>7 DEF resume, Resumable, Ended, Completed
<1>8. CASE UNCHANGED vars
  BY <1>8 DEF vars, Ended
<1> QED
  BY <1>1, <1>3, <1>4, <1>5, <1>6, <1>7, <1>8 DEF Next, Workflow

(* The status finalize_run writes is justified by the records on disk. *)
LEMMA FinalizedJustified ==
  ASSUME Agreed, Chained, Tallies, finalize_run
  PROVE  StopJustified'
<1>0. TypeOK /\ Bounds /\ Agreement
  BY DEF Agreed
<1> USE <1>0
<1>1. PICK budget_exhausted \in BOOLEAN :
        /\ pc = "stop"
        /\ manifest' = ManifestOf(stopping_condition(budget_exhausted))
        /\ stopping_condition(budget_exhausted) # "CONTINUE"
  BY DEF finalize_run
<1> DEFINE status == stopping_condition(budget_exhausted)
<1>2. PICK n \in Nat : n = session.completed
  BY DEF TypeOK, Sessions
<1>3. /\ manifest'.status = status /\ manifest'.completed = {n}
      /\ manifest'.current = {session.current}
      /\ UNCHANGED <<summaries, results, session>>
  BY <1>1, <1>2 DEF finalize_run, ManifestOf, memory
<1>4. checkpoint = [boundary |-> "iteration_complete", session |-> session]
  BY <1>1 DEF Agreement
<1>5. Finals(n) = {session.current} /\ Finals(n)' = Finals(n)
  BY <1>2, <1>3, <1>4 DEF Chained, Finals
<1>6. ASSUME status = "COMPLETED_DRC_CLEAN"
      PROVE  manifest'.current = {{}} /\ Finals(n)' = {{}}
  BY <1>3, <1>5, <1>6 DEF stopping_condition
<1>7. ASSUME status = "COMPLETED_ALL_NOOP"
      PROVE  WindowsOf(n)' # {} /\ \A w \in WindowsOf(n)' : results'[w] = "NO_OP"
  <2>1. session.statuses = {"NO_OP"}
    BY <1>7 DEF stopping_condition, all_noop
  <2>2. Reported(n, session) /\ \A s \in summaries[n] : s.windows = session.window_index
    BY <1>1, <1>2 DEF Tallies
  <2>3. session.window_index > 0
    BY <2>1, <2>2 DEF Reported
  <2>4. n # 0
    BY <2>1, <2>3, <1>1, <1>2 DEF Tallies
  <2>5. n \in Iterations /\ <<n, 0>> \in Windows
    <3> HIDE <1>0
    <3>1. session.completed \in 0..(MaxIterations + MaxStops)
      BY <1>0 DEF TypeOK, Sessions
    <3>2. n \in Iterations
      BY <1>2, <2>4, <3>1, LifecycleAssumption DEF Iterations
    <3>3. 0 \in 0..(MaxWindows - 1)
      BY LifecycleAssumption
    <3> QED
      BY <3>2, <3>3 DEF Windows
  <2>6. PICK s : summaries[n] = {s}
    <3>1. n \in 1..checkpoint.session.completed
      BY <1>2, <1>4, <2>4
    <3> QED
      BY <3>1 DEF Chained, Linked
  <2>7. <<n, 0>> \in WindowsOf(n)
    BY <2>2, <2>3, <2>5, <2>6 DEF WindowsOf
  <2>8. \A w \in WindowsOf(n) : results[w] = "NO_OP"
    <3> SUFFICES ASSUME NEW w \in WindowsOf(n) PROVE results[w] = "NO_OP"
      OBVIOUS
    <3>1. w = <<n, w[2]>> /\ w[2] \in 0..(MaxWindows - 1) /\ w[2] < session.window_index
      BY <2>2, <2>6 DEF WindowsOf, Windows
    <3>2. results[<<n, w[2]>>] \in session.statuses
      BY <2>2, <3>1 DEF Reported
    <3> QED
      BY <2>1, <3>1, <3>2
  <2>9. WindowsOf(n)' = WindowsOf(n)
    BY <1>3 DEF WindowsOf
  <2> QED
    BY <1>3, <2>7, <2>8, <2>9
<1>8. ASSUME status = "COMPLETED_NO_PROGRESS"
      PROVE  (\E k \in 0..n :
                /\ Cardinality(CountedAfter(k, n)) >= MaxNoProgress
                /\ \A i \in CountedAfter(k, n) : \A s \in summaries[i] : s.start = s.final)'
  <2>1. session.no_progress >= MaxNoProgress /\ session.no_progress \in Nat
    BY <1>8 DEF stopping_condition, TypeOK, Sessions
  <2>2. Tallied(n, session.no_progress)
    BY <1>1, <1>2 DEF Tallies
  <2>3. PICK k \in 0..n :
          /\ Cardinality(CountedAfter(k, n)) >= session.no_progress
          /\ \A i \in CountedAfter(k, n) : \A s \in summaries[i] : s.start = s.final
    BY <2>2 DEF Tallied
  <2>4. Cardinality(CountedAfter(k, n)) \in Nat /\ MaxNoProgress \in Nat
    <3>1. k \in Nat
      OBVIOUS
    <3> QED
      BY <3>1, CountedFinite, LifecycleAssumption
  <2>5. Cardinality(CountedAfter(k, n)) >= MaxNoProgress
    BY <2>1, <2>3, <2>4
  <2>6. CountedAfter(k, n)' = CountedAfter(k, n)
    BY <1>3 DEF CountedAfter
  <2> QED
    BY <1>3, <2>3, <2>5, <2>6
<1>9. ASSUME status = "COMPLETED_MAX_ITERATIONS" PROVE n >= MaxIterations
  BY <1>2, <1>9 DEF stopping_condition
<1> HIDE DEF status
<1> QED
  BY <1>3, <1>6, <1>7, <1>8, <1>9 DEF StopJustified

StopInv == Chained /\ Tallies /\ Ended /\ StopJustified

LEMMA StopInit == Init => StopInv
<1> SUFFICES ASSUME Init PROVE Tallies /\ Ended /\ StopJustified
  BY RecordsInit DEF StopInv
<1>1. /\ pc = "initialize" /\ resumed = Fresh /\ checkpoint.boundary = "none"
      /\ session = NewSession(Violations, 0, 0)
      /\ checkpoint.session = NewSession({}, 0, 0)
      /\ manifest.status = "NONE" /\ manifest.completed = {}
  BY DEF Init
<1>2. /\ session.completed = 0 /\ session.no_progress = 0
      /\ checkpoint.session.completed = 0 /\ checkpoint.session.no_progress = 0
  BY <1>1 DEF NewSession
<1>3. ~resume_current_iteration
  BY <1>1 DEF resume_current_iteration, Fresh, WindowBoundaries
<1>4. Tallied(0, 0)
  <2>1. CountedAfter(0, 0) = {}
    BY DEF CountedAfter
  <2> QED
    BY <2>1, FS_EmptySet DEF Tallied
<1>5. Tallies
  BY <1>1, <1>2, <1>3, <1>4 DEF Tallies, Opening, InWindows, AfterStep, WindowBoundaries
<1> QED
  BY <1>1, <1>5 DEF Ended, StopJustified, Completed

LEMMA StopStep == Agreed /\ StopInv /\ [Next]_vars => StopInv'
<1> SUFFICES ASSUME Agreed, StopInv, [Next]_vars PROVE StopInv'
  OBVIOUS
<1>0. TypeOK /\ Chained /\ Tallies /\ Ended /\ StopJustified
  BY DEF Agreed, StopInv
<1>1. Chained' /\ Tallies' /\ Ended'
  BY <1>0, ChainedStep, TalliesStep, EndedStep
<1>2. CASE finalize_run
  BY <1>0, <1>1, <1>2, FinalizedJustified DEF StopInv
<1>3. ASSUME manifest'.status \notin Completed PROVE StopJustified'
  BY <1>3 DEF StopJustified, Completed
<1>4. ASSUME UNCHANGED <<manifest, results, summaries>> PROVE StopJustified'
  BY <1>0, <1>4 DEF StopJustified, Finals, WindowsOf, CountedAfter
<1>5. ASSUME pc \notin {"close", "down"}, UNCHANGED manifest PROVE StopJustified'
  BY <1>0, <1>3, <1>5 DEF Ended
<1>6. CASE initialize_case
  <2>1. manifest'.status = "RUNNING"
    <3>1. CASE manifest' = [status |-> "RUNNING", completed |-> {}, current |-> {}]
      BY <3>1
    <3>2. CASE manifest' = [manifest EXCEPT !.status = "RUNNING", !.current = {session.current}]
      BY <1>0, <3>2 DEF TypeOK
    <3> QED
      BY <1>6, <3>1, <3>2 DEF initialize_case
  <2> QED
    BY <1>1, <1>3, <2>1 DEF Completed, StopInv
<1>7. CASE \/ FirstCheckpoint \/ ParseDesignState \/ start_iteration
           \/ SelectDeferred \/ SelectFull \/ SelectNothing \/ select_active_window
           \/ \E status \in WindowStatuses : PlanAndExecute(status)
  BY <1>1, <1>5, <1>7 DEF FirstCheckpoint, ParseDesignState, start_iteration, SelectDeferred,
     SelectFull, SelectNothing, EndIteration, select_active_window, PlanAndExecute, StopInv, disk
<1>8. CASE \/ commit_or_rollback \/ StageExperience \/ SaveCommit \/ update_experience
           \/ refresh_after_window \/ finish_iteration \/ SaveIteration \/ Continue
  BY <1>1, <1>5, <1>8 DEF commit_or_rollback, StageExperience, SaveCommit, update_experience,
     refresh_after_window, finish_iteration, SaveIteration, Continue, StopInv, disk
<1>9. CASE Close \/ Kill \/ resume
  BY <1>1, <1>4, <1>9 DEF Close, Kill, resume, StopInv, disk
<1>10. ASSUME NEW status \in Aborts, Abort(status) PROVE StopJustified'
  BY <1>3, <1>10 DEF Abort, ManifestOf, Aborts, Completed
<1>11. CASE UNCHANGED vars
  BY <1>1, <1>4, <1>11 DEF vars, StopInv, disk
<1> QED
  BY <1>1, <1>2, <1>6, <1>7, <1>8, <1>9, <1>10, <1>11 DEF Next, Workflow, StopInv

(* A run that says it is complete stopped for the reason it gives: clean, *)
(* nothing but NO_OP windows, max_no_progress_iterations counted since    *)
(* the last progress, or max_iterations.                                  *)
THEOREM StopsAreJustified == Spec => []StopJustified
<1>1. StopInv => StopJustified
  BY DEF StopInv
<1> QED
  BY <1>1, StopInit, StopStep, MemoryAgrees, PTL DEF Spec
===============================================================================
