------------------------- MODULE WindowCoordination -------------------------
(* coordinate_active_window (workflow/active_window.py): rounds of solving for
   a bundle of the window's candidates and exact verification of it, with
   snapshot-local no-goods and a falling cap on the bundle's cardinality. The
   verified bundle goes through the scheduler of Batching.

   The solver is external: it returns any bundle within the cap that no no-good
   equals, and the same bundle when it is asked again for the same graph. The
   sandbox is external: its evidence may be clean, dirty, without complete
   physical truth, of another identity, or an exception. *)
EXTENDS Batching
CONSTANTS
  Candidates,
  MaxBundle,              \* candidate_evidence.joint_sandbox_max_bundle_size
  Budgets,                \* the values of [rounds, jobs] the window may be given
  Uncompilable,           \* the bundles PatchCompiler rejects
  Isolated                \* candidates with exact clean isolated evidence for this snapshot
ASSUME CoordinationAssumption ==
  /\ Candidates \subseteq DOMAIN Objects /\ 0 \notin Candidates
  /\ MaxBundle \in Nat \ {0}
  /\ Budgets \subseteq [rounds : Nat, jobs : Nat]
VARIABLES
  phase,                  \* where the round is; "idle" outside a window
  budget,                 \* [rounds |-> joint_sandbox_max_rounds, jobs |-> sandbox_jobs_remaining]
  round, selection_cap,
  bundle,                 \* the selected non-NOOP candidates
  preview,                \* what the preview of the updated graph returned, or Unknown
  no_goods,               \* graph.no_good_candidate_sets
  same_cardinality_retried,
  jobs,                   \* sandbox jobs used
  evidence,               \* [status, of]: the outcome and the candidates it is about
  sandboxed,              \* sandbox calls of each bundle
  outcome                 \* status of the WindowCoordination
coordinationVars == <<phase, budget, round, selection_cap, bundle, preview, no_goods,
                      same_cardinality_retried, jobs, evidence, sandboxed, outcome>>
Unknown == {0}            \* not a bundle: candidates are positive
NoEvidence == [status |-> "none", of |-> {}]

CoordinationInit ==
  /\ phase = "solve" /\ budget \in Budgets /\ round = 0
  /\ selection_cap = Min({MaxActions, MaxBundle})
  /\ bundle = {} /\ preview = Unknown /\ no_goods = {} /\ same_cardinality_retried = {}
  /\ jobs = 0 /\ evidence = NoEvidence
  /\ sandboxed = [b \in SUBSET Candidates |-> 0] /\ outcome = "none"
CoordinationIdle ==
  /\ phase = "idle" /\ budget = [rounds |-> 0, jobs |-> 0] /\ round = 0 /\ selection_cap = 0
  /\ bundle = {} /\ preview = Unknown /\ no_goods = {} /\ same_cardinality_retried = {}
  /\ jobs = 0 /\ evidence = NoEvidence /\ sandboxed = <<>> /\ outcome = "none"

Return(status) == phase' = "done" /\ outcome' = status

\* GraphCoordinatorV2().solve on the graph with its no-goods.
Solutions(cap, bad) == {b \in SUBSET Candidates : Cardinality(b) <= cap /\ b \notin bad}

Solve ==
  /\ phase = "solve"
  /\ IF round = budget.rounds
     THEN /\ Return("NO_SAFE_BUNDLE")
          /\ UNCHANGED <<round, bundle, preview>>
     ELSE /\ round' = round + 1
          /\ bundle' \in IF preview # Unknown THEN {preview} ELSE Solutions(selection_cap, no_goods)
          /\ preview' = Unknown
          /\ IF bundle' = {} THEN Return("NO_OP")
             ELSE phase' = "compile" /\ UNCHANGED outcome
  /\ UNCHANGED <<budget, selection_cap, no_goods, same_cardinality_retried, jobs, evidence, sandboxed>>

\* next_cap = min(selection_cap - 1, len(selected) - 1); break below one.
backoff ==
  LET next_cap == Min({selection_cap - 1, Cardinality(bundle) - 1}) IN
  IF next_cap < 1 THEN Return("NO_SAFE_BUNDLE") /\ UNCHANGED selection_cap
  ELSE selection_cap' = next_cap /\ phase' = "solve" /\ UNCHANGED outcome

compile == bundle \notin Uncompilable
\* Slip: the caps are left to the solver, which knows cardinalities only.
within_caps_any == TRUE
within_caps == ~oversized(bundle)
Compile ==
  /\ phase = "compile"
  /\ IF ~within_caps \/ ~compile
     THEN no_goods' = no_goods \cup {bundle} /\ backoff
     ELSE phase' = "verify" /\ UNCHANGED <<no_goods, selection_cap, outcome>>
  /\ UNCHANGED <<budget, round, bundle, preview, same_cardinality_retried, jobs, evidence, sandboxed>>

\* exact_isolated_evidence_matches: a singleton may bring its own evidence.
Reuse ==
  /\ phase = "verify" /\ Cardinality(bundle) = 1 /\ bundle \subseteq Isolated
  /\ evidence' = [status |-> "clean", of |-> bundle]
  /\ phase' = "judge"
  /\ UNCHANGED <<budget, round, selection_cap, bundle, preview, no_goods,
                 same_cardinality_retried, jobs, sandboxed, outcome>>

Sandbox ==
  /\ phase = "verify" /\ ~(Cardinality(bundle) = 1 /\ bundle \subseteq Isolated)
  /\ IF jobs >= budget.jobs
     THEN Return("NO_SAFE_BUNDLE") /\ UNCHANGED <<jobs, evidence, sandboxed>>
     ELSE /\ sandboxed' = [sandboxed EXCEPT ![bundle] = @ + 1]
          /\ \/ \E status \in {"clean", "dirty", "incomplete", "foreign"} :
                  /\ evidence' = [status |-> status, of |-> IF status = "foreign" THEN {} ELSE bundle]
                  /\ jobs' = jobs + 1 /\ phase' = "judge" /\ UNCHANGED outcome
             \/ Return("INFRASTRUCTURE_FAILURE") /\ UNCHANGED <<jobs, evidence>>
             \/ Return("NO_SAFE_BUNDLE") /\ UNCHANGED <<jobs, evidence>>
  /\ UNCHANGED <<budget, round, selection_cap, bundle, preview, no_goods, same_cardinality_retried>>

\* Evidence without complete truth ends the window, a foreign identity the run;
\* clean evidence of a bundle that makes one batch is the SAFE result.
Judge ==
  /\ phase = "judge"
  /\ IF evidence.status = "incomplete" THEN Return("NO_SAFE_BUNDLE")
     ELSE IF evidence.of # bundle THEN Return("INFRASTRUCTURE_FAILURE")
     ELSE IF evidence.status = "clean" /\ schedule(<<bundle>>) = <<<<bundle>>>> THEN Return("SAFE")
     ELSE phase' = "reject" /\ UNCHANGED outcome
  /\ UNCHANGED <<budget, round, selection_cap, bundle, preview, no_goods,
                 same_cardinality_retried, jobs, evidence, sandboxed>>
\* Slip: one round is thought to be enough for the fallback.
spare_round_any(size) == /\ size > 1 /\ size \notin same_cardinality_retried
                         /\ budget.rounds - round >= 1
                         /\ jobs < budget.jobs
spare_round(size) == /\ size > 1 /\ size \notin same_cardinality_retried
                     /\ budget.rounds - round >= size
                     /\ jobs < budget.jobs
\* Slip: only bundles that one cannot back off from are remembered.
learned_single == IF Cardinality(bundle) = 1 THEN no_goods \cup {bundle} ELSE no_goods
learned == no_goods \cup {bundle}

\* The bundle becomes a no-good; a preview of the same cardinality earns one
\* more round at this cap, anything else lowers it.
Reject ==
  LET size == Cardinality(bundle) IN
  /\ phase = "reject"
  /\ no_goods' = learned
  /\ \/ /\ spare_round(size)
        /\ \E b \in Solutions(size, learned) :
             IF Cardinality(b) = size
             THEN /\ preview' = b /\ selection_cap' = size /\ phase' = "solve"
                  /\ same_cardinality_retried' = same_cardinality_retried \cup {size}
                  /\ UNCHANGED outcome
             ELSE backoff /\ UNCHANGED <<preview, same_cardinality_retried>>
     \/ ~spare_round(size) /\ backoff /\ UNCHANGED <<preview, same_cardinality_retried>>
  /\ UNCHANGED <<budget, round, bundle, jobs, evidence, sandboxed>>

CoordinationNext == Solve \/ Compile \/ Reuse \/ Sandbox \/ Judge \/ Reject
CoordinationSpec == CoordinationInit /\ [][CoordinationNext]_coordinationVars
----------------------------------------------------------------------------
(* A window that ends SAFE was verified as exactly the bundle it will commit,
   and the scheduler takes that bundle as one batch: WINDOW_MASTER_BATCH_
   CARDINALITY, the fallback for a clean bundle the scheduler would split or
   defer, never happens under the caps the solver was given. *)
SafeIsExact ==
  /\ outcome = "SAFE" => evidence = [status |-> "clean", of |-> bundle]
  /\ phase = "reject" => evidence.status = "dirty"

(* "Preserve enough of the existing cardinality backoff budget to reach a
   singleton ... it must not consume the only path to the old fallback": when
   the round budget could reach a singleton at all, every round that still has
   to lower the cap leaves enough rounds below it. *)
BackoffReachesSingleton ==
  budget.rounds >= Min({MaxActions, MaxBundle}) =>
    /\ phase = "solve" => budget.rounds - round >= selection_cap
    /\ outcome = "NO_SAFE_BUNDLE" /\ round = budget.rounds => Cardinality(bundle) = 1

(* No bundle is paid for twice: no-goods, previews, retries at the same
   cardinality and reused evidence together never send a set of candidates to
   the sandbox again, and the jobs counted are the jobs run. *)
SandboxedOnce ==
  phase # "idle" =>
    /\ \A b \in DOMAIN sandboxed : sandboxed[b] <= 1
    /\ jobs <= budget.jobs

(* The rounds of a window end with what was verified, or having tried enough. *)
CoordinationIsExact == SafeIsExact /\ BackoffReachesSingleton /\ SandboxedOnce
=============================================================================
