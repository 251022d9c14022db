-------------------------- MODULE TransactionAttempt --------------------------
(***************************************************************************)
(* TransactionExecutor.execute (backends/transaction.py): one window's     *)
(* patch is applied in a job workspace, run through the EDA tools, judged, *)
(* and published under <prefix>/attempts/<attempt_id>, while attempt_index *)
(* accounts for every physical attempt.  The module follows the execute()  *)
(* calls that one window sees: the first, and those of resumed runs.       *)
(***************************************************************************)
EXTENDS Integers, FiniteSets, Sequences

CONSTANTS
  MaxCalls,            \* bound: execute() calls on the window
  RequireConnectivity, \* AcceptanceConfig.require_connectivity
  RequireProgress,     \* AcceptanceConfig.require_drc_progress
  RejectNew,           \* AcceptanceConfig.reject_new_violations
  KeepFailed           \* BackendConfig.keep_failed_workspace

ASSUME TransactionAssumption ==
  /\ MaxCalls \in Nat \ {0}
  /\ {RequireConnectivity, RequireProgress, RejectNew, KeepFailed} \subseteq BOOLEAN

VARIABLES
  stage,     \* where the running call is; "idle" between calls
  calls,     \* calls started
  result,    \* how the last call ended
  attempt,   \* the attempt of the active ledger, 0 if there is none
  retryOf,   \* request.retry_of_attempt_id
  written,   \* ledger.terminal_written
  index,     \* attempt_index.jsonl, per attempt
  lost,      \* history: the attempts whose terminal record failed to append
  claim,     \* the validation-budget reservation of each attempt
  validity,  \* EvidenceValidity of each piece of evidence
  failure,   \* the outcome class of `failure`, or "none"
  score,     \* what the evaluator, sanity and connectivity files say
  unusable,  \* a tool reported EXECUTABLE_NOT_FOUND or INVALID_INPUT_PATH
  disk,      \* <prefix>/attempts/<attempt_id>
  pointer,   \* latest_attempt.json
  alias,     \* the attempt that supplied each convenience alias
  workspace  \* the job workspace of each attempt

memory  == <<validity, failure, score, unusable>>
ledger  == <<attempt, retryOf, written, index, lost, claim>>
storage == <<disk, pointer, alias, workspace>>
vars    == <<stage, calls, result, ledger, memory, storage>>

(* Each call makes at most two attempts (prepare_number). *)
Attempts == 1..(2 * MaxCalls)

Evidence == {"script", "layout", "drc", "sanity", "connectivity"}
Snapshot == {"script", "gds", "drc", "committed"}
Records  == {"transaction", "verification"}

Terminals == {"EVALUATED", "EXECUTION_FAILURE", "CANCELLED"}
Statuses  == {"NONE", "FAILED", "COMMITTED", "ROLLED_BACK", "CANCELLED"}

Stages == {"idle", "claim", "register", "prepare", "ready", "patch",
           "script", "layout", "drc", "report", "convert", "sanity",
           "connectivity", "persist", "verification", "transaction",
           "pointer", "alias_snapshots", "alias_records", "collect", "cleanup",
           "finish", "unwind", "interrupted"}

NoAttempt == [registered |-> FALSE, retryOf |-> 0, terminals |-> <<>>]
NoDir     == [files |-> {}, verification |-> "none", transaction |-> "NONE",
              collected |-> FALSE]
NoScore   == [passed |-> FALSE, preserved |-> FALSE,
              removed |-> 0, new |-> 0, residual |-> 0]

(* before.total_drv: the violations of the parent snapshot. *)
Baseline == 1

Unread == [e \in Evidence |-> "NOT_EVALUATED"]

-----------------------------------------------------------------------------
(* The verdict: pure functions of the evidence in memory. *)

complete_validity == \A e \in Evidence : validity[e] = "VALID"

terminal_status == CASE failure = "CANCELLED" -> "CANCELLED"
                     [] failure # "CANCELLED" /\ complete_validity -> "EVALUATED"
                     [] OTHER -> "EXECUTION_FAILURE"

(* verification.outcome; a stage failure stands for its own outcome code. *)
outcome == IF failure # "none" THEN failure
           ELSE IF ~score.passed THEN "GDS_SANITY_FAILURE"
           ELSE IF ~score.preserved THEN "CONNECTIVITY_FAILURE"
           ELSE IF score.new > 0 THEN "NEW_DRC_INTRODUCED"
           ELSE IF score.removed <= 0 THEN "DRC_NO_PROGRESS"
           ELSE "SUCCESS"

(* Slip: the reasons alone decide. *)
evaluate_acceptance_by_reasons ==
  /\ complete_validity
  /\ score.passed
  /\ RequireConnectivity => score.preserved
  /\ RequireProgress => score.residual < Baseline
  /\ RejectNew => score.new = 0

(* evaluation/policy.evaluate_acceptance: no reason against, and the outcome is
   SUCCESS whatever the configuration leaves unchecked. *)
evaluate_acceptance ==
  /\ complete_validity
  /\ score.passed
  /\ RequireConnectivity => score.preserved
  /\ RequireProgress => score.residual < Baseline
  /\ RejectNew => score.new = 0
  /\ outcome = "SUCCESS"

(* Slip: looks at the decision only. *)
transaction_status_by_decision ==
  IF evaluate_acceptance THEN "COMMITTED" ELSE "ROLLED_BACK"

transaction_status == CASE terminal_status = "CANCELLED" -> "CANCELLED"
                        [] terminal_status # "CANCELLED" /\ evaluate_acceptance
                             -> "COMMITTED"
                        [] OTHER -> "ROLLED_BACK"

-----------------------------------------------------------------------------
(* Ledger *)

(* The record is appended, or the append raises. *)
AppendTerminal(status) ==
  \/ /\ index' = [index EXCEPT ![attempt].terminals = Append(@, status)]
     /\ UNCHANGED lost
  \/ lost' = lost \cup {attempt} /\ UNCHANGED index

(* Slip: the claim is settled only after a successful append. *)
TerminalThenFinish(status) ==
  IF written THEN UNCHANGED <<index, lost, claim, written>>
  ELSE /\ AppendTerminal(status)
       /\ written' = TRUE
       /\ claim' = IF lost' = lost THEN [claim EXCEPT ![attempt] = "finished"]
                   ELSE claim

(* _AttemptLedger.terminal: the record may be lost, the claim is settled. *)
Terminal(status) ==
  IF written THEN UNCHANGED <<index, lost, claim, written>>
  ELSE /\ AppendTerminal(status)
       /\ written' = TRUE
       /\ claim' = [claim EXCEPT ![attempt] = "finished"]

(* Whether the append of a step raised. *)
Lost == lost' # lost

(* The call's locals go out of scope. *)
Leave(how) == /\ stage' = "idle" /\ result' = how
              /\ validity' = Unread /\ failure' = "none" /\ score' = NoScore
              /\ unusable' = FALSE

(* Slip: the attempt is registered without a reservation. *)
NewCallUnreserved ==
  /\ stage = "idle" /\ calls < MaxCalls
  /\ stage' = "register" /\ calls' = calls + 1 /\ result' = "running"
  /\ attempt' = 0 /\ retryOf' = 0 /\ written' = FALSE
  /\ UNCHANGED <<index, lost, claim, memory, storage>>

NewCall ==
  /\ stage = "idle" /\ calls < MaxCalls
  /\ stage' = "claim" /\ calls' = calls + 1 /\ result' = "running"
  /\ attempt' = 0 /\ retryOf' = 0 /\ written' = FALSE
  /\ UNCHANGED <<index, lost, claim, memory, storage>>

(* _AttemptLedger.__init__: a reservation, then the active ledger.  A budget
   that is exhausted raises before there is a new ledger. *)
Claim ==
  /\ stage = "claim"
  /\ \E a \in Attempts :
       /\ claim[a] = "none" /\ \A b \in Attempts : b < a => claim[b] # "none"
       /\ claim' = [claim EXCEPT ![a] = "held"]
       /\ attempt' = a
  /\ written' = FALSE
  /\ stage' = "register"
  /\ UNCHANGED <<calls, result, retryOf, index, lost, memory, storage>>

Register ==
  /\ stage = "register"
  /\ index' = [index EXCEPT ![attempt] =
                 [@ EXCEPT !.registered = TRUE, !.retryOf = retryOf]]
  /\ stage' = "prepare"
  /\ UNCHANGED <<calls, result, attempt, retryOf, written, lost, claim, memory,
                 storage>>

Prepare ==
  /\ stage = "prepare"
  /\ workspace' = [workspace EXCEPT ![attempt] = "ready"]
  /\ stage' = "ready"
  /\ UNCHANGED <<calls, result, ledger, memory, disk, pointer, alias>>

(* Slip: a retryable preparation failure is always retried. *)
PrepareAgain ==
  /\ stage = "prepare"
  /\ Terminal("EXECUTION_FAILURE")
  /\ \/ ~Lost /\ retryOf' = attempt /\ stage' = "claim"
     \/ stage' = "unwind" /\ UNCHANGED retryOf
  /\ UNCHANGED <<calls, result, attempt, memory, storage>>

(* JobPreparationError: the attempt is over; a retryable one is tried once
   more, as a new attempt. *)
PrepareFailed ==
  /\ stage = "prepare"
  /\ Terminal("EXECUTION_FAILURE")
  /\ \/ ~Lost /\ retryOf = 0 /\ retryOf' = attempt /\ stage' = "claim"
     \/ stage' = "unwind" /\ UNCHANGED retryOf
  /\ UNCHANGED <<calls, result, attempt, memory, storage>>

(* WORKSPACE_READY, patch_plan.json, PATCH_REGISTERED *)
Ready ==
  /\ stage = "ready"
  /\ stage' = "patch"
  /\ UNCHANGED <<calls, result, ledger, memory, storage>>

ApplyPatch ==
  /\ stage = "patch"
  /\ stage' = "script"
  /\ UNCHANGED <<calls, result, ledger, memory, storage>>

(* PATCH_APPLICATION_FAILED: persisted at once, then raised. *)
PatchFailed ==
  /\ stage = "patch"
  /\ disk' = [disk EXCEPT ![attempt].transaction = "FAILED"]
  /\ stage' = "unwind"
  /\ UNCHANGED <<calls, result, ledger, memory, pointer, alias, workspace>>

-----------------------------------------------------------------------------
(* The tools.  A failed stage ends the evaluation; later evidence stays
   NOT_EVALUATED. *)

Fail(e, why) ==
  /\ validity' = [validity EXCEPT ![e] = "ERROR"]
  /\ failure' = why
  /\ stage' = "persist"
  /\ UNCHANGED score

Pass(e, next) ==
  /\ validity' = [validity EXCEPT ![e] = "VALID"]
  /\ stage' = next
  /\ UNCHANGED <<failure, score>>

ToolFails(e) == /\ stage = e
                /\ \E why \in {"CANCELLED", "FAILED"} : Fail(e, why)
                /\ unusable' \in BOOLEAN
                /\ UNCHANGED <<calls, result, ledger, storage>>

ValidateScript ==
  /\ stage = "script"
  /\ Pass("script", "layout")
  /\ UNCHANGED <<unusable, calls, result, ledger, storage>>

GenerateLayout ==
  /\ stage = "layout"
  /\ Pass("layout", "drc")
  /\ UNCHANGED <<unusable, calls, result, ledger, storage>>

RunDrc ==
  /\ stage = "drc"
  /\ stage' = "report"
  /\ UNCHANGED <<memory, calls, result, ledger, storage>>

(* An unreadable report is produced once more; a cancelled rerun counts as a
   failed one. *)
ValidateReport ==
  /\ stage = "report"
  /\ \/ stage' = "convert" /\ UNCHANGED <<validity, failure, score>>
        /\ UNCHANGED unusable
     \/ Fail("drc", "FAILED") /\ unusable' \in BOOLEAN
  /\ UNCHANGED <<calls, result, ledger, storage>>

(* Conversion and scoring; the evaluator is external and may count anything. *)
ConvertReport ==
  /\ stage = "convert"
  /\ \/ /\ validity' = [validity EXCEPT !["drc"] = "VALID"]
        /\ \E removed, new \in 0..1, residual \in 0..1 :
             score' = [score EXCEPT !.removed = removed, !.new = new,
                                    !.residual = residual]
        /\ stage' = "sanity" /\ UNCHANGED failure
     \/ Fail("drc", "FAILED")
  /\ UNCHANGED <<unusable, calls, result, ledger, storage>>

(* The tool succeeded; its evidence file is read, or is invalid. *)
Sanity ==
  /\ stage = "sanity"
  /\ \/ /\ validity' = [validity EXCEPT !["sanity"] = "VALID"]
        /\ \E passed \in BOOLEAN : score' = [score EXCEPT !.passed = passed]
        /\ stage' = "connectivity" /\ UNCHANGED failure
     \/ Fail("sanity", "FAILED")
  /\ UNCHANGED <<unusable, calls, result, ledger, storage>>

Connectivity ==
  /\ stage = "connectivity"
  /\ \/ /\ validity' = [validity EXCEPT !["connectivity"] = "VALID"]
        /\ \E kept \in BOOLEAN : score' = [score EXCEPT !.preserved = kept]
        /\ stage' = "persist" /\ UNCHANGED failure
     \/ Fail("connectivity", "FAILED")
  /\ UNCHANGED <<unusable, calls, result, ledger, storage>>

-----------------------------------------------------------------------------
(* Publication *)

(* The layout and the report are copied if the tools left one behind, which a
   failed stage may have done too; the committed snapshot always is. *)
Source(file) == IF file = "gds" THEN "layout" ELSE "drc"

Persist ==
  /\ stage = "persist"
  /\ \E tools \in SUBSET {"gds", "drc"} :
       /\ \A f \in {"gds", "drc"} :
            /\ validity[Source(f)] = "VALID" => f \in tools
            /\ validity[Source(f)] = "NOT_EVALUATED" => f \notin tools
       /\ disk' = [disk EXCEPT ![attempt].files =
                     {"script", "committed"} \cup tools]
  /\ stage' = "verification"
  /\ UNCHANGED <<calls, result, ledger, memory, pointer, alias, workspace>>

WriteVerification ==
  /\ stage = "verification"
  /\ disk' = [disk EXCEPT ![attempt].verification =
                IF complete_validity /\ outcome = "SUCCESS" THEN "proven"
                ELSE "unproven"]
  /\ stage' = "transaction"
  /\ UNCHANGED <<calls, result, ledger, memory, pointer, alias, workspace>>

WriteTransaction ==
  /\ stage = "transaction"
  /\ disk' = [disk EXCEPT ![attempt].transaction = transaction_status]
  /\ stage' = "pointer"
  /\ UNCHANGED <<calls, result, ledger, memory, pointer, alias, workspace>>

WritePointer ==
  /\ stage = "pointer"
  /\ pointer' = attempt
  /\ stage' = "alias_snapshots"
  /\ UNCHANGED <<calls, result, ledger, memory, disk, alias, workspace>>

(* Every file of attempted/ and committed/ the attempt has is copied over its
   alias; then the records. *)
AliasSnapshots ==
  /\ stage = "alias_snapshots"
  /\ alias' = [f \in Snapshot \cup Records |->
                 IF f \in disk[attempt].files THEN attempt ELSE alias[f]]
  /\ stage' = "alias_records"
  /\ UNCHANGED <<calls, result, ledger, memory, disk, pointer, workspace>>

AliasRecords ==
  /\ stage = "alias_records"
  /\ alias' = [f \in Snapshot \cup Records |->
                 IF f \in Records THEN attempt ELSE alias[f]]
  /\ stage' = "collect"
  /\ UNCHANGED <<calls, result, ledger, memory, disk, pointer, workspace>>

(* Slip: the workspace goes before its tool evidence is collected. *)
CleanupFirst ==
  /\ stage = "collect"
  /\ workspace' = [workspace EXCEPT ![attempt] =
                     IF KeepFailed /\ ~evaluate_acceptance THEN "kept"
                     ELSE "removed"]
  /\ stage' = "cleanup"
  /\ UNCHANGED <<calls, result, ledger, memory, disk, pointer, alias>>

Collect ==
  /\ stage = "collect"
  /\ disk' = [disk EXCEPT ![attempt].collected = TRUE]
  /\ stage' = "cleanup"
  /\ UNCHANGED <<calls, result, ledger, memory, pointer, alias, workspace>>

Cleanup ==
  /\ stage = "cleanup"
  /\ workspace' = [workspace EXCEPT ![attempt] =
                     IF KeepFailed /\ ~evaluate_acceptance THEN "kept"
                     ELSE "removed"]
  /\ stage' = "finish"
  /\ UNCHANGED <<calls, result, ledger, memory, disk, pointer, alias>>

(* An unusable tool is an infrastructure failure even now. *)
ToolUnusable ==
  /\ stage = "finish" /\ unusable
  /\ stage' = "unwind"
  /\ UNCHANGED <<calls, result, ledger, memory, storage>>

Finish ==
  /\ stage = "finish" /\ ~unusable
  /\ Terminal(terminal_status)
  /\ IF Lost THEN stage' = "unwind" /\ UNCHANGED <<result, memory>>
     ELSE Leave(IF evaluate_acceptance THEN "accepted" ELSE "rejected")
  /\ UNCHANGED <<calls, attempt, retryOf, storage>>

(* Any statement may raise; an interrupt or ExecutionCancelled too. *)
Raise ==
  /\ stage \notin {"idle", "unwind", "interrupted"}
  /\ stage' \in {"unwind", "interrupted"}
  /\ UNCHANGED <<calls, result, ledger, memory, storage>>

(* Slip: a call whose ledger exists is left without a terminal record when it
   was interrupted. *)
UnwindErrorsOnly ==
  /\ stage \in {"unwind", "interrupted"}
  /\ IF attempt = 0 \/ stage = "interrupted"
     THEN UNCHANGED <<index, lost, claim, written>>
     ELSE Terminal("EXECUTION_FAILURE")
  /\ Leave("raised")
  /\ UNCHANGED <<calls, attempt, retryOf, storage>>

(* _account_physical_attempts *)
Unwind ==
  /\ stage \in {"unwind", "interrupted"}
  /\ IF attempt = 0 THEN UNCHANGED <<index, lost, claim, written>>
     ELSE Terminal(IF stage = "interrupted" THEN "CANCELLED"
                   ELSE "EXECUTION_FAILURE")
  /\ Leave("raised")
  /\ UNCHANGED <<calls, attempt, retryOf, storage>>

(* The process is killed: the files stay. *)
Kill ==
  /\ stage # "idle"
  /\ Leave("killed")
  /\ UNCHANGED <<calls, ledger, storage>>

-----------------------------------------------------------------------------
Init ==
  /\ stage = "idle" /\ calls = 0 /\ result = "running"
  /\ attempt = 0 /\ retryOf = 0 /\ written = FALSE
  /\ index = [a \in Attempts |-> NoAttempt]
  /\ claim = [a \in Attempts |-> "none"] /\ lost = {}
  /\ validity = Unread /\ failure = "none" /\ score = NoScore
  /\ unusable = FALSE
  /\ disk = [a \in Attempts |-> NoDir]
  /\ pointer = 0
  /\ alias = [f \in Snapshot \cup Records |-> 0]
  /\ workspace = [a \in Attempts |-> "none"]

Next ==
  \/ NewCall \/ Claim \/ Register \/ Prepare \/ PrepareFailed \/ Ready
  \/ ApplyPatch \/ PatchFailed
  \/ \E e \in Evidence : ToolFails(e)
  \/ ValidateScript \/ GenerateLayout \/ RunDrc \/ ValidateReport
  \/ ConvertReport \/ Sanity \/ Connectivity
  \/ Persist \/ WriteVerification \/ WriteTransaction \/ WritePointer
  \/ AliasSnapshots \/ AliasRecords \/ Collect \/ Cleanup
  \/ ToolUnusable \/ Finish \/ Raise \/ Unwind \/ Kill

Spec == Init /\ [][Next]_vars

-----------------------------------------------------------------------------
TypeOK ==
  /\ stage \in Stages
  /\ calls \in 0..MaxCalls
  /\ result \in {"running", "accepted", "rejected", "raised", "killed"}
  /\ attempt \in Attempts \cup {0}
  /\ stage \notin {"idle", "claim", "unwind", "interrupted"} => attempt # 0
  /\ retryOf \in Attempts \cup {0}
  /\ written \in BOOLEAN
  /\ index \in [Attempts -> [registered : BOOLEAN,
                             retryOf    : Attempts \cup {0},
                             terminals  : Seq(Terminals)]]
  /\ lost \subseteq Attempts
  /\ claim \in [Attempts -> {"none", "held", "finished"}]
  /\ validity \in [Evidence -> {"NOT_EVALUATED", "VALID", "ERROR"}]
  /\ failure \in {"none", "CANCELLED", "FAILED"}
  /\ score \in [passed : BOOLEAN, preserved : BOOLEAN,
               removed : 0..1, new : 0..1, residual : 0..1]
  /\ unusable \in BOOLEAN
  /\ disk \in [Attempts -> [files        : SUBSET Snapshot,
                            verification : {"none", "proven", "unproven"},
                            transaction  : Statuses,
                            collected    : BOOLEAN]]
  /\ pointer \in Attempts \cup {0}
  /\ alias \in [Snapshot \cup Records -> Attempts \cup {0}]
  /\ workspace \in [Attempts -> {"none", "ready", "kept", "removed"}]

(* The attempts of the last call that got as far as a ledger. *)
Own == {attempt, retryOf} \ {0}

Ended == stage = "idle" /\ result \in {"accepted", "rejected", "raised"}

(* "Guarantee a terminal record even when an unexpected stage raises"
   (_account_physical_attempts): however a call ends, each of its attempts has
   exactly one unless the append of it failed, and never two at any time. *)
Accounted ==
  /\ \A a \in Attempts : Len(index[a].terminals) <= 1
  /\ Ended => \A a \in Own : a \in lost <=> Len(index[a].terminals) = 0

(* A call that ends holds no EDA reservation, even if the storage failed while
   its terminal record was being written (the finally of terminal()). *)
ClaimsSettled == Ended => \A a \in Own : claim[a] = "finished"

(* A retry is registered only for an attempt whose failure is durable, and
   that was not a retry itself (the prepare loop of execute). *)
RetryAfterFailure ==
  \A a \in Attempts :
    LET first == index[a].retryOf
    IN  first # 0 => /\ index[first].terminals = <<"EXECUTION_FAILURE">>
                     /\ index[first].retryOf = 0

(* A durable COMMITTED transaction has a complete fresh verification with a
   SUCCESS outcome next to it, at every instant and after every crash,
   whatever the acceptance configuration leaves unchecked. *)
CommittedIsProven ==
  \A a \in Attempts : disk[a].transaction = "COMMITTED" =>
    /\ disk[a].verification = "proven"
    /\ Snapshot \subseteq disk[a].files

(* What a normal return tells the caller is what the index and the attempt's
   directory say. *)
ReturnMatchesRecords ==
  stage = "idle" /\ result \in {"accepted", "rejected"} =>
    LET status == disk[attempt].transaction
        last   == index[attempt].terminals
    IN  /\ result = "accepted" <=> status = "COMMITTED"
        /\ status = "COMMITTED" => last = <<"EVALUATED">>
        /\ status = "CANCELLED" <=> last = <<"CANCELLED">>
        /\ disk[attempt].collected

(* A job workspace is removed only after its tool evidence was collected. *)
EvidenceOutlivesWorkspace ==
  \A a \in Attempts : workspace[a] = "removed" => disk[a].collected

(* What the caller is told rests on evidence that is kept. *)
ReturnIsEvidenced == ReturnMatchesRecords /\ EvidenceOutlivesWorkspace
=============================================================================
