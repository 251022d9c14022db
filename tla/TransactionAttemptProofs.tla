----------------------- MODULE TransactionAttemptProofs -----------------------
(***************************************************************************)
(* Proofs about the transaction executor, for any number of calls and any  *)
(* acceptance configuration.                                               *)
(***************************************************************************)
EXTENDS TransactionAttempt, TLAPS

-----------------------------------------------------------------------------
(* Type correctness. *)

LEMMA AttemptsType == Attempts \subseteq Nat \ {0}
BY TransactionAssumption DEF Attempts

IndexEntry == [registered : BOOLEAN,
               retryOf    : Attempts \cup {0},
               terminals  : Seq(Terminals)]

Directory == [files        : SUBSET Snapshot,
              verification : {"none", "proven", "unproven"},
              transaction  : Statuses,
              collected    : BOOLEAN]

LEMMA VerdictType ==
  /\ terminal_status \in Terminals
  /\ transaction_status \in Statuses
BY DEF terminal_status, transaction_status, Terminals, Statuses

(* What a terminal record leaves well typed, whether it is lost or not. *)
LEMMA TerminalType ==
  ASSUME TypeOK, attempt # 0, NEW status \in Terminals, Terminal(status)
  PROVE  /\ written' \in BOOLEAN
         /\ index' \in [Attempts -> [registered : BOOLEAN,
                                     retryOf    : Attempts \cup {0},
                                     terminals  : Seq(Terminals)]]
         /\ lost' \subseteq Attempts
         /\ claim' \in [Attempts -> {"none", "held", "finished"}]
<1>1. attempt \in Attempts
  BY DEF TypeOK
<1>2. Append(index[attempt].terminals, status) \in Seq(Terminals)
  BY <1>1 DEF TypeOK
<1>3. ASSUME NEW e \in IndexEntry, NEW t \in Seq(Terminals)
      PROVE  [e EXCEPT !.terminals = t] \in IndexEntry
  BY DEF IndexEntry
<1>4. index \in [Attempts -> IndexEntry]
  BY DEF TypeOK, IndexEntry
<1>5. index' \in [Attempts -> IndexEntry]
  <2>1. CASE index' = index
    BY <2>1, <1>4
  <2>2. CASE index' # index
    <3>1. index' = [index EXCEPT ![attempt] =
                      [index[attempt] EXCEPT
                         !.terminals = Append(index[attempt].terminals, status)]]
      BY <2>2 DEF Terminal, AppendTerminal
    <3>2. index'[attempt] \in IndexEntry
      BY <3>1, <1>1, <1>2, <1>3, <1>4
    <3> QED
      BY <3>1, <3>2, <1>1, <1>4
  <2> QED
    BY <2>1, <2>2
<1>6. /\ written' \in BOOLEAN
      /\ lost' \subseteq Attempts
      /\ claim' \in [Attempts -> {"none", "held", "finished"}]
  <2>1. CASE written
    BY <2>1 DEF TypeOK, Terminal
  <2>2. CASE ~written
    <3>1. /\ written' = TRUE
          /\ lost' \in {lost, lost \cup {attempt}}
          /\ claim' = [claim EXCEPT ![attempt] = "finished"]
      BY <2>2 DEF Terminal, AppendTerminal
    <3> QED
      BY <1>1, <3>1 DEF TypeOK
  <2> QED
    BY <2>1, <2>2
<1> QED
  BY <1>5, <1>6 DEF IndexEntry

LEMMA TypeInit == Init => TypeOK
<1> SUFFICES ASSUME Init PROVE TypeOK
  OBVIOUS
<1> USE DEF Init
<1>1. calls \in 0..MaxCalls
  BY TransactionAssumption
<1>2. /\ stage \in Stages /\ stage = "idle"
      /\ result = "running"
      /\ attempt = 0 /\ retryOf = 0 /\ written = FALSE /\ pointer = 0
      /\ failure = "none" /\ unusable = FALSE
  BY DEF Stages
<1>3. index \in [Attempts -> IndexEntry]
  <2>1. NoAttempt \in IndexEntry
    BY DEF NoAttempt, IndexEntry
  <2> QED
    BY <2>1
<1>4. lost \subseteq Attempts /\ claim \in [Attempts -> {"none", "held", "finished"}]
  OBVIOUS
<1>5. validity \in [Evidence -> {"NOT_EVALUATED", "VALID", "ERROR"}]
  BY DEF Unread
<1>6. score \in [passed : BOOLEAN, preserved : BOOLEAN,
                 removed : 0..1, new : 0..1, residual : 0..1]
  BY DEF NoScore
<1>7. disk \in [Attempts -> [files        : SUBSET Snapshot,
                             verification : {"none", "proven", "unproven"},
                             transaction  : Statuses,
                             collected    : BOOLEAN]]
  BY DEF NoDir, Statuses
<1>8. /\ alias \in [Snapshot \cup Records -> Attempts \cup {0}]
      /\ workspace \in [Attempts -> {"none", "ready", "kept", "removed"}]
  OBVIOUS
<1> QED
  BY <1>1, <1>2, <1>3, <1>4, <1>5, <1>6, <1>7, <1>8 DEF TypeOK, IndexEntry

LEMMA DirectoryType ==
  ASSUME NEW e \in Directory, NEW files \in SUBSET Snapshot,
         NEW word \in {"none", "proven", "unproven"}, NEW status \in Statuses
  PROVE  /\ [e EXCEPT !.files = files] \in Directory
         /\ [e EXCEPT !.verification = word] \in Directory
         /\ [e EXCEPT !.transaction = status] \in Directory
         /\ [e EXCEPT !.collected = TRUE] \in Directory
BY DEF Directory

(* The steps of the tools touch only the evidence in memory. *)
LEMMA TypeToolStep ==
  ASSUME TypeOK,
         \/ \E e \in Evidence : ToolFails(e)
         \/ ValidateScript \/ GenerateLayout \/ RunDrc \/ ValidateReport
         \/ ConvertReport \/ Sanity \/ Connectivity
  PROVE  TypeOK'
<1> USE DEF TypeOK, Stages, ledger, storage, memory
<1>1. ASSUME NEW e \in Evidence, ToolFails(e) PROVE TypeOK'
  BY <1>1 DEF ToolFails, Fail, Evidence
<1>2. CASE ValidateScript
  BY <1>2 DEF ValidateScript, Pass, Evidence
<1>3. CASE GenerateLayout
  BY <1>3 DEF GenerateLayout, Pass, Evidence
<1>4. CASE RunDrc
  BY <1>4 DEF RunDrc
<1>5. CASE ValidateReport
  BY <1>5 DEF ValidateReport, Fail, Evidence
<1>6. CASE ConvertReport
  <2>1. CASE Fail("drc", "FAILED")
    BY <1>6, <2>1 DEF ConvertReport, Fail, Evidence
  <2>2. ASSUME NEW removed \in 0..1, NEW new \in 0..1, NEW residual \in 0..1,
               score' = [score EXCEPT !.removed = removed, !.new = new,
                                      !.residual = residual],
               validity' = [validity EXCEPT !["drc"] = "VALID"],
               stage' = "sanity" /\ UNCHANGED failure
        PROVE  TypeOK'
    BY <1>6, <2>2 DEF ConvertReport, Evidence
  <2> QED
    BY <1>6, <2>1, <2>2 DEF ConvertReport
<1>7. CASE Sanity
  BY <1>7 DEF Sanity, Fail, Evidence
<1>8. CASE Connectivity
  BY <1>8 DEF Connectivity, Fail, Evidence
<1> QED
  BY <1>1, <1>2, <1>3, <1>4, <1>5, <1>6, <1>7, <1>8

LEMMA TypeLedgerStep ==
  ASSUME TypeOK,
         NewCall \/ Claim \/ Register \/ Prepare \/ PrepareFailed \/ Ready
         \/ ApplyPatch \/ PatchFailed
  PROVE  TypeOK'
<1> USE DEF TypeOK, Stages, ledger, storage, memory
<1>1. CASE NewCall
  <2>1. calls' \in 0..MaxCalls
    BY <1>1, TransactionAssumption DEF NewCall
  <2> QED
    BY <1>1, <2>1 DEF NewCall
<1>2. CASE Claim
  <2>1. PICK a \in Attempts : /\ claim' = [claim EXCEPT ![a] = "held"]
                              /\ attempt' = a
    BY <1>2 DEF Claim
  <2>2. a # 0
    BY AttemptsType
  <2> QED
    BY <1>2, <2>1, <2>2 DEF Claim
<1>3. CASE Register
  <2>1. index \in [Attempts -> IndexEntry]
    BY DEF IndexEntry
  <2>2. attempt \in Attempts
    BY <1>3 DEF Register
  <2>3. ASSUME NEW e \in IndexEntry, NEW r \in Attempts \cup {0}
        PROVE  [e EXCEPT !.registered = TRUE, !.retryOf = r] \in IndexEntry
    BY DEF IndexEntry
  <2>4. index' \in [Attempts -> IndexEntry]
    <3>1. retryOf \in Attempts \cup {0}
      OBVIOUS
    <3>2. index' = [index EXCEPT ![attempt] =
                      [index[attempt] EXCEPT !.registered = TRUE,
                                             !.retryOf = retryOf]]
      BY <1>3 DEF Register
    <3> HIDE DEF TypeOK, Stages
    <3> QED
      BY <2>1, <2>2, <2>3, <3>1, <3>2
  <2> QED
    BY <1>3, <2>4 DEF Register, IndexEntry
<1>4. CASE Prepare
  BY <1>4 DEF Prepare
<1>5. CASE PrepareFailed
  <2>1. attempt \in Attempts /\ attempt # 0
    BY <1>5 DEF PrepareFailed
  <2>2. Terminal("EXECUTION_FAILURE")
    BY <1>5 DEF PrepareFailed
  <2>3. /\ written' \in BOOLEAN
        /\ index' \in [Attempts -> [registered : BOOLEAN,
                                    retryOf    : Attempts \cup {0},
                                    terminals  : Seq(Terminals)]]
        /\ lost' \subseteq Attempts
        /\ claim' \in [Attempts -> {"none", "held", "finished"}]
    BY <2>1, <2>2, TerminalType DEF Terminals
  <2>4. /\ stage' \in {"claim", "unwind"}
        /\ retryOf' \in Attempts \cup {0}
        /\ UNCHANGED <<calls, result, attempt, memory, storage>>
    BY <1>5, <2>1 DEF PrepareFailed
  <2> QED
    BY <2>3, <2>4
<1>6. CASE Ready
  BY <1>6 DEF Ready
<1>7. CASE ApplyPatch
  BY <1>7 DEF ApplyPatch
<1>8. CASE PatchFailed
  <2>1. attempt \in Attempts /\ disk \in [Attempts -> Directory]
    BY <1>8 DEF PatchFailed, Directory
  <2>2. [disk[attempt] EXCEPT !.transaction = "FAILED"] \in Directory
    <3>1. "FAILED" \in Statuses /\ {} \in SUBSET Snapshot
      BY DEF Statuses
    <3> HIDE DEF TypeOK, Stages
    <3> QED
      BY <2>1, <3>1, DirectoryType
  <2>3. disk' \in [Attempts -> Directory]
    <3>1. disk' = [disk EXCEPT ![attempt] = [disk[attempt] EXCEPT
                                               !.transaction = "FAILED"]]
      BY <1>8 DEF PatchFailed
    <3> HIDE DEF TypeOK, Stages
    <3> QED
      BY <2>1, <2>2, <3>1
  <2> QED
    BY <1>8, <2>3 DEF PatchFailed, Directory
<1> QED
  BY <1>1, <1>2, <1>3, <1>4, <1>5, <1>6, <1>7, <1>8

(* A step that rewrites one directory. *)
LEMMA DiskStep ==
  ASSUME TypeOK, attempt # 0, stage' \in Stages, disk' \in [Attempts -> Directory],
         UNCHANGED <<calls, result, ledger, memory, pointer, alias, workspace>>
  PROVE  TypeOK'
BY DEF TypeOK, Directory, ledger, memory

LEMMA TypePublicationStep ==
  ASSUME TypeOK,
         Persist \/ WriteVerification \/ WriteTransaction \/ WritePointer
         \/ AliasSnapshots \/ AliasRecords \/ Collect \/ Cleanup
  PROVE  TypeOK'
<1> USE DEF TypeOK, Stages, ledger, storage, memory
<1>1. CASE Persist
  <2>1. PICK tools \in SUBSET {"gds", "drc"} :
          disk' = [disk EXCEPT ![attempt].files = {"script", "committed"} \cup tools]
    BY <1>1 DEF Persist
  <2>2. {"script", "committed"} \cup tools \in SUBSET Snapshot
    BY DEF Snapshot
  <2>3. attempt \in Attempts /\ disk \in [Attempts -> Directory]
    BY <1>1 DEF Persist, Directory
  <2>4. disk' = [disk EXCEPT ![attempt] = [disk[attempt] EXCEPT
                   !.files = {"script", "committed"} \cup tools]]
    BY <2>1
  <2>5. disk' \in [Attempts -> Directory]
    BY <2>2, <2>3, <2>4, DirectoryType DEF Statuses
  <2> QED
    BY <1>1, <2>5, DiskStep DEF Persist
<1>2. CASE WriteVerification
  <2> DEFINE word == IF complete_validity /\ outcome = "SUCCESS" THEN "proven"
                     ELSE "unproven"
  <2>1. attempt \in Attempts /\ disk \in [Attempts -> Directory]
    BY <1>2 DEF WriteVerification, Directory
  <2>2. disk' = [disk EXCEPT ![attempt] = [disk[attempt] EXCEPT
                                             !.verification = word]]
    BY <1>2 DEF WriteVerification
  <2>3. word \in {"none", "proven", "unproven"}
    OBVIOUS
  <2> HIDE DEF word
  <2>4. disk' \in [Attempts -> Directory]
    BY <2>1, <2>2, <2>3, DirectoryType DEF Statuses
  <2> QED
    BY <1>2, <2>4, DiskStep DEF WriteVerification
<1>3. CASE WriteTransaction
  <2>1. attempt \in Attempts /\ disk \in [Attempts -> Directory]
    BY <1>3 DEF WriteTransaction, Directory
  <2>2. disk' = [disk EXCEPT ![attempt] = [disk[attempt] EXCEPT
                                             !.transaction = transaction_status]]
    BY <1>3 DEF WriteTransaction
  <2>3. disk' \in [Attempts -> Directory]
    <3> HIDE DEF TypeOK, Stages
    <3>1. [disk[attempt] EXCEPT !.transaction = transaction_status] \in Directory
      BY <2>1, VerdictType, DirectoryType
    <3> QED
      BY <2>1, <2>2, <3>1
  <2> QED
    BY <1>3, <2>3, DiskStep DEF WriteTransaction
<1>4. CASE WritePointer
  BY <1>4 DEF WritePointer
<1>5. CASE AliasSnapshots
  BY <1>5 DEF AliasSnapshots
<1>6. CASE AliasRecords
  BY <1>6 DEF AliasRecords
<1>7. CASE Collect
  <2>1. attempt \in Attempts /\ disk \in [Attempts -> Directory]
    BY <1>7 DEF Collect, Directory
  <2>2. disk' = [disk EXCEPT ![attempt] = [disk[attempt] EXCEPT
                                             !.collected = TRUE]]
    BY <1>7 DEF Collect
  <2>3. disk' \in [Attempts -> Directory]
    <3> HIDE DEF TypeOK, Stages
    <3>1. [disk[attempt] EXCEPT !.collected = TRUE] \in Directory
      BY <2>1, VerdictType, DirectoryType
    <3> QED
      BY <2>1, <2>2, <3>1
  <2> QED
    BY <1>7, <2>3, DiskStep DEF Collect
<1>8. CASE Cleanup
  BY <1>8 DEF Cleanup
<1> QED
  BY <1>1, <1>2, <1>3, <1>4, <1>5, <1>6, <1>7, <1>8

(* The locals a call leaves behind are those of a call that has not begun. *)
LEMMA LeaveType ==
  ASSUME TypeOK, NEW how \in {"accepted", "rejected", "raised", "killed"},
         Leave(how)
  PROVE  /\ stage' = "idle" /\ stage' \in Stages
         /\ result' \in {"running", "accepted", "rejected", "raised", "killed"}
         /\ validity' \in [Evidence -> {"NOT_EVALUATED", "VALID", "ERROR"}]
         /\ failure' \in {"none", "CANCELLED", "FAILED"}
         /\ score' \in [passed : BOOLEAN, preserved : BOOLEAN,
                        removed : 0..1, new : 0..1, residual : 0..1]
         /\ unusable' \in BOOLEAN
<1>1. /\ stage' = "idle" /\ stage' \in Stages
      /\ result' \in {"running", "accepted", "rejected", "raised", "killed"}
      /\ failure' \in {"none", "CANCELLED", "FAILED"}
      /\ unusable' \in BOOLEAN
  BY DEF Leave, Stages
<1>2. validity' \in [Evidence -> {"NOT_EVALUATED", "VALID", "ERROR"}]
  BY DEF Leave, Unread
<1>3. score' \in [passed : BOOLEAN, preserved : BOOLEAN,
                  removed : 0..1, new : 0..1, residual : 0..1]
  BY DEF Leave, NoScore
<1> QED
  BY <1>1, <1>2, <1>3

LEMMA TypeEndingStep ==
  ASSUME TypeOK, ToolUnusable \/ Finish \/ Raise \/ Unwind \/ Kill
  PROVE  TypeOK'
<1>1. CASE ToolUnusable
  BY <1>1 DEF ToolUnusable, TypeOK, Stages, ledger, storage, memory
<1>2. CASE Finish
  <2>1. attempt # 0 /\ Terminal(terminal_status) /\ terminal_status \in Terminals
    BY <1>2, VerdictType DEF Finish, TypeOK
  <2>2. /\ written' \in BOOLEAN
        /\ index' \in [Attempts -> IndexEntry]
        /\ lost' \subseteq Attempts
        /\ claim' \in [Attempts -> {"none", "held", "finished"}]
    BY <2>1, TerminalType DEF IndexEntry
  <2>3. UNCHANGED <<calls, attempt, retryOf, storage>>
    BY <1>2 DEF Finish
  <2>4. CASE Lost
    <3>1. stage' = "unwind" /\ UNCHANGED <<result, memory>>
      BY <1>2, <2>4 DEF Finish
    <3> QED
      BY <2>2, <2>3, <3>1 DEF TypeOK, Stages, storage, memory, IndexEntry
  <2>5. CASE ~Lost
    <3>1. Leave(IF evaluate_acceptance THEN "accepted" ELSE "rejected")
      BY <1>2, <2>5 DEF Finish
    <3> QED
      BY <2>2, <2>3, <3>1, LeaveType DEF TypeOK, storage, IndexEntry
  <2> QED
    BY <2>4, <2>5
<1>3. CASE Raise
  BY <1>3 DEF Raise, TypeOK, Stages, ledger, storage, memory
<1>4. CASE Unwind
  <2>1. /\ written' \in BOOLEAN
        /\ index' \in [Attempts -> IndexEntry]
        /\ lost' \subseteq Attempts
        /\ claim' \in [Attempts -> {"none", "held", "finished"}]
    <3>1. CASE attempt = 0
      BY <1>4, <3>1 DEF Unwind, TypeOK, IndexEntry
    <3>2. CASE attempt # 0
      BY <1>4, <3>2, TerminalType DEF Unwind, Terminals, IndexEntry
    <3> QED
      BY <3>1, <3>2
  <2>2. UNCHANGED <<calls, attempt, retryOf, storage>> /\ Leave("raised")
    BY <1>4 DEF Unwind
  <2> QED
    BY <2>1, <2>2, LeaveType DEF TypeOK, storage, IndexEntry
<1>5. CASE Kill
  <2>1. UNCHANGED <<calls, ledger, storage>> /\ Leave("killed")
    BY <1>5 DEF Kill
  <2> QED
    BY <2>1, LeaveType DEF TypeOK, storage, ledger
<1> QED
  BY <1>1, <1>2, <1>3, <1>4, <1>5

LEMMA TypeStep == TypeOK /\ [Next]_vars => TypeOK'
<1> SUFFICES ASSUME TypeOK, [Next]_vars PROVE TypeOK'
  OBVIOUS
<1>1. CASE UNCHANGED vars
  BY <1>1 DEF TypeOK, vars, ledger, memory, storage
<1>2. CASE Next
  BY <1>2, TypeLedgerStep, TypeToolStep, TypePublicationStep, TypeEndingStep
     DEF Next
<1> QED
  BY <1>1, <1>2

(* Every reachable state of the executor is well typed, and a call that works
   has an attempt (execute, _AttemptLedger). *)
THEOREM TypeCorrect == Spec => []TypeOK
BY TypeInit, TypeStep, PTL DEF Spec

-----------------------------------------------------------------------------
(* CommittedIsProven is not inductive: that a status is written next to its
   proof depends on the order of publication and on what earlier steps left. *)

Publishing == {"persist", "verification", "transaction"}
Working == {"register", "prepare", "ready", "patch", "script", "layout", "drc",
            "report", "convert", "sanity", "connectivity"} \cup Publishing

(* The directory of an attempt says COMMITTED neither before there is an
   attempt nor while its call has yet to write transaction.json. *)
NotYetCommitted ==
  /\ \A a \in Attempts : claim[a] = "none" => disk[a].transaction # "COMMITTED"
  /\ stage \in Working => /\ claim[attempt] # "none"
                          /\ disk[attempt].transaction # "COMMITTED"

(* Complete evidence has put every file in place when the verdict is written. *)
EvidenceFiled ==
  stage \in {"verification", "transaction"} /\ complete_validity
    => Snapshot \subseteq disk[attempt].files

(* verification.json is the verdict on the evidence in memory. *)
VerdictWritten ==
  stage = "transaction"
    => (disk[attempt].verification = "proven"
          <=> complete_validity /\ outcome = "SUCCESS")

ProofInv == TypeOK /\ CommittedIsProven /\ NotYetCommitted /\ EvidenceFiled
            /\ VerdictWritten

LEMMA ProofInit == Init => ProofInv
<1> SUFFICES ASSUME Init PROVE ProofInv
  OBVIOUS
<1>1. TypeOK
  BY TypeInit
<1>2. stage = "idle" /\ \A a \in Attempts : disk[a].transaction = "NONE"
  BY DEF Init, NoDir
<1> QED
  BY <1>1, <1>2 DEF ProofInv, CommittedIsProven, NotYetCommitted, EvidenceFiled,
                    VerdictWritten, Working, Publishing

(* Steps that leave the directories alone and begin no publication. *)
LEMMA ProofQuietStep ==
  ASSUME ProofInv, UNCHANGED disk,
         \A a \in Attempts : claim'[a] = "none" => claim[a] = "none",
         stage' \notin {"verification", "transaction"},
         stage' \in Working => stage \in Working /\ attempt' = attempt
  PROVE  CommittedIsProven' /\ NotYetCommitted' /\ EvidenceFiled' /\ VerdictWritten'
<1>1. CommittedIsProven'
  BY DEF ProofInv, CommittedIsProven
<1>2. NotYetCommitted'
  <2>1. stage' \in Working => attempt \in Attempts
    BY DEF ProofInv, TypeOK, Working, Publishing
  <2>2. stage' \in Working => claim'[attempt] # "none"
    BY <2>1 DEF ProofInv, NotYetCommitted
  <2> QED
    BY <2>2 DEF ProofInv, NotYetCommitted
<1>3. EvidenceFiled' /\ VerdictWritten'
  BY DEF EvidenceFiled, VerdictWritten
<1> QED
  BY <1>1, <1>2, <1>3

LEMMA TerminalClaims ==
  ASSUME TypeOK, NEW status, Terminal(status)
  PROVE  \A a \in Attempts : claim'[a] = "none" => claim[a] = "none"
BY DEF Terminal, TypeOK

LEMMA ProofToolStep ==
  ASSUME ProofInv,
         \/ Register \/ Prepare \/ Ready \/ ApplyPatch
         \/ \E e \in Evidence : ToolFails(e)
         \/ ValidateScript \/ GenerateLayout \/ RunDrc \/ ValidateReport
         \/ ConvertReport \/ Sanity \/ Connectivity
  PROVE  CommittedIsProven' /\ NotYetCommitted' /\ EvidenceFiled' /\ VerdictWritten'
<1>1. /\ UNCHANGED <<disk, claim, attempt>>
      /\ stage \in Working
      /\ stage' \in Working \ {"verification", "transaction"}
  <2> USE DEF Working, Publishing, storage, ledger
  <2>1. CASE Register \/ Prepare \/ Ready \/ ApplyPatch
    BY <2>1 DEF Register, Prepare, Ready, ApplyPatch
  <2>2. ASSUME NEW e \in Evidence, ToolFails(e)
        PROVE  /\ UNCHANGED <<disk, claim, attempt>>
               /\ stage \in Working
               /\ stage' \in Working \ {"verification", "transaction"}
    BY <2>2 DEF ToolFails, Fail, Evidence
  <2>3. CASE ValidateScript \/ GenerateLayout \/ RunDrc \/ ValidateReport
    BY <2>3 DEF ValidateScript, GenerateLayout, RunDrc, ValidateReport, Pass, Fail
  <2>4. CASE ConvertReport \/ Sanity \/ Connectivity
    BY <2>4 DEF ConvertReport, Sanity, Connectivity, Fail
  <2> QED
    BY <2>1, <2>2, <2>3, <2>4
<1> QED
  BY <1>1, ProofQuietStep

LEMMA ProofCallStep ==
  ASSUME ProofInv,
         \/ NewCall \/ PrepareFailed \/ WritePointer \/ AliasSnapshots
         \/ AliasRecords \/ Cleanup \/ ToolUnusable \/ Finish \/ Raise
         \/ Unwind \/ Kill
  PROVE  CommittedIsProven' /\ NotYetCommitted' /\ EvidenceFiled' /\ VerdictWritten'
<1>1. TypeOK
  BY DEF ProofInv
<1>2. UNCHANGED disk /\ stage' \notin Working
  <2> USE DEF Working, Publishing, storage
  <2>1. CASE NewCall \/ PrepareFailed \/ ToolUnusable \/ Raise
    BY <2>1 DEF NewCall, PrepareFailed, ToolUnusable, Raise
  <2>2. CASE WritePointer \/ AliasSnapshots \/ AliasRecords \/ Cleanup
    BY <2>2 DEF WritePointer, AliasSnapshots, AliasRecords, Cleanup
  <2>3. CASE Finish \/ Unwind \/ Kill
    BY <2>3 DEF Finish, Unwind, Kill, Leave
  <2> QED
    BY <2>1, <2>2, <2>3
<1>3. \A a \in Attempts : claim'[a] = "none" => claim[a] = "none"
  <2>1. CASE PrepareFailed \/ Finish \/ Unwind
    BY <1>1, <2>1, TerminalClaims DEF PrepareFailed, Finish, Unwind
  <2>2. CASE \/ NewCall \/ WritePointer \/ AliasSnapshots \/ AliasRecords
             \/ Cleanup \/ ToolUnusable \/ Raise \/ Kill
    BY <2>2 DEF NewCall, WritePointer, AliasSnapshots, AliasRecords, Cleanup,
                ToolUnusable, Raise, Kill, ledger
  <2> QED
    BY <2>1, <2>2
<1> QED
  BY <1>2, <1>3, ProofQuietStep DEF Working, Publishing

LEMMA ProofStep == ProofInv /\ [Next]_vars => ProofInv'
<1> SUFFICES ASSUME ProofInv, [Next]_vars PROVE ProofInv'
  OBVIOUS
<1>1. TypeOK /\ TypeOK'
  BY TypeStep DEF ProofInv
<1> SUFFICES CommittedIsProven' /\ NotYetCommitted' /\ EvidenceFiled' /\ VerdictWritten'
  BY <1>1 DEF ProofInv
<1>2. CASE UNCHANGED vars
  BY <1>2 DEF vars, ledger, memory, storage, ProofInv, CommittedIsProven,
              NotYetCommitted, EvidenceFiled, VerdictWritten,
              complete_validity, outcome
<1>3. CASE Claim
  <2>1. PICK a \in Attempts : claim[a] = "none" /\ attempt' = a
                              /\ claim' = [claim EXCEPT ![a] = "held"]
    BY <1>3 DEF Claim
  <2>2. UNCHANGED disk /\ stage' = "register"
    BY <1>3 DEF Claim, storage
  <2>3. NotYetCommitted'
    BY <1>1, <2>1, <2>2 DEF ProofInv, NotYetCommitted, TypeOK
  <2> QED
    BY <2>2, <2>3 DEF ProofInv, CommittedIsProven, EvidenceFiled, VerdictWritten
<1>4. CASE PatchFailed
  <2>1. attempt \in Attempts
    BY <1>1, <1>4 DEF PatchFailed, TypeOK
  <2>2. /\ disk' = [disk EXCEPT ![attempt].transaction = "FAILED"]
        /\ stage' = "unwind" /\ UNCHANGED claim
    BY <1>4 DEF PatchFailed, ledger
  <2> QED
    BY <1>1, <2>1, <2>2
       DEF ProofInv, CommittedIsProven, NotYetCommitted, EvidenceFiled,
           VerdictWritten, Working, Publishing, TypeOK
<1>5. CASE Persist
  <2>1. attempt \in Attempts /\ stage \in Working
        /\ UNCHANGED <<claim, attempt, validity, failure, score>>
        /\ stage' = "verification"
    BY <1>1, <1>5 DEF Persist, TypeOK, Working, Publishing, ledger, memory
  <2>2. PICK tools \in SUBSET {"gds", "drc"} :
          /\ \A f \in {"gds", "drc"} : validity[Source(f)] = "VALID" => f \in tools
          /\ disk' = [disk EXCEPT ![attempt].files =
                        {"script", "committed"} \cup tools]
    BY <1>5 DEF Persist
  <2>3. \A a \in Attempts : /\ disk'[a].transaction = disk[a].transaction
                            /\ disk'[a].verification = disk[a].verification
                            /\ a # attempt => disk'[a] = disk[a]
    BY <1>1, <2>1, <2>2 DEF TypeOK
  <2>4. NotYetCommitted' /\ CommittedIsProven'
    BY <2>1, <2>3 DEF ProofInv, NotYetCommitted, CommittedIsProven
  <2>5. complete_validity' => Snapshot \subseteq disk'[attempt].files
    <3>1. complete_validity' => tools = {"gds", "drc"}
      BY <2>1, <2>2 DEF complete_validity, Evidence, Source
    <3>2. disk'[attempt].files = {"script", "committed"} \cup tools
      BY <1>1, <2>1, <2>2 DEF TypeOK
    <3> QED
      BY <3>1, <3>2 DEF Snapshot
  <2> QED
    BY <2>1, <2>4, <2>5 DEF EvidenceFiled, VerdictWritten
<1>6. CASE WriteVerification
  <2>1. attempt \in Attempts /\ stage = "verification"
        /\ UNCHANGED <<claim, attempt, validity, failure, score>>
        /\ stage' = "transaction"
    BY <1>1, <1>6 DEF WriteVerification, TypeOK, ledger, memory
  <2>2. \A a \in Attempts : /\ disk'[a].transaction = disk[a].transaction
                            /\ disk'[a].files = disk[a].files
                            /\ a # attempt => disk'[a] = disk[a]
    BY <1>1, <1>6, <2>1 DEF TypeOK, WriteVerification
  <2>3. disk'[attempt].verification = IF complete_validity /\ outcome = "SUCCESS"
                                      THEN "proven" ELSE "unproven"
    BY <1>1, <1>6, <2>1 DEF TypeOK, WriteVerification
  <2>4. complete_validity' = complete_validity /\ outcome' = outcome
    BY <2>1 DEF complete_validity, outcome
  <2> QED
    BY <2>1, <2>2, <2>3, <2>4
       DEF ProofInv, CommittedIsProven, NotYetCommitted, EvidenceFiled,
           VerdictWritten, Working, Publishing
<1>7. CASE WriteTransaction
  <2>1. attempt \in Attempts /\ stage = "transaction" /\ UNCHANGED claim
        /\ stage' = "pointer"
    BY <1>1, <1>7 DEF WriteTransaction, TypeOK, ledger
  <2>2. \A a \in Attempts : /\ disk'[a].verification = disk[a].verification
                            /\ disk'[a].files = disk[a].files
                            /\ a # attempt => disk'[a] = disk[a]
    BY <1>1, <1>7, <2>1 DEF TypeOK, WriteTransaction
  <2>3. disk'[attempt].transaction = transaction_status
    BY <1>1, <1>7, <2>1 DEF TypeOK, WriteTransaction
  <2>4. transaction_status = "COMMITTED" => complete_validity /\ outcome = "SUCCESS"
    BY DEF transaction_status, evaluate_acceptance
  <2> QED
    BY <2>1, <2>2, <2>3, <2>4
       DEF ProofInv, CommittedIsProven, NotYetCommitted, EvidenceFiled,
           VerdictWritten, Working, Publishing
<1>8. CASE Collect
  <2>1. attempt \in Attempts /\ UNCHANGED claim /\ stage' = "cleanup"
    BY <1>1, <1>8 DEF Collect, TypeOK, ledger
  <2>2. \A a \in Attempts : /\ disk'[a].verification = disk[a].verification
                            /\ disk'[a].files = disk[a].files
                            /\ disk'[a].transaction = disk[a].transaction
    BY <1>1, <1>8, <2>1 DEF TypeOK, Collect
  <2> QED
    BY <2>1, <2>2
       DEF ProofInv, CommittedIsProven, NotYetCommitted, EvidenceFiled,
           VerdictWritten, Working, Publishing
<1> QED
  BY <1>2, <1>3, <1>4, <1>5, <1>6, <1>7, <1>8, ProofToolStep, ProofCallStep
     DEF Next

(* A durable COMMITTED transaction always has a complete verification with a
   SUCCESS outcome and every file of its snapshot next to it, whatever the
   acceptance configuration, the tools and the crashes (execute,
   evaluate_acceptance). *)
THEOREM CommitsProven == Spec => []CommittedIsProven
<1>1. ProofInv => CommittedIsProven
  BY DEF ProofInv
<1> QED
  BY <1>1, ProofInit, ProofStep, PTL DEF Spec

-----------------------------------------------------------------------------
(* The ledger. *)

(* An attempt whose terminal record was written, or lost, is off the books. *)
Settled(a) ==
  /\ claim[a] = "finished"
  /\ a \in lost <=> Len(index[a].terminals) = 0

Blank(a) == index[a].terminals = <<>> /\ a \notin lost

(* The active ledger: nothing recorded while its terminal is to come, settled
   once it is written; a retried attempt is settled; so is every attempt of a
   call that ended. *)
LedgerKept ==
  /\ \A a \in Attempts : Len(index[a].terminals) <= 1
  /\ \A a \in Attempts : claim[a] = "none" => Blank(a)
  /\ stage # "idle" /\ attempt # 0 /\ ~written => Blank(attempt)
  /\ stage # "idle" /\ attempt # 0 /\ written => Settled(attempt)
  /\ retryOf # 0 /\ (stage # "idle" \/ Ended) => Settled(retryOf)
  /\ stage # "idle" /\ retryOf # 0 => attempt # 0
  /\ retryOf # 0 => claim[retryOf] # "none"
  /\ stage = "claim" => (attempt = 0 \/ written)
  /\ Ended /\ attempt # 0 => Settled(attempt)

LedgerInv == TypeOK /\ LedgerKept

LEMMA LedgerInit == Init => LedgerInv
<1> SUFFICES ASSUME Init PROVE LedgerInv
  OBVIOUS
<1>1. TypeOK
  BY TypeInit
<1>2. \A a \in Attempts : index[a].terminals = <<>> /\ Len(index[a].terminals) = 0
  BY DEF Init, NoAttempt
<1> QED
  BY <1>1, <1>2 DEF Init, LedgerInv, LedgerKept, Ended, Blank

(* Inside a call, a step that leaves the ledger alone. *)
LEMMA LedgerQuietStep ==
  ASSUME LedgerInv, stage # "idle", stage' \notin {"idle", "claim"},
         UNCHANGED ledger
  PROVE  LedgerKept'
BY DEF LedgerInv, LedgerKept, Blank, Settled, Ended, ledger

LEMMA LedgerToolStep ==
  ASSUME LedgerInv,
         \/ Prepare \/ Ready \/ ApplyPatch \/ PatchFailed
         \/ \E e \in Evidence : ToolFails(e)
         \/ ValidateScript \/ GenerateLayout \/ RunDrc \/ ValidateReport
         \/ ConvertReport \/ Sanity \/ Connectivity
         \/ Persist \/ WriteVerification \/ WriteTransaction \/ WritePointer
         \/ AliasSnapshots \/ AliasRecords \/ Collect \/ Cleanup
         \/ ToolUnusable \/ Raise
  PROVE  LedgerKept'
<1>1. stage # "idle" /\ stage' \notin {"idle", "claim"} /\ UNCHANGED ledger
  <2>1. CASE Prepare \/ Ready \/ ApplyPatch \/ PatchFailed
    BY <2>1 DEF Prepare, Ready, ApplyPatch, PatchFailed
  <2>2. ASSUME NEW e \in Evidence, ToolFails(e)
        PROVE  stage # "idle" /\ stage' \notin {"idle", "claim"} /\ UNCHANGED ledger
    BY <2>2 DEF ToolFails, Fail, Evidence
  <2>3. CASE ValidateScript \/ GenerateLayout \/ RunDrc \/ ValidateReport
    BY <2>3 DEF ValidateScript, GenerateLayout, RunDrc, ValidateReport, Pass, Fail
  <2>4. CASE ConvertReport \/ Sanity \/ Connectivity
    BY <2>4 DEF ConvertReport, Sanity, Connectivity, Fail
  <2>5. CASE Persist \/ WriteVerification \/ WriteTransaction \/ WritePointer
    BY <2>5 DEF Persist, WriteVerification, WriteTransaction, WritePointer
  <2>6. CASE AliasSnapshots \/ AliasRecords \/ Collect \/ Cleanup
    BY <2>6 DEF AliasSnapshots, AliasRecords, Collect, Cleanup
  <2>7. CASE ToolUnusable \/ Raise
    BY <2>7 DEF ToolUnusable, Raise
  <2> QED
    BY <2>1, <2>2, <2>3, <2>4, <2>5, <2>6, <2>7
<1> QED
  BY <1>1, LedgerQuietStep

(* A terminal record settles the attempt of a running call and leaves the
   others as they were; a second one changes nothing. *)
LEMMA TerminalSettles ==
  ASSUME LedgerInv, stage # "idle", attempt # 0,
         NEW status \in Terminals, Terminal(status)
  PROVE  /\ written'
         /\ claim'[attempt] = "finished"
         /\ Len(index'[attempt].terminals) <= 1
         /\ attempt \in lost' <=> Len(index'[attempt].terminals) = 0
         /\ \A a \in Attempts : a # attempt => /\ claim'[a] = claim[a]
                                               /\ index'[a] = index[a]
                                               /\ a \in lost' <=> a \in lost
<1>1. attempt \in Attempts
  BY DEF LedgerInv, TypeOK
<1>2. CASE written
  BY <1>1, <1>2 DEF Terminal, LedgerInv, LedgerKept, Settled
<1>3. CASE ~written
  <2>1. index[attempt].terminals = <<>> /\ attempt \notin lost
    BY <1>3 DEF LedgerInv, LedgerKept, Blank
  <2>2. /\ written' = TRUE
        /\ claim' = [claim EXCEPT ![attempt] = "finished"]
        /\ \/ /\ index' = [index EXCEPT ![attempt].terminals = Append(@, status)]
              /\ lost' = lost
           \/ lost' = lost \cup {attempt} /\ index' = index
    BY <1>3 DEF Terminal, AppendTerminal
  <2>3. /\ claim'[attempt] = "finished"
        /\ \A a \in Attempts : a # attempt => claim'[a] = claim[a]
    BY <1>1, <2>2 DEF LedgerInv, TypeOK
  <2>4. CASE /\ index' = [index EXCEPT ![attempt].terminals = Append(@, status)]
             /\ lost' = lost
    <3>1. index'[attempt].terminals = Append(<<>>, status)
      BY <1>1, <2>1, <2>4 DEF LedgerInv, TypeOK
    <3>2. Len(Append(<<>>, status)) = 1
      OBVIOUS
    <3>3. \A a \in Attempts : a # attempt => index'[a] = index[a]
      BY <2>4 DEF LedgerInv, TypeOK
    <3>4. Len(index'[attempt].terminals) = 1
      BY <3>1, <3>2
    <3> QED
      BY <2>1, <2>2, <2>3, <2>4, <3>3, <3>4
  <2>5. CASE lost' = lost \cup {attempt} /\ index' = index
    <3>1. Len(index'[attempt].terminals) = 0
      BY <2>1, <2>5
    <3> QED
      BY <2>2, <2>3, <2>5, <3>1
  <2> QED
    BY <2>2, <2>4, <2>5
<1> QED
  BY <1>2, <1>3

(* After a terminal record, however the step goes on. *)
LEMMA LedgerTerminalStep ==
  ASSUME LedgerInv, stage # "idle", attempt # 0,
         NEW status \in Terminals, Terminal(status),
         attempt' = attempt, retryOf' \in {retryOf, attempt}
  PROVE  LedgerKept'
<1>1. attempt \in Attempts /\ retryOf \in Attempts \cup {0}
  BY DEF LedgerInv, TypeOK
<1>2. /\ written'
      /\ claim'[attempt] = "finished"
      /\ Len(index'[attempt].terminals) <= 1
      /\ attempt \in lost' <=> Len(index'[attempt].terminals) = 0
      /\ \A a \in Attempts : a # attempt => /\ claim'[a] = claim[a]
                                            /\ index'[a] = index[a]
                                            /\ a \in lost' <=> a \in lost
  BY TerminalSettles
<1>3. Settled(attempt)'
  BY <1>2 DEF Settled
<1>4. retryOf # 0 => Settled(retryOf)
  BY DEF LedgerInv, LedgerKept
<1>5. \A a \in Attempts : Settled(a) => Settled(a)'
  BY <1>2, <1>3 DEF Settled
<1>6. retryOf' # 0 => Settled(retryOf)'
  BY <1>1, <1>3, <1>4, <1>5
<1>7. \A a \in Attempts : Len(index'[a].terminals) <= 1
  BY <1>2 DEF LedgerInv, LedgerKept
<1>8. \A a \in Attempts : claim'[a] = "none" => Blank(a)'
  BY <1>2 DEF LedgerInv, LedgerKept, Blank
<1> QED
  BY <1>1, <1>2, <1>3, <1>6, <1>7, <1>8 DEF LedgerKept, Settled

LEMMA LedgerStep == LedgerInv /\ [Next]_vars => LedgerInv'
<1> SUFFICES ASSUME LedgerInv, [Next]_vars PROVE LedgerInv'
  OBVIOUS
<1>1. TypeOK /\ TypeOK'
  BY TypeStep DEF LedgerInv
<1> SUFFICES LedgerKept'
  BY <1>1 DEF LedgerInv
<1>2. CASE UNCHANGED vars
  BY <1>2 DEF vars, ledger, LedgerInv, LedgerKept, Blank, Settled, Ended
<1>3. CASE NewCall
  BY <1>3 DEF NewCall, LedgerInv, LedgerKept, Blank, Ended
<1>4. CASE Claim
  <2>1. PICK a \in Attempts : claim[a] = "none" /\ attempt' = a
                              /\ claim' = [claim EXCEPT ![a] = "held"]
    BY <1>4 DEF Claim
  <2>2. /\ stage = "claim" /\ stage' = "register" /\ written' = FALSE
        /\ UNCHANGED <<retryOf, index, lost>>
    BY <1>4 DEF Claim
  <2>3. \A b \in Attempts \ {a} : claim'[b] = claim[b]
    BY <1>1, <2>1 DEF TypeOK
  <2>4. retryOf # 0 => retryOf \in Attempts \ {a}
    BY <1>1, <2>1 DEF TypeOK, LedgerInv, LedgerKept
  <2>5. claim'[a] = "held" /\ a # 0
    BY <1>1, <2>1, AttemptsType DEF TypeOK
  <2>6. retryOf # 0 => Settled(retryOf)'
    BY <2>2, <2>3, <2>4 DEF LedgerInv, LedgerKept, Settled
  <2> QED
    BY <2>1, <2>2, <2>3, <2>4, <2>5, <2>6 DEF LedgerInv, LedgerKept, Blank, Ended, Settled
<1>5. CASE Register
  <2>1. attempt \in Attempts /\ stage = "register" /\ stage' = "prepare"
        /\ UNCHANGED <<attempt, retryOf, written, lost, claim>>
    BY <1>1, <1>5 DEF Register, TypeOK
  <2>2. \A a \in Attempts : index'[a].terminals = index[a].terminals
    BY <1>1, <1>5 DEF Register, TypeOK
  <2> QED
    BY <1>1, <2>1, <2>2 DEF LedgerInv, LedgerKept, Blank, Ended, Settled, TypeOK
<1>6. CASE PrepareFailed
  <2>1. /\ stage # "idle" /\ attempt # 0 /\ attempt' = attempt
        /\ retryOf' \in {retryOf, attempt}
        /\ Terminal("EXECUTION_FAILURE")
    BY <1>1, <1>6 DEF PrepareFailed, TypeOK
  <2> QED
    BY <2>1, LedgerTerminalStep DEF Terminals
<1>7. CASE Finish
  <2>1. /\ stage # "idle" /\ attempt # 0 /\ attempt' = attempt
        /\ retryOf' = retryOf
        /\ Terminal(terminal_status)
    BY <1>1, <1>7 DEF Finish, TypeOK
  <2> QED
    BY <2>1, LedgerTerminalStep, VerdictType
<1>8. CASE Unwind
  <2>1. /\ stage # "idle" /\ attempt' = attempt /\ retryOf' = retryOf
        /\ stage' = "idle"
    BY <1>8 DEF Unwind, Leave
  <2>2. CASE attempt = 0
    <3>1. UNCHANGED <<index, lost, claim, written>> /\ retryOf = 0
      BY <1>8, <2>1, <2>2 DEF Unwind, LedgerInv, LedgerKept
    <3> QED
      BY <2>1, <2>2, <3>1 DEF LedgerInv, LedgerKept, Blank
  <2>3. CASE attempt # 0
    BY <1>8, <2>1, <2>3, LedgerTerminalStep DEF Unwind, Terminals
  <2> QED
    BY <2>2, <2>3
<1>9. CASE Kill
  <2>1. stage' = "idle" /\ result' = "killed" /\ UNCHANGED ledger
    BY <1>9 DEF Kill, Leave
  <2> QED
    BY <2>1 DEF LedgerInv, LedgerKept, Blank, Ended, ledger
<1> QED
  BY <1>2, <1>3, <1>4, <1>5, <1>6, <1>7, <1>8, <1>9, LedgerToolStep DEF Next

(* Every call that ends has given back the reservation of each of its attempts,
   whatever is lost while the terminal records are written
   (_AttemptLedger.terminal, _account_physical_attempts). *)
THEOREM ReservationsReturned == Spec => []ClaimsSettled
<1>1. LedgerInv => ClaimsSettled
  BY DEF LedgerInv, LedgerKept, ClaimsSettled, Own, Settled, TypeOK, Ended
<1> QED
  BY <1>1, LedgerInit, LedgerStep, PTL DEF Spec

(* Every attempt of a call that ends has exactly one terminal record, or the
   append of it failed; and no attempt ever has two
   (_account_physical_attempts). *)
THEOREM AttemptsAccounted == Spec => []Accounted
<1>1. LedgerInv => Accounted
  BY DEF LedgerInv, LedgerKept, Accounted, Own, Settled, TypeOK, Ended
<1> QED
  BY <1>1, LedgerInit, LedgerStep, PTL DEF Spec

-----------------------------------------------------------------------------
(* Retries.  The attempt a call is about to retry failed durably and was not a
   retry; the attempt it works on is named by no other, since nothing is
   recorded for it yet. *)

Running == Stages \ {"idle", "claim", "register", "unwind", "interrupted"}

FailedFirst(a) == /\ index[a].terminals = <<"EXECUTION_FAILURE">>
                  /\ index[a].retryOf = 0

RetryKept ==
  /\ RetryAfterFailure
  /\ \A a \in Attempts : claim[a] = "none" => index[a].retryOf = 0
  /\ stage \in Running \cup {"register"} => ~written
  /\ stage \in {"claim", "register"} /\ retryOf # 0 => FailedFirst(retryOf)
  /\ stage = "register" => /\ index[attempt].retryOf = 0 /\ retryOf # attempt
                           /\ claim[attempt] # "none"
  /\ stage \in Running => index[attempt].retryOf = retryOf

RetryInv == LedgerInv /\ RetryKept

LEMMA RetryInit == Init => RetryInv
<1> SUFFICES ASSUME Init PROVE RetryInv
  OBVIOUS
<1>1. \A a \in Attempts : index[a].retryOf = 0
  BY DEF Init, NoAttempt
<1>2. stage = "idle"
  BY DEF Init
<1> QED
  BY <1>1, <1>2, LedgerInit DEF RetryInv, RetryKept, RetryAfterFailure, Running

(* The steps between registration and the terminal record. *)
LEMMA RunningStep ==
  ASSUME \/ Prepare \/ Ready \/ ApplyPatch \/ PatchFailed
         \/ \E e \in Evidence : ToolFails(e)
         \/ ValidateScript \/ GenerateLayout \/ RunDrc \/ ValidateReport
         \/ ConvertReport \/ Sanity \/ Connectivity
         \/ Persist \/ WriteVerification \/ WriteTransaction \/ WritePointer
         \/ AliasSnapshots \/ AliasRecords \/ Collect \/ Cleanup
         \/ ToolUnusable \/ Raise
  PROVE  /\ UNCHANGED ledger
         /\ \/ stage \in Running /\ stage' \in Running
            \/ stage' \in {"unwind", "interrupted"}
<1> USE DEF Running, Stages
<1> DEFINE Goal == /\ UNCHANGED ledger
                   /\ \/ stage \in Running /\ stage' \in Running
                      \/ stage' \in {"unwind", "interrupted"}
<1>1. CASE Prepare \/ Ready \/ ApplyPatch \/ PatchFailed
  BY <1>1 DEF Prepare, Ready, ApplyPatch, PatchFailed
<1>2. ASSUME NEW e \in Evidence, ToolFails(e) PROVE Goal
  BY <1>2 DEF ToolFails, Fail, Evidence
<1>3. CASE ValidateScript \/ GenerateLayout \/ RunDrc \/ ValidateReport
  BY <1>3 DEF ValidateScript, GenerateLayout, RunDrc, ValidateReport, Pass, Fail
<1>4. CASE ConvertReport \/ Sanity \/ Connectivity
  BY <1>4 DEF ConvertReport, Sanity, Connectivity, Fail
<1>5. CASE Persist \/ WriteVerification \/ WriteTransaction \/ WritePointer
  BY <1>5 DEF Persist, WriteVerification, WriteTransaction, WritePointer
<1>6. CASE AliasSnapshots \/ AliasRecords \/ Collect \/ Cleanup
  BY <1>6 DEF AliasSnapshots, AliasRecords, Collect, Cleanup
<1>7. CASE ToolUnusable \/ Raise
  BY <1>7 DEF ToolUnusable, Raise
<1> QED
  BY <1>1, <1>2, <1>3, <1>4, <1>5, <1>6, <1>7

(* What the terminal record of a running attempt says when it is not lost, and
   that it keeps every attempt's place in a chain of retries. *)
LEMMA TerminalRecords ==
  ASSUME LedgerInv, stage # "idle", attempt # 0,
         NEW status \in Terminals, Terminal(status)
  PROVE  /\ \A a \in Attempts : index'[a].retryOf = index[a].retryOf
         /\ ~written /\ ~Lost => index'[attempt].terminals = <<status>>
         /\ written => index' = index
<1>1. attempt \in Attempts
  BY DEF LedgerInv, TypeOK
<1>2. CASE written
  BY <1>2 DEF Terminal
<1>3. CASE ~written
  <2>1. index[attempt].terminals = <<>> /\ attempt \notin lost
    BY <1>3 DEF LedgerInv, LedgerKept, Blank
  <2>2. \/ /\ index' = [index EXCEPT ![attempt].terminals = Append(@, status)]
           /\ lost' = lost
        \/ lost' = lost \cup {attempt} /\ index' = index
    BY <1>3 DEF Terminal, AppendTerminal
  <2>3. CASE /\ index' = [index EXCEPT ![attempt].terminals = Append(@, status)]
             /\ lost' = lost
    <3>1. index'[attempt].terminals = Append(<<>>, status)
      BY <1>1, <2>1, <2>3 DEF LedgerInv, TypeOK
    <3>2. Append(<<>>, status) = <<status>>
      OBVIOUS
    <3>3. \A a \in Attempts : index'[a].retryOf = index[a].retryOf
      BY <1>1, <2>3 DEF LedgerInv, TypeOK
    <3> QED
      BY <1>3, <3>1, <3>2, <3>3
  <2>4. CASE lost' = lost \cup {attempt} /\ index' = index
    BY <1>3, <2>1, <2>4 DEF Lost
  <2> QED
    BY <2>2, <2>3, <2>4
<1> QED
  BY <1>2, <1>3

LEMMA RetryTerminalStep ==
  ASSUME RetryInv, stage # "idle", attempt # 0,
         NEW status \in Terminals, Terminal(status)
  PROVE  /\ RetryAfterFailure'
         /\ \A a \in Attempts : claim'[a] = "none" => index'[a].retryOf = 0
<1>1. attempt \in Attempts /\ LedgerInv
  BY DEF RetryInv, LedgerInv, TypeOK
<1>2. \A a \in Attempts : index'[a].retryOf = index[a].retryOf
  BY <1>1, TerminalRecords
<1>3. /\ claim'[attempt] = "finished"
      /\ \A a \in Attempts : a # attempt => /\ claim'[a] = claim[a]
                                            /\ index'[a] = index[a]
  BY <1>1, TerminalSettles
<1>4. ASSUME NEW a \in Attempts, index[a].retryOf # 0
      PROVE  index'[index[a].retryOf] = index[index[a].retryOf]
  <2>1. index[a].retryOf \in Attempts
    BY <1>1, <1>4 DEF LedgerInv, TypeOK
  <2>2. index[index[a].retryOf].terminals = <<"EXECUTION_FAILURE">>
    BY <1>4 DEF RetryInv, RetryKept, RetryAfterFailure
  <2>3. CASE written
    BY <1>1, <2>3, TerminalRecords
  <2>4. CASE ~written
    <3>1. index[attempt].terminals = <<>>
      BY <1>1, <2>4 DEF LedgerInv, LedgerKept, Blank
    <3>2. index[a].retryOf # attempt
      BY <2>2, <3>1
    <3> QED
      BY <1>3, <2>1, <3>2
  <2> QED
    BY <2>3, <2>4
<1> QED
  BY <1>2, <1>3, <1>4 DEF RetryInv, RetryKept, RetryAfterFailure

LEMMA RetryStep == RetryInv /\ [Next]_vars => RetryInv'
<1> SUFFICES ASSUME RetryInv, [Next]_vars PROVE RetryInv'
  OBVIOUS
<1>1. LedgerInv /\ LedgerInv' /\ TypeOK /\ RetryKept
  BY LedgerStep DEF RetryInv, LedgerInv
<1> SUFFICES RetryKept'
  BY <1>1 DEF RetryInv
<1>2. CASE UNCHANGED vars
  BY <1>1, <1>2 DEF vars, ledger, RetryKept, RetryAfterFailure, FailedFirst
<1>3. CASE NewCall
  <2>1. stage' = "claim" /\ retryOf' = 0 /\ UNCHANGED <<index, claim>>
    BY <1>3 DEF NewCall
  <2> QED
    BY <1>1, <2>1 DEF RetryKept, RetryAfterFailure, Running
<1>4. CASE Claim
  <2>1. PICK a \in Attempts : claim[a] = "none" /\ attempt' = a
                              /\ claim' = [claim EXCEPT ![a] = "held"]
    BY <1>4 DEF Claim
  <2>2. /\ stage = "claim" /\ stage' = "register" /\ written' = FALSE
        /\ UNCHANGED <<retryOf, index>>
    BY <1>4 DEF Claim
  <2>3. /\ claim'[a] = "held"
        /\ \A b \in Attempts : claim'[b] = "none" => claim[b] = "none"
    BY <1>1, <2>1 DEF TypeOK
  <2>4. retryOf # a
    BY <1>1, <2>1, AttemptsType DEF LedgerInv, LedgerKept
  <2> QED
    BY <1>1, <2>1, <2>2, <2>3, <2>4
       DEF RetryKept, RetryAfterFailure, FailedFirst, Running
<1>5. CASE Register
  <2>1. /\ attempt \in Attempts /\ stage = "register" /\ stage' = "prepare"
        /\ UNCHANGED <<attempt, retryOf, written, lost, claim>>
    BY <1>1, <1>5 DEF Register, TypeOK
  <2>2. /\ index'[attempt].retryOf = retryOf
        /\ \A a \in Attempts : /\ index'[a].terminals = index[a].terminals
                               /\ a # attempt => index'[a] = index[a]
    BY <1>1, <1>5, <2>1 DEF Register, TypeOK
  <2>3. index[attempt].terminals = <<>>
    BY <1>1, <2>1 DEF RetryKept, LedgerInv, LedgerKept, Blank, TypeOK
  <2>4. RetryAfterFailure'
    <3> SUFFICES ASSUME NEW a \in Attempts, NEW r, r = index'[a].retryOf, r # 0
                 PROVE  /\ index'[r].terminals = <<"EXECUTION_FAILURE">>
                        /\ index'[r].retryOf = 0
      BY DEF RetryAfterFailure
    <3>1. CASE a = attempt
      <4>1. r = retryOf /\ FailedFirst(r) /\ r # attempt /\ r \in Attempts
        BY <1>1, <2>1, <2>2, <3>1 DEF RetryKept, TypeOK
      <4> QED
        BY <2>2, <4>1 DEF FailedFirst
    <3>2. CASE a # attempt
      <4>1. r = index[a].retryOf
        BY <2>2, <3>2
      <4>2. FailedFirst(r) /\ r \in Attempts
        BY <1>1, <4>1 DEF RetryKept, RetryAfterFailure, FailedFirst, TypeOK
      <4>3. r # attempt
        BY <2>3, <4>2 DEF FailedFirst
      <4> QED
        BY <2>2, <4>2, <4>3 DEF FailedFirst
    <3> QED
      BY <3>1, <3>2
  <2> QED
    BY <1>1, <2>1, <2>2, <2>4 DEF RetryKept, Running, Stages
<1>6. CASE PrepareFailed
  <2>1. /\ stage = "prepare" /\ attempt \in Attempts /\ attempt # 0
        /\ attempt' = attempt /\ Terminal("EXECUTION_FAILURE")
    BY <1>1, <1>6 DEF PrepareFailed, TypeOK
  <2>2. ~written /\ index[attempt].retryOf = retryOf
    BY <1>1, <2>1 DEF RetryKept, Running, Stages
  <2>3. /\ RetryAfterFailure'
        /\ \A a \in Attempts : claim'[a] = "none" => index'[a].retryOf = 0
    BY <2>1, RetryTerminalStep DEF Terminals
  <2>4. /\ \A a \in Attempts : index'[a].retryOf = index[a].retryOf
        /\ ~Lost => index'[attempt].terminals = <<"EXECUTION_FAILURE">>
    BY <1>1, <2>1, <2>2, TerminalRecords DEF Terminals
  <2>5. \/ stage' = "unwind"
        \/ ~Lost /\ retryOf = 0 /\ retryOf' = attempt /\ stage' = "claim"
    BY <1>6 DEF PrepareFailed
  <2>6. stage' = "claim" => FailedFirst(retryOf)'
    BY <2>1, <2>2, <2>4, <2>5 DEF FailedFirst
  <2> QED
    BY <2>3, <2>5, <2>6 DEF RetryKept, Running, FailedFirst
<1>7. CASE Finish
  <2>1. /\ stage # "idle" /\ attempt # 0 /\ Terminal(terminal_status)
        /\ stage' \in {"idle", "unwind"}
    BY <1>1, <1>7 DEF Finish, TypeOK, Leave
  <2>2. /\ RetryAfterFailure'
        /\ \A a \in Attempts : claim'[a] = "none" => index'[a].retryOf = 0
    BY <2>1, RetryTerminalStep, VerdictType
  <2> QED
    BY <2>1, <2>2 DEF RetryKept, Running
<1>8. CASE Unwind
  <2>1. stage # "idle" /\ stage' = "idle"
    BY <1>8 DEF Unwind, Leave
  <2>2. /\ RetryAfterFailure'
        /\ \A a \in Attempts : claim'[a] = "none" => index'[a].retryOf = 0
    <3>1. CASE attempt = 0
      BY <1>1, <1>8, <3>1 DEF Unwind, RetryKept, RetryAfterFailure
    <3>2. CASE attempt # 0
      BY <1>8, <2>1, <3>2, RetryTerminalStep DEF Unwind, Terminals
    <3> QED
      BY <3>1, <3>2
  <2> QED
    BY <2>1, <2>2 DEF RetryKept, Running
<1>9. CASE Kill
  <2>1. stage' = "idle" /\ UNCHANGED ledger
    BY <1>9 DEF Kill, Leave
  <2> QED
    BY <1>1, <2>1 DEF RetryKept, RetryAfterFailure, Running, ledger
<1>10. ASSUME UNCHANGED ledger,
              \/ stage \in Running /\ stage' \in Running
              \/ stage' \in {"unwind", "interrupted"}
       PROVE  RetryKept'
  BY <1>1, <1>10 DEF RetryKept, RetryAfterFailure, Running, ledger
<1> QED
  BY <1>2, <1>3, <1>4, <1>5, <1>6, <1>7, <1>8, <1>9, <1>10, RunningStep DEF Next

(* A retry is only ever registered for an attempt whose EXECUTION_FAILURE is on
   disk, and that was not a retry itself, whatever is lost, raised or killed in
   between (the prepare loop of execute). *)
THEOREM RetriesFollowFailures == Spec => []RetryAfterFailure
<1>1. RetryInv => RetryAfterFailure
  BY DEF RetryInv, RetryKept
<1> QED
  BY <1>1, RetryInit, RetryStep, PTL DEF Spec

-----------------------------------------------------------------------------
(* Returns.  The verdict is computed three times from the evidence in memory:
   for transaction.json, for the terminal record and for the caller.  They agree
   because nothing between them touches that evidence. *)

Judged == {"pointer", "alias_snapshots", "alias_records", "collect", "cleanup",
           "finish"}

ReturnKept ==
  /\ ReturnMatchesRecords
  /\ EvidenceOutlivesWorkspace
  /\ stage \in Judged => disk[attempt].transaction = transaction_status
  /\ stage \in {"cleanup", "finish"} => disk[attempt].collected

ReturnInv == RetryInv /\ ReturnKept

LEMMA ReturnInit == Init => ReturnInv
<1> SUFFICES ASSUME Init PROVE ReturnInv
  OBVIOUS
<1>1. stage = "idle" /\ result = "running"
  BY DEF Init
<1>2. \A a \in Attempts : workspace[a] = "none"
  BY DEF Init
<1> QED
  BY <1>1, <1>2, RetryInit
     DEF ReturnInv, ReturnKept, ReturnMatchesRecords, EvidenceOutlivesWorkspace,
         Judged

LEMMA SameVerdict ==
  ASSUME UNCHANGED <<validity, failure, score>>
  PROVE  /\ transaction_status' = transaction_status
         /\ terminal_status' = terminal_status
         /\ evaluate_acceptance' = evaluate_acceptance
BY DEF transaction_status, terminal_status, evaluate_acceptance, outcome,
       complete_validity

(* The three forms of one verdict. *)
LEMMA VerdictsAgree ==
  /\ transaction_status = "COMMITTED" <=> evaluate_acceptance
  /\ transaction_status = "COMMITTED" => terminal_status = "EVALUATED"
  /\ transaction_status = "CANCELLED" <=> terminal_status = "CANCELLED"
BY DEF transaction_status, terminal_status, evaluate_acceptance, outcome

(* A step outside Judged that does not return. *)
LEMMA UnjudgedStep ==
  ASSUME ReturnKept, stage' \notin Judged,
         stage' # "idle" \/ result' \in {"raised", "killed"},
         \A a \in Attempts : /\ disk'[a].collected = disk[a].collected
                             /\ workspace'[a] = "removed" => workspace[a] = "removed"
  PROVE  ReturnKept'
BY DEF ReturnKept, ReturnMatchesRecords, EvidenceOutlivesWorkspace, Judged

LEMMA ReturnCallStep ==
  ASSUME TypeOK, ReturnKept,
         \/ NewCall \/ Claim \/ Register \/ Prepare \/ PrepareFailed \/ Ready
         \/ ApplyPatch \/ PatchFailed
         \/ \E e \in Evidence : ToolFails(e)
         \/ ValidateScript \/ GenerateLayout \/ RunDrc \/ ValidateReport
         \/ ConvertReport \/ Sanity \/ Connectivity
         \/ Persist \/ WriteVerification
         \/ ToolUnusable \/ Raise \/ Unwind \/ Kill
  PROVE  ReturnKept'
<1> USE DEF Judged, storage
<1>1. CASE NewCall \/ Claim \/ Register \/ PrepareFailed \/ Ready \/ ApplyPatch
  <2>1. /\ stage' \notin Judged \cup {"idle"}
        /\ UNCHANGED <<disk, workspace>>
    BY <1>1 DEF NewCall, Claim, Register, PrepareFailed, Ready, ApplyPatch
  <2> QED
    BY <2>1, UnjudgedStep
<1>2. CASE Prepare
  <2>1. \A a \in Attempts : workspace'[a] = "removed" => workspace[a] = "removed"
    BY <1>2 DEF Prepare, TypeOK
  <2> QED
    BY <1>2, <2>1, UnjudgedStep DEF Prepare
<1>3. CASE PatchFailed \/ Persist \/ WriteVerification
  <2>1. \A a \in Attempts : disk'[a].collected = disk[a].collected
    <3>1. CASE PatchFailed
      BY <3>1 DEF PatchFailed, TypeOK
    <3>2. CASE Persist
      <4>1. PICK files : disk' = [disk EXCEPT ![attempt].files = files]
        BY <3>2 DEF Persist
      <4> QED
        BY <4>1 DEF TypeOK
    <3>3. CASE WriteVerification
      BY <3>3 DEF WriteVerification, TypeOK
    <3> QED
      BY <1>3, <3>1, <3>2, <3>3
  <2>2. UNCHANGED workspace /\ stage' \in {"unwind", "verification", "transaction"}
    BY <1>3 DEF PatchFailed, Persist, WriteVerification
  <2> QED
    BY <2>1, <2>2, UnjudgedStep
<1>4. ASSUME NEW e \in Evidence, ToolFails(e) PROVE ReturnKept'
  BY <1>4, UnjudgedStep DEF ToolFails, Fail
<1>5. CASE ValidateScript \/ GenerateLayout \/ RunDrc \/ ValidateReport
  BY <1>5, UnjudgedStep
     DEF ValidateScript, GenerateLayout, RunDrc, ValidateReport, Pass, Fail
<1>6. CASE ConvertReport \/ Sanity \/ Connectivity
  BY <1>6, UnjudgedStep DEF ConvertReport, Sanity, Connectivity, Fail
<1>7. CASE ToolUnusable \/ Raise
  BY <1>7, UnjudgedStep DEF ToolUnusable, Raise
<1>8. CASE Unwind \/ Kill
  BY <1>8, UnjudgedStep DEF Unwind, Kill, Leave
<1> QED
  BY <1>1, <1>2, <1>3, <1>4, <1>5, <1>6, <1>7, <1>8

LEMMA ReturnStep == ReturnInv /\ [Next]_vars => ReturnInv'
<1> SUFFICES ASSUME ReturnInv, [Next]_vars PROVE ReturnInv'
  OBVIOUS
<1>1. /\ RetryInv /\ RetryInv' /\ LedgerInv /\ TypeOK
      /\ ReturnKept
  BY RetryStep DEF ReturnInv, RetryInv, LedgerInv
<1> SUFFICES ReturnKept'
  BY <1>1 DEF ReturnInv
<1> USE DEF Judged
<1>2. CASE UNCHANGED vars
  <2>1. UNCHANGED <<stage, result, attempt, index, disk, workspace,
                    validity, failure, score>>
    BY <1>2 DEF vars, ledger, memory, storage
  <2> QED
    BY <1>1, <2>1, SameVerdict
       DEF ReturnKept, ReturnMatchesRecords, EvidenceOutlivesWorkspace
<1>3. CASE WriteTransaction
  <2>1. /\ attempt \in Attempts /\ stage' = "pointer"
        /\ UNCHANGED <<attempt, workspace, validity, failure, score>>
    BY <1>1, <1>3 DEF WriteTransaction, TypeOK, ledger, memory
  <2>2. /\ disk'[attempt].transaction = transaction_status
        /\ \A a \in Attempts : disk'[a].collected = disk[a].collected
    BY <1>1, <1>3, <2>1 DEF WriteTransaction, TypeOK
  <2> QED
    BY <1>1, <2>1, <2>2, SameVerdict
       DEF ReturnKept, ReturnMatchesRecords, EvidenceOutlivesWorkspace
<1>4. CASE WritePointer \/ AliasSnapshots \/ AliasRecords
  <2>1. /\ stage \in Judged
        /\ stage' \in {"alias_snapshots", "alias_records", "collect"}
        /\ UNCHANGED <<attempt, disk, workspace, validity, failure, score>>
    BY <1>4 DEF WritePointer, AliasSnapshots, AliasRecords, ledger, memory
  <2> QED
    BY <1>1, <2>1, SameVerdict
       DEF ReturnKept, ReturnMatchesRecords, EvidenceOutlivesWorkspace
<1>5. CASE Collect
  <2>1. /\ attempt \in Attempts /\ stage = "collect" /\ stage' = "cleanup"
        /\ UNCHANGED <<attempt, workspace, validity, failure, score>>
    BY <1>1, <1>5 DEF Collect, TypeOK, ledger, memory
  <2>2. /\ disk'[attempt].collected
        /\ \A a \in Attempts : /\ disk'[a].transaction = disk[a].transaction
                               /\ disk[a].collected => disk'[a].collected
    BY <1>1, <1>5, <2>1 DEF Collect, TypeOK
  <2> QED
    BY <1>1, <2>1, <2>2, SameVerdict
       DEF ReturnKept, ReturnMatchesRecords, EvidenceOutlivesWorkspace
<1>6. CASE Cleanup
  <2>1. /\ attempt \in Attempts /\ stage = "cleanup" /\ stage' = "finish"
        /\ UNCHANGED <<attempt, disk, validity, failure, score>>
    BY <1>1, <1>6 DEF Cleanup, TypeOK, ledger, memory
  <2>2. \A a \in Attempts : a # attempt => workspace'[a] = workspace[a]
    BY <1>1, <1>6, <2>1 DEF Cleanup, TypeOK
  <2> QED
    BY <1>1, <2>1, <2>2, SameVerdict
       DEF ReturnKept, ReturnMatchesRecords, EvidenceOutlivesWorkspace
<1>7. CASE Finish
  <2>1. /\ stage = "finish" /\ attempt # 0 /\ attempt \in Attempts
        /\ Terminal(terminal_status)
        /\ UNCHANGED <<attempt, disk, workspace>>
    BY <1>1, <1>7 DEF Finish, TypeOK, storage
  <2>2. CASE Lost
    BY <1>1, <1>7, <2>1, <2>2, UnjudgedStep DEF Finish
  <2>3. CASE ~Lost
    <3>1. Leave(IF evaluate_acceptance THEN "accepted" ELSE "rejected")
      BY <1>7, <2>3 DEF Finish
    <3>2. /\ stage' = "idle"
          /\ result' \in {"accepted", "rejected"}
          /\ result' = "accepted" <=> evaluate_acceptance
      BY <3>1 DEF Leave
    <3>3. ~written
      BY <1>1, <2>1 DEF RetryInv, RetryKept, Running, Stages
    <3>4. index'[attempt].terminals = <<terminal_status>>
      BY <1>1, <2>1, <2>3, <3>3, TerminalRecords, VerdictType
    <3>5. /\ disk[attempt].transaction = transaction_status
          /\ disk[attempt].collected
      BY <1>1, <2>1 DEF ReturnKept
    <3>6. ReturnMatchesRecords'
      <4>1. /\ result' = "accepted" <=> disk'[attempt'].transaction = "COMMITTED"
            /\ disk'[attempt'].collected
        BY <2>1, <3>2, <3>5, VerdictsAgree
      <4>2. /\ disk'[attempt'].transaction = transaction_status
            /\ index'[attempt'].terminals = <<terminal_status>>
        BY <2>1, <3>4, <3>5
      <4>3. <<terminal_status>> = <<"CANCELLED">> <=> terminal_status = "CANCELLED"
        OBVIOUS
      <4> QED
        BY <4>1, <4>2, <4>3, VerdictsAgree DEF ReturnMatchesRecords
    <3> QED
      BY <1>1, <2>1, <3>2, <3>6 DEF ReturnKept, EvidenceOutlivesWorkspace
  <2> QED
    BY <2>2, <2>3
<1> QED
  BY <1>1, <1>2, <1>3, <1>4, <1>5, <1>6, <1>7, ReturnCallStep DEF Next

(* What a normal return tells the caller, what transaction.json says and what
   attempt_index says are one verdict, and the tool evidence it rests on was
   collected before its workspace went (execute, collect_results). *)
THEOREM ReturnsEvidenced == Spec => []ReturnIsEvidenced
<1>1. ReturnInv => ReturnIsEvidenced
  BY DEF ReturnInv, ReturnKept, ReturnIsEvidenced
<1> QED
  BY <1>1, ReturnInit, ReturnStep, PTL DEF Spec
===============================================================================
