----------------------------- MODULE Continuation -----------------------------
(***************************************************************************)
(* Who may execute a run, and how far (workflow/runtime.py: run, resume,   *)
(* _resume_p5, _resume_legacy, initialize_case, _finalize_aborted).        *)
(*                                                                         *)
(* A run starts under an execution envelope.  More iterations, or a larger *)
(* budget, are authorized by a record appended to                          *)
(* continuation/records.jsonl; the manifest counts the records it has seen *)
(* in its segment index.  The two files are written at different times by  *)
(* commands that may be killed in between or run at the same time.         *)
(*                                                                         *)
(* The windows of an iteration only appear as checkpoints that may move    *)
(* the snapshot (RunLifecycle has their detail).  One budget stands for    *)
(* the three budget fields of an envelope.  An optional value is a set of  *)
(* at most one element.                                                    *)
(***************************************************************************)
EXTENDS Integers, Sequences, FiniteSets

CONSTANTS
  Commands,       \* `resume` command lines, each started at most once
  Requests,       \* the amendments they may ask for
  InitialEnvelope,\* execution_envelope(original_config)
  MaxSnapshot,    \* bound: snapshots committed after the baseline
  MaxStops,       \* bound: processes stopped or killed
  first           \* the process of `run`

Envelopes == [iterations: Nat \ {0}, budget: Nat \ {0}]

ASSUME ContinuationAssumption ==
  /\ first \notin Commands
  /\ InitialEnvelope \in Envelopes
  /\ Requests \subseteq [nonce: STRING, iterations: SUBSET Nat, budget: SUBSET Nat,
                         verify_only: BOOLEAN]
  /\ {MaxSnapshot, MaxStops} \subseteq Nat

VARIABLES
  strict,      \* the manifest carries protocol p5-iteration-extension-v1
  installed,   \* code, configuration, image, evaluator and inputs in place
  owner,       \* who holds continuation_lock
  pc,          \* where each process is
  request,     \* what its command line asks for
  mem,         \* its copy of the manifest: session.manifest once it executes
  work,        \* its session: completed iterations and current snapshot
  epoch,       \* its session.execution_epoch
  manifest,    \* manifest.json
  journal,     \* continuation/records.jsonl
  checkpoint,  \* latest safe checkpoint
  stops        \* processes stopped so far

disk == <<manifest, journal, checkpoint>>
vars == <<strict, installed, owner, pc, request, mem, work, epoch, disk, stops>>

Processes == Commands \cup {first}

Executing == {p \in Processes : pc[p] \in {"initialize", "iterating", "checking"}}

-----------------------------------------------------------------------------
(* Envelopes, records and requests. *)

authorized_envelope(records) ==
  IF records = <<>> THEN InitialEnvelope ELSE records[Len(records)].new

Requested(r) == r.iterations \cup r.budget # {}

requested_envelope(r, current) ==
  [iterations |-> IF r.iterations = {} THEN current.iterations
                  ELSE CHOOSE n \in r.iterations : TRUE,
   budget |-> IF r.budget = {} THEN current.budget
              ELSE CHOOSE n \in r.budget : TRUE]

existing_record(r) ==
  {k \in DOMAIN journal : Requested(r) /\ journal[k].nonce = r.nonce}

(* ContinuationRecord.validate_hashes_and_extension: what appending a     *)
(* record, and every later reading of the journal, insists on.            *)
RecordValid(rec) ==
  /\ rec.new # rec.old
  /\ rec.new.iterations >= rec.old.iterations /\ rec.new.budget >= rec.old.budget
  /\ IF rec.new.iterations # rec.old.iterations
       THEN /\ rec.prior_status = "COMPLETED_MAX_ITERATIONS"
            /\ rec.completed = rec.old.iterations
       ELSE /\ rec.prior_status = "BUDGET_EXHAUSTED"
            /\ rec.completed < rec.old.iterations

-----------------------------------------------------------------------------
(* What _resume_p5 accepts: m is the manifest read under the lock. *)

(* Slip: a manifest must have published every record. *)
ManifestHead_exact(m) == m.segment = Len(journal)

ManifestHead(m) ==
  \/ m.segment = Len(journal)
  \/ m.segment = Len(journal) - 1 /\ m.status = "COMPLETED_MAX_ITERATIONS"

CheckpointAgrees(m) ==
  /\ checkpoint # {}
  /\ \A c \in checkpoint :
       /\ \/ m.completed = {c.completed}
          \/ m.completed = {} /\ m.status \in {"RUNNING", "INTERRUPTED"}
       /\ m.snapshot = {c.snapshot}

Completed == CHOOSE n \in {c.completed : c \in checkpoint} : TRUE

(* Slip: more iterations may be requested wherever the run stopped. *)
NewEnvelope_anywhere(m, r) ==
  LET current == authorized_envelope(journal)
      wanted == requested_envelope(r, current)
  IN /\ wanted # current
     /\ wanted.budget >= current.budget
     /\ wanted.iterations >= current.iterations
     /\ m.status \in {"COMPLETED_MAX_ITERATIONS", "BUDGET_EXHAUSTED"}

(* A new amendment: more iterations where all are used, more budget where *)
(* it is exhausted with iterations left.                                  *)
NewEnvelope(m, r) ==
  LET current == authorized_envelope(journal)
      wanted == requested_envelope(r, current)
      iteration_increased == wanted.iterations > current.iterations
  IN /\ wanted # current
     /\ wanted.budget >= current.budget
     /\ wanted.iterations >= current.iterations
     /\ \/ /\ m.status = "COMPLETED_MAX_ITERATIONS"
           /\ iteration_increased /\ Completed = current.iterations
        \/ /\ m.status = "BUDGET_EXHAUSTED"
           /\ ~iteration_increased /\ r.budget # {}
           /\ Completed < current.iterations

NonceConsistent(r) ==
  \A k \in existing_record(r) :
    journal[k].new = requested_envelope(r, authorized_envelope(journal))

(* Slip: a limit that was reached still counts as pending. *)
pending_authorization_inclusive(m, limit) ==
  m.status = "COMPLETED_MAX_ITERATIONS" /\ Completed <= limit

pending_authorization(m, limit) ==
  m.status = "COMPLETED_MAX_ITERATIONS" /\ Completed < limit

resumable_interruption(m) ==
  m.status \in {"INTERRUPTED", "RUNNING", "FAILED_INFRASTRUCTURE"}

EffectiveLimit(r) ==
  LET current == authorized_envelope(journal)
  IN IF Requested(r) THEN requested_envelope(r, current).iterations
     ELSE current.iterations

already_applied(m, r) ==
  existing_record(r) # {} /\ ~pending_authorization(m, EffectiveLimit(r))

(* Every comparison that precedes the decision.  Identities are compared  *)
(* with the manifest, the checkpoint and every record; they all describe  *)
(* the installation the run began with.                                   *)
Consistent(m, r) ==
  /\ installed = "original"
  /\ CheckpointAgrees(m)
  /\ ManifestHead(m)
  /\ NonceConsistent(r)
  /\ Requested(r) /\ existing_record(r) = {} => NewEnvelope(m, r)

Accepts(m, r) ==
  /\ Consistent(m, r)
  /\ m.status # "COMPLETED_DRC_CLEAN"
  /\ \/ pending_authorization(m, EffectiveLimit(r))
     \/ m.status = "BUDGET_EXHAUSTED" /\ Requested(r)
     \/ resumable_interruption(m)
  /\ ~already_applied(m, r)

-----------------------------------------------------------------------------
(* `resume`. *)

Leave(p, where) ==
  /\ pc' = [pc EXCEPT ![p] = where]
  /\ owner' = owner \ {p}

Forget(p) ==
  /\ mem' = [mem EXCEPT ![p] = {}]
  /\ work' = [work EXCEPT ![p] = {}]

(* Reads the manifest; a run of the older protocol takes another way,     *)
(* without the owner lock and without a record.                           *)
ReadManifest(p) ==
  /\ pc[p] = "idle" /\ manifest # {}
  /\ \E r \in Requests : request' = [request EXCEPT ![p] = {r}]
  /\ mem' = [mem EXCEPT ![p] = manifest]
  /\ pc' = [pc EXCEPT ![p] = IF strict THEN "locking" ELSE "legacy"]
  /\ UNCHANGED <<strict, installed, owner, work, epoch, disk, stops>>

(* Slip: the manifest read before the lock decides. *)
continuation_lock_stale(p) ==
  /\ pc[p] = "locking" /\ owner = {}
  /\ owner' = {p}
  /\ pc' = [pc EXCEPT ![p] = "deciding"]
  /\ UNCHANGED <<strict, installed, request, mem, work, epoch, disk, stops>>

(* Slip: the lock is not exclusive. *)
continuation_lock_shared(p) ==
  /\ pc[p] = "locking"
  /\ owner' = owner \cup {p}
  /\ mem' = [mem EXCEPT ![p] = manifest]
  /\ pc' = [pc EXCEPT ![p] = "deciding"]
  /\ UNCHANGED <<strict, installed, request, work, epoch, disk, stops>>

(* The manifest is read again under the owner lock. *)
continuation_lock(p) ==
  /\ pc[p] = "locking" /\ owner = {}
  /\ owner' = {p}
  /\ mem' = [mem EXCEPT ![p] = manifest]
  /\ pc' = [pc EXCEPT ![p] = "deciding"]
  /\ UNCHANGED <<strict, installed, request, work, epoch, disk, stops>>

(* CONTINUATION_OWNER_CONFLICT *)
OwnerConflict(p) ==
  /\ pc[p] = "locking" /\ owner # {}
  /\ Leave(p, "refused") /\ Forget(p)
  /\ UNCHANGED <<strict, installed, request, epoch, disk, stops>>

Deciding(p, m, r) == pc[p] = "deciding" /\ m \in mem[p] /\ r \in request[p]

(* One of the checks fails, or nothing is to be done: verify_only and a   *)
(* request that was already applied end here too.                         *)
Decline(p) ==
  /\ \E m \in mem[p], r \in request[p] :
       /\ Deciding(p, m, r)
       /\ ~Accepts(m, r) \/ r.verify_only
       /\ Leave(p, IF Consistent(m, r) /\ already_applied(m, r) THEN "applied"
                   ELSE IF Accepts(m, r) THEN "verified" ELSE "refused")
  /\ Forget(p)
  /\ UNCHANGED <<strict, installed, request, epoch, disk, stops>>

segment_index(records) == Len(records)

(* The session that _resume_session builds from the checkpoint, with the  *)
(* manifest of the records that are durable now.                          *)
Enter(p, m, records, e) ==
  /\ mem' = [mem EXCEPT ![p] =
       {[m EXCEPT !.segment = segment_index(records), !.status = "RUNNING",
                  !.envelope = authorized_envelope(records)]}]
  /\ work' = [work EXCEPT ![p] = checkpoint]
  /\ epoch' = [epoch EXCEPT ![p] = e]
  /\ pc' = [pc EXCEPT ![p] = "initialize"]

FreshEpoch(p) == <<"fresh", p>>

NewRecord(m, r) ==
  [nonce |-> r.nonce, prior_status |-> m.status, completed |-> Completed,
   old |-> authorized_envelope(journal),
   new |-> requested_envelope(r, authorized_envelope(journal))]

(* make_continuation_record validates the record before it is appended.   *)
Authorize(p) ==
  \E m \in mem[p], r \in request[p] :
    /\ Deciding(p, m, r) /\ Accepts(m, r) /\ ~r.verify_only
    /\ Requested(r) /\ existing_record(r) = {}
    /\ journal' = Append(journal, NewRecord(m, r))
    /\ Enter(p, m, journal', <<"record", Len(journal')>>)
    /\ UNCHANGED <<strict, installed, owner, request, manifest, checkpoint, stops>>

(* Nothing to append: an interrupted run, or a record that no execution   *)
(* has published yet; a request that names it uses the epoch reserved.    *)
Continue(p) ==
  \E m \in mem[p], r \in request[p] :
    /\ Deciding(p, m, r) /\ Accepts(m, r) /\ ~r.verify_only
    /\ ~Requested(r) \/ existing_record(r) # {}
    /\ Enter(p, m, journal,
             IF \E k \in existing_record(r) : <<"record", k>> \notin m.epochs
             THEN <<"record", CHOOSE k \in existing_record(r) : TRUE>>
             ELSE FreshEpoch(p))
    /\ UNCHANGED <<strict, installed, owner, request, disk, stops>>

(* _resume_legacy: what passes its checks reaches a history entry that     *)
(* reads a name the method does not have (status, 1215): NameError.        *)
ResumeLegacy(p) ==
  /\ pc[p] = "legacy"
  /\ Leave(p, "refused") /\ Forget(p)
  /\ UNCHANGED <<strict, installed, request, epoch, disk, stops>>

-----------------------------------------------------------------------------
(* Executing. *)

Session(p) == CHOOSE s \in work[p] : TRUE
Memory(p)  == CHOOSE m \in mem[p] : TRUE

(* Slip: a resumed process does not publish the records it read. *)
Published_segment_kept(p) ==
  [Memory(p) EXCEPT !.epochs = @ \cup {epoch[p]},
                    !.snapshot = {Session(p).snapshot},
                    !.segment = IF manifest = {} THEN 0
                                ELSE (CHOOSE m \in manifest : TRUE).segment]

(* initialize_case: the first manifest of a run has neither a count nor a *)
(* snapshot; a resumed one keeps its count.                               *)
Published(p) ==
  [Memory(p) EXCEPT !.epochs = @ \cup {epoch[p]},
                    !.snapshot = IF p = first THEN {} ELSE {Session(p).snapshot}]

initialize_case(p) ==
  /\ pc[p] = "initialize"
  /\ manifest' = {Published(p)}
  /\ mem' = [mem EXCEPT ![p] = manifest']
  /\ checkpoint' = IF p = first THEN work[p] ELSE checkpoint
  /\ pc' = [pc EXCEPT ![p] = "iterating"]
  /\ UNCHANGED <<strict, installed, owner, request, work, epoch, journal, stops>>

Save(p, s) ==
  /\ work' = [work EXCEPT ![p] = {s}]
  /\ checkpoint' = {s}

(* A window of the current iteration commits. *)
CommitWindow(p) ==
  /\ pc[p] = "iterating" /\ Session(p).snapshot < MaxSnapshot
  /\ Save(p, [Session(p) EXCEPT !.snapshot = @ + 1])
  /\ UNCHANGED <<strict, installed, owner, pc, request, mem, epoch, manifest,
                 journal, stops>>

FinishIteration(p) ==
  /\ pc[p] = "iterating"
  /\ Save(p, [Session(p) EXCEPT !.completed = @ + 1])
  /\ pc' = [pc EXCEPT ![p] = "checking"]
  /\ UNCHANGED <<strict, installed, owner, request, mem, epoch, manifest,
                 journal, stops>>

(* stopping_condition, with the run's own reasons to stop as a choice. *)
NextIteration(p) ==
  /\ pc[p] = "checking" /\ Session(p).completed < Memory(p).envelope.iterations
  /\ pc' = [pc EXCEPT ![p] = "iterating"]
  /\ UNCHANGED <<strict, installed, owner, request, mem, work, epoch, disk, stops>>

Final(p, status) ==
  [Memory(p) EXCEPT !.status = status,
                    !.completed = {Session(p).completed},
                    !.snapshot = {Session(p).snapshot}]

finalize_run(p) ==
  /\ pc[p] = "checking"
  /\ \E status \in {"COMPLETED_DRC_CLEAN", "COMPLETED_NO_PROGRESS",
                    "COMPLETED_MAX_ITERATIONS"} :
       /\ status = "COMPLETED_MAX_ITERATIONS" =>
            Session(p).completed >= Memory(p).envelope.iterations
       /\ manifest' = {Final(p, status)}
  /\ Leave(p, "done") /\ Forget(p)
  /\ UNCHANGED <<strict, installed, request, epoch, journal, checkpoint, stops>>

(* Slip: an abort leaves the count of the manifest it started from. *)
Aborted_uncounted(p, status) == [Memory(p) EXCEPT !.status = status]

Aborted(p, status) == Final(p, status)

(* _finalize_aborted, from any node; a failure inside initialize_case is  *)
(* recorded with the manifest that was prepared in memory.                *)
Abort(p) ==
  /\ p \in Executing /\ stops < MaxStops /\ stops' = stops + 1
  /\ \E status \in {"INTERRUPTED", "FAILED_INFRASTRUCTURE", "FAILED",
                    "BUDGET_EXHAUSTED"} :
       manifest' = {Aborted(p, status)}
  /\ Leave(p, "done") /\ Forget(p)
  /\ UNCHANGED <<strict, installed, request, epoch, journal, checkpoint>>

(* SIGKILL: the kernel releases the owner lock. *)
Kill(p) ==
  /\ pc[p] \notin {"idle", "done", "refused", "applied", "verified", "killed"}
  /\ stops < MaxStops /\ stops' = stops + 1
  /\ Leave(p, "killed") /\ Forget(p)
  /\ UNCHANGED <<strict, installed, request, epoch, disk>>

(* The installation changes: other code, configuration, image or inputs. *)
Upgrade ==
  /\ installed = "original" /\ installed' = "changed"
  /\ UNCHANGED <<strict, owner, pc, request, mem, work, epoch, disk, stops>>

-----------------------------------------------------------------------------
Manifests(envelope) ==
  [status |-> "RUNNING", completed |-> {}, snapshot |-> {}, segment |-> 0,
   envelope |-> envelope, epochs |-> {}]

Init ==
  /\ strict \in BOOLEAN /\ installed = "original"
  /\ owner = {first}
  /\ pc = [p \in Processes |-> IF p = first THEN "initialize" ELSE "idle"]
  /\ request = [p \in Processes |-> {}]
  /\ mem = [p \in Processes |-> IF p = first THEN {Manifests(InitialEnvelope)} ELSE {}]
  /\ work = [p \in Processes |->
               IF p = first THEN {[completed |-> 0, snapshot |-> 0]} ELSE {}]
  /\ epoch = [p \in Processes |-> FreshEpoch(p)]
  /\ manifest = {} /\ journal = <<>> /\ checkpoint = {}
  /\ stops = 0

Resume(p) ==
  \/ ReadManifest(p) \/ continuation_lock(p) \/ OwnerConflict(p)
  \/ Decline(p) \/ Authorize(p) \/ Continue(p) \/ ResumeLegacy(p)

Execute(p) ==
  \/ initialize_case(p) \/ CommitWindow(p) \/ FinishIteration(p)
  \/ NextIteration(p) \/ finalize_run(p)

Next ==
  \/ \E p \in Commands : Resume(p)
  \/ \E p \in Processes : Execute(p) \/ Abort(p) \/ Kill(p)
  \/ Upgrade

Spec == Init /\ [][Next]_vars

-----------------------------------------------------------------------------
Statuses == {"RUNNING", "INTERRUPTED", "FAILED_INFRASTRUCTURE", "FAILED",
             "BUDGET_EXHAUSTED", "COMPLETED_DRC_CLEAN", "COMPLETED_NO_PROGRESS",
             "COMPLETED_MAX_ITERATIONS"}

PCs == {"idle", "locking", "legacy", "deciding", "initialize", "iterating", "checking",
        "done", "refused", "applied", "verified", "killed"}

Epochs == ({"fresh"} \X Processes) \cup ({"record"} \X Nat)

ManifestType == [status: Statuses, completed: SUBSET Nat, snapshot: SUBSET Nat,
                 segment: Nat, envelope: Envelopes, epochs: SUBSET Epochs]

RecordType == [nonce: STRING, prior_status: Statuses, completed: Nat,
               old: Envelopes, new: Envelopes]

SessionType == [completed: Nat, snapshot: 0..MaxSnapshot]

(* Every variable keeps its type; what a process has read names at most   *)
(* the records that are durable, and one that executes has its manifest   *)
(* and its session in memory.                                             *)
TypeOK ==
  /\ strict \in BOOLEAN /\ owner \subseteq Processes
  /\ pc \in [Processes -> PCs]
  /\ request \in [Processes -> SUBSET Requests]
  /\ mem \in [Processes -> SUBSET ManifestType] /\ manifest \subseteq ManifestType
  /\ work \in [Processes -> SUBSET SessionType] /\ checkpoint \subseteq SessionType
  /\ epoch \in [Processes -> Epochs]
  /\ journal \in Seq(RecordType)
  /\ \A p \in Processes : \A m \in mem[p] \cup manifest : m.segment <= Len(journal)
  /\ \A p \in Executing : mem[p] # {} /\ work[p] # {}

(* At most one process executes a run: the owner lock covers the whole    *)
(* lifetime of a writer (runtime.py:1055), and what does not take the     *)
(* lock never gets that far.                                              *)
SingleWriter == Cardinality(Executing) <= 1

(* Every record passes the validators that make_continuation_record and   *)
(* read_continuation_records apply: the checks of _resume_p5 (1547-1591)  *)
(* and those of the record agree, whoever stopped the run and where, so a *)
(* journal that was written can always be read.                           *)
RecordsValid == \A k \in DOMAIN journal : RecordValid(journal[k])

(* An executing process runs under the envelope of the last durable       *)
(* record and the manifest that it publishes says so.                     *)
RunsAsAuthorized ==
  \A p \in Executing :
    /\ Memory(p).envelope = authorized_envelope(journal)
    /\ pc[p] # "initialize" =>
         \A m \in manifest : m.segment = Len(journal) /\ m.envelope = Memory(p).envelope

Stopped == Executing = {} /\ owner = {} /\ installed = "original" /\ strict

PlainRequests == {r \in Requests : ~Requested(r)}

AddsIterations(rec) == rec.new.iterations # rec.old.iterations

(* A command that dies between the append (1699) and initialize_case      *)
(* leaves one record no manifest names, asked for in the status the       *)
(* manifest still has.  If it grants iterations, a plain resume and a     *)
(* repetition of the request both go on from it (1721-1728).  If it       *)
(* grants budget, every later command is refused (1426-1432): the run     *)
(* can never be continued.                                                *)
CutOffAmendments ==
  Stopped =>
    \A m \in manifest : m.segment < Len(journal) =>
      LET last == journal[Len(journal)]
      IN /\ m.segment = Len(journal) - 1 /\ m.status = last.prior_status
         /\ \A r \in Requests :
              IF AddsIterations(last)
                THEN ~Requested(r) \/ (existing_record(r) = {Len(journal)} /\ NonceConsistent(r))
                       => Accepts(m, r)
                ELSE ~Accepts(m, r)

(* A run stopped by a signal or an infrastructure failure can be resumed  *)
(* if it has a checkpoint, whatever records were appended before.         *)
InterruptedRunsResume ==
  Stopped /\ checkpoint # {} =>
    \A m \in manifest :
      m.status \in {"INTERRUPTED", "FAILED_INFRASTRUCTURE"} =>
        \A r \in PlainRequests : Accepts(m, r)

(* The process that executes a run is the only one and the authorized one. *)
WriterIsAuthorized == SingleWriter /\ RunsAsAuthorized

(* What was interrupted, or granted iterations, can go on; a budget whose  *)
(* command was cut off cannot.                                             *)
StoppedRunsGoOn == CutOffAmendments /\ InterruptedRunsResume

(* A request that names a record already published starts nothing ("Zero- *)
(* paid result for ... idempotent no-op requests", ContinuationVerification).*)
RepeatedRequestsAreFree ==
  [][\A p \in Processes, r \in UNION {request[q] : q \in Processes} :
       r \in request[p] /\ pc[p] = "deciding" /\ pc'[p] = "initialize" =>
         \A k \in existing_record(r), m \in manifest : m.segment < k]_vars

(* A decision is taken on the status the run really has: no process       *)
(* starts from a manifest that another one replaced.                      *)
DecisionsAreCurrent ==
  [][\A p \in Processes :
       pc[p] = "deciding" /\ pc'[p] = "initialize" => mem[p] = manifest]_vars
=============================================================================
