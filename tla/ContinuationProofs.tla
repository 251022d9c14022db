-------------------------- MODULE ContinuationProofs --------------------------
(***************************************************************************)
(* Proofs about who may execute a run, for any number of resume commands,  *)
(* any requests and any number of stops.                                   *)
(***************************************************************************)
EXTENDS Continuation, FiniteSetTheorems, TLAPS

-----------------------------------------------------------------------------
(* Type correctness. *)

LEMMA EnvelopeType ==
  ASSUME NEW records \in Seq(RecordType)
  PROVE  authorized_envelope(records) \in Envelopes
<1>1. CASE records = <<>>
  BY <1>1, ContinuationAssumption DEF authorized_envelope
<1>2. CASE records # <<>>
  <2>1. records[Len(records)] \in RecordType
    BY <1>2
  <2> QED
    BY <1>2, <2>1 DEF authorized_envelope, RecordType
<1> QED
  BY <1>1, <1>2

LEMMA RequestType ==
  ASSUME NEW r \in Requests, NEW e \in Envelopes
  PROVE  requested_envelope(r, e) \in [iterations: Nat, budget: Nat]
BY ContinuationAssumption DEF requested_envelope, Envelopes

(* What an accepted amendment appends is a record. *)
LEMMA NewRecordType ==
  ASSUME TypeOK, NEW p \in Processes, NEW m \in mem[p], NEW r \in request[p],
         Accepts(m, r), Requested(r), existing_record(r) = {}
  PROVE  NewRecord(m, r) \in RecordType
<1> DEFINE current == authorized_envelope(journal)
           wanted == requested_envelope(r, current)
<1>1. r \in Requests /\ m \in ManifestType
  BY DEF TypeOK
<1>2. current \in Envelopes /\ wanted \in [iterations: Nat, budget: Nat]
  BY <1>1, EnvelopeType, RequestType DEF TypeOK
<1>3. wanted.iterations >= current.iterations /\ wanted.budget >= current.budget
  BY DEF Accepts, Consistent, NewEnvelope
<1>4. wanted \in Envelopes
  BY <1>2, <1>3 DEF Envelopes
<1>5. Completed \in Nat
  <2>1. checkpoint # {} /\ checkpoint \subseteq SessionType
    BY DEF Accepts, Consistent, CheckpointAgrees, TypeOK
  <2> QED
    BY <2>1 DEF Completed, SessionType
<1> QED
  BY <1>1, <1>2, <1>4, <1>5, ContinuationAssumption DEF NewRecord, RecordType, ManifestType

LEMMA TypeInit == Init => TypeOK
<1> SUFFICES ASSUME Init PROVE TypeOK
  OBVIOUS
<1> USE ContinuationAssumption DEF Init
<1>1. Manifests(InitialEnvelope) \in ManifestType /\ Manifests(InitialEnvelope).segment = 0
  BY DEF Manifests, ManifestType, Statuses
<1>2. [completed |-> 0, snapshot |-> 0] \in SessionType
  BY DEF SessionType
<1>3. epoch \in [Processes -> Epochs]
  BY DEF FreshEpoch, Epochs
<1>4. \A p \in Processes : \A m \in mem[p] \cup manifest : m.segment <= Len(journal)
  BY <1>1
<1>5. \A p \in Executing : mem[p] # {} /\ work[p] # {}
  BY DEF Executing
<1>6. journal \in Seq(RecordType)
  OBVIOUS
<1>7. /\ pc \in [Processes -> PCs] /\ owner \subseteq Processes
      /\ request \in [Processes -> SUBSET Requests]
  BY DEF PCs, Processes
<1>8. mem \in [Processes -> SUBSET ManifestType] /\ work \in [Processes -> SUBSET SessionType]
  BY <1>1, <1>2
<1> HIDE DEF Init
<1> QED
  BY <1>3, <1>4, <1>5, <1>6, <1>7, <1>8 DEF TypeOK, Init

(* The session that is entered carries the manifest of the records. *)
LEMMA EnteredManifest ==
  ASSUME NEW m \in ManifestType, NEW records \in Seq(RecordType)
  PROVE  [m EXCEPT !.segment = segment_index(records), !.status = "RUNNING",
                   !.envelope = authorized_envelope(records)] \in ManifestType
<1>1. authorized_envelope(records) \in Envelopes /\ segment_index(records) \in Nat
  BY EnvelopeType DEF segment_index
<1> QED
  BY <1>1 DEF ManifestType, Statuses

LEMMA MemoryType ==
  ASSUME TypeOK, NEW p \in Executing
  PROVE  /\ p \in Processes
         /\ Memory(p) \in mem[p] /\ Memory(p) \in ManifestType
         /\ Session(p) \in work[p] /\ Session(p) \in SessionType
BY DEF TypeOK, Executing, Memory, Session

LEMMA TypeStep == TypeOK /\ [Next]_vars => TypeOK'
<1> SUFFICES ASSUME TypeOK, [Next]_vars PROVE TypeOK'
  OBVIOUS
<1> USE ContinuationAssumption
<1>1. ASSUME NEW p \in Commands, ReadManifest(p) PROVE TypeOK'
  BY <1>1 DEF ReadManifest, TypeOK, Processes, PCs, Executing, disk
<1>2. ASSUME NEW p \in Commands, continuation_lock(p) PROVE TypeOK'
  BY <1>2 DEF continuation_lock, TypeOK, Processes, PCs, Executing, disk
<1>3. ASSUME NEW p \in Commands, OwnerConflict(p) PROVE TypeOK'
  BY <1>3 DEF OwnerConflict, Leave, Forget, TypeOK, Processes, PCs, Executing, disk
<1>4. ASSUME NEW p \in Commands, Decline(p) PROVE TypeOK'
  BY <1>4 DEF Decline, Leave, Forget, TypeOK, Processes, PCs, Executing, disk
<1>5. ASSUME NEW p \in Commands, NEW records \in Seq(RecordType), NEW m \in mem[p],
             Enter(p, m, records, epoch'[p]), epoch'[p] \in Epochs, checkpoint # {},
             journal' \in Seq(RecordType), Len(journal') >= Len(journal),
             Len(records) <= Len(journal'), owner' \subseteq Processes,
             UNCHANGED <<strict, request, manifest, checkpoint>>
      PROVE  TypeOK'
  <2> DEFINE entered == [m EXCEPT !.segment = segment_index(records), !.status = "RUNNING",
                                  !.envelope = authorized_envelope(records)]
  <2>1. entered \in ManifestType /\ entered.segment = Len(records)
    BY EnteredManifest DEF TypeOK, Processes, segment_index, ManifestType
  <2>2. p \in Processes /\ Len(journal) \in Nat /\ Len(journal') \in Nat /\ Len(records) \in Nat
    BY <1>5 DEF Processes, TypeOK
  <2>3. /\ mem' = [mem EXCEPT ![p] = {entered}] /\ work' = [work EXCEPT ![p] = checkpoint]
        /\ pc' = [pc EXCEPT ![p] = "initialize"] /\ epoch' \in [Processes -> Epochs]
    BY <1>5, <2>2 DEF Enter, TypeOK
  <2> HIDE DEF entered
  <2>4. \A q \in Processes : \A n \in mem'[q] \cup manifest' : n.segment <= Len(journal')
    BY <1>5, <2>1, <2>2, <2>3 DEF TypeOK, ManifestType
  <2>5. \A q \in Executing' : mem'[q] # {} /\ work'[q] # {}
    BY <1>5, <2>2, <2>3 DEF TypeOK, Executing
  <2> QED
    BY <1>5, <2>1, <2>2, <2>3, <2>4, <2>5 DEF TypeOK, PCs
<1>6. ASSUME NEW p \in Commands, Authorize(p) PROVE TypeOK'
  <2>1. PICK m \in mem[p], r \in request[p] :
          /\ Deciding(p, m, r) /\ Accepts(m, r) /\ ~r.verify_only
          /\ Requested(r) /\ existing_record(r) = {}
          /\ journal' = Append(journal, NewRecord(m, r))
          /\ Enter(p, m, journal', <<"record", Len(journal')>>)
          /\ UNCHANGED <<strict, installed, owner, request, manifest, checkpoint, stops>>
    BY <1>6 DEF Authorize
  <2>2. journal' \in Seq(RecordType) /\ Len(journal') = Len(journal) + 1
    BY <2>1, NewRecordType DEF TypeOK, Processes
  <2>3. Enter(p, m, journal', epoch'[p]) /\ epoch'[p] \in Epochs
    BY <2>1, <2>2 DEF Enter, TypeOK, Processes, Epochs
  <2> QED
    <3>1. checkpoint # {}
      BY <2>1 DEF Accepts, Consistent, CheckpointAgrees
    <3>2. Len(journal') >= Len(journal) /\ Len(journal') <= Len(journal') /\ owner' \subseteq Processes
      BY <2>1, <2>2 DEF TypeOK
    <3> QED
      BY <1>5, <2>1, <2>2, <2>3, <3>1, <3>2
<1>7. ASSUME NEW p \in Commands, Continue(p) PROVE TypeOK'
  <2>1. PICK m \in mem[p], r \in request[p] :
          /\ Accepts(m, r)
          /\ Enter(p, m, journal,
                   IF \E k \in existing_record(r) : <<"record", k>> \notin m.epochs
                   THEN <<"record", CHOOSE k \in existing_record(r) : TRUE>>
                   ELSE FreshEpoch(p))
          /\ UNCHANGED <<strict, installed, owner, request, disk, stops>>
    BY <1>7 DEF Continue
  <2>2. existing_record(r) \subseteq Nat
    BY DEF existing_record, TypeOK
  <2>3. Enter(p, m, journal, epoch'[p]) /\ epoch'[p] \in Epochs
    BY <2>1, <2>2 DEF Enter, TypeOK, Processes, Epochs, FreshEpoch
  <2> QED
    <3>1. checkpoint # {}
      BY <2>1 DEF Accepts, Consistent, CheckpointAgrees
    <3>2. /\ journal \in Seq(RecordType) /\ journal' = journal /\ Len(journal) >= Len(journal)
          /\ Len(journal) <= Len(journal) /\ owner' \subseteq Processes
          /\ UNCHANGED <<strict, request, manifest, checkpoint>>
      BY <2>1 DEF TypeOK, disk
    <3> QED
      BY <1>5, <2>1, <2>3, <3>1, <3>2
<1>8. ASSUME NEW p \in Commands, ResumeLegacy(p) PROVE TypeOK'
  BY <1>8 DEF ResumeLegacy, Leave, Forget, TypeOK, Processes, PCs, Executing, disk
<1>9. ASSUME NEW p \in Processes, initialize_case(p) PROVE TypeOK'
  <2> DEFINE published == Published(p)
  <2>1. p \in Executing
    BY <1>9 DEF initialize_case, Executing
  <2>2. published \in ManifestType /\ published.segment = Memory(p).segment
    <3>1. /\ Memory(p) \in ManifestType /\ Session(p) \in SessionType
          /\ epoch[p] \in Epochs /\ Session(p).snapshot \in Nat
      BY <2>1, MemoryType DEF TypeOK, SessionType
    <3>2. Memory(p).epochs \cup {epoch[p]} \subseteq Epochs
      BY <3>1 DEF ManifestType
    <3> QED
      BY <3>1, <3>2 DEF Published, ManifestType
  <2>3. published.segment <= Len(journal)
    BY <2>1, <2>2, MemoryType DEF TypeOK
  <2> HIDE DEF published
  <2>4. /\ manifest' = {published} /\ mem' = [mem EXCEPT ![p] = {published}]
        /\ checkpoint' = work[p] \/ checkpoint' = checkpoint
        /\ pc' = [pc EXCEPT ![p] = "iterating"]
        /\ UNCHANGED <<strict, owner, request, work, epoch, journal>>
    BY <1>9 DEF initialize_case, published
  <2>5. \A q \in Executing' : mem'[q] # {} /\ work'[q] # {}
    BY <2>1, <2>4 DEF Executing, TypeOK
  <2> QED
    BY <2>2, <2>3, <2>4, <2>5 DEF TypeOK, PCs
<1>10. ASSUME NEW p \in Processes, NEW s \in SessionType, Save(p, s), p \in Executing,
              pc' \in [Processes -> PCs], Executing' \subseteq Executing,
              UNCHANGED <<strict, owner, request, mem, epoch, manifest, journal>>
       PROVE  TypeOK'
  <2>1. /\ work' = [work EXCEPT ![p] = {s}] /\ checkpoint' = {s}
        /\ UNCHANGED <<strict, owner, request, mem, epoch, manifest, journal>>
    BY <1>10 DEF Save
  <2>2. \A q \in Executing' : mem'[q] # {} /\ work'[q] # {}
    BY <1>10, <2>1 DEF TypeOK
  <2>3. work' \in [Processes -> SUBSET SessionType] /\ checkpoint' \subseteq SessionType
    BY <2>1 DEF TypeOK
  <2> QED
    BY <1>10, <2>1, <2>2, <2>3 DEF TypeOK
<1>11. ASSUME NEW p \in Processes, CommitWindow(p) PROVE TypeOK'
  <2>1. p \in Executing
    BY <1>11 DEF CommitWindow, Executing
  <2>2. [Session(p) EXCEPT !.snapshot = @ + 1] \in SessionType
    BY <1>11, <2>1, MemoryType DEF CommitWindow, SessionType
  <2> QED
    BY <1>10, <1>11, <2>1, <2>2 DEF CommitWindow, TypeOK, Executing
<1>12. ASSUME NEW p \in Processes, FinishIteration(p) PROVE TypeOK'
  <2>1. p \in Executing
    BY <1>12 DEF FinishIteration, Executing
  <2>2. [Session(p) EXCEPT !.completed = @ + 1] \in SessionType
    BY <2>1, MemoryType DEF SessionType
  <2>3. pc' \in [Processes -> PCs] /\ Executing' \subseteq Executing
    BY <1>12 DEF FinishIteration, TypeOK, PCs, Executing
  <2> QED
    BY <1>10, <1>12, <2>1, <2>2, <2>3 DEF FinishIteration
<1>13. ASSUME NEW p \in Processes, NextIteration(p) PROVE TypeOK'
  BY <1>13 DEF NextIteration, TypeOK, PCs, Executing, disk
<1>14. ASSUME NEW p \in Executing, NEW status \in Statuses, manifest' = {Final(p, status)},
              Leave(p, "done"), Forget(p),
              UNCHANGED <<strict, request, epoch, journal, checkpoint>>
       PROVE  TypeOK'
  <2> DEFINE final == Final(p, status)
  <2>1. final \in ManifestType /\ final.segment = Memory(p).segment
    <3>1. /\ Memory(p) \in ManifestType
          /\ Session(p).completed \in Nat /\ Session(p).snapshot \in Nat
      BY MemoryType DEF SessionType
    <3> QED
      BY <3>1 DEF Final, ManifestType
  <2>2. final.segment <= Len(journal) /\ p \in Processes
    BY <2>1, MemoryType DEF TypeOK
  <2>3. manifest' = {final}
    BY <1>14
  <2> HIDE DEF final
  <2> QED
    BY <1>14, <2>1, <2>2, <2>3 DEF Leave, Forget, TypeOK, PCs, Executing
<1>15. ASSUME NEW p \in Processes, finalize_run(p) PROVE TypeOK'
  <2>1. p \in Executing
    BY <1>15 DEF finalize_run, Executing
  <2>2. PICK status \in Statuses : manifest' = {Final(p, status)}
    BY <1>15 DEF finalize_run, Statuses
  <2> QED
    BY <1>14, <1>15, <2>1, <2>2 DEF finalize_run
<1>16. ASSUME NEW p \in Processes, Abort(p) PROVE TypeOK'
  <2>1. PICK status \in Statuses : manifest' = {Final(p, status)}
    BY <1>16 DEF Abort, Aborted, Statuses
  <2> QED
    BY <1>14, <1>16, <2>1 DEF Abort
<1>17. ASSUME NEW p \in Processes, Kill(p) PROVE TypeOK'
  BY <1>17 DEF Kill, Leave, Forget, TypeOK, PCs, Executing, disk
<1>18. CASE Upgrade
  BY <1>18 DEF Upgrade, TypeOK, Executing, disk
<1>19. CASE UNCHANGED vars
  BY <1>19 DEF vars, disk, TypeOK, Executing
<1> QED
  BY <1>1, <1>2, <1>3, <1>4, <1>6, <1>7, <1>8, <1>9, <1>11, <1>12, <1>13, <1>15, <1>16,
     <1>17, <1>18, <1>19 DEF Next, Resume, Execute

(* Type correctness of the continuation protocol; in particular, whatever an
   execution reads or publishes names only records that are durable
   (ResearchRuntime._resume_p5, initialize_case, _finalize_aborted). *)
THEOREM TypeCorrect == Spec => []TypeOK
BY TypeInit, TypeStep, PTL DEF Spec

-----------------------------------------------------------------------------
(* The owner lock.  Whoever is between the lock and the end of its execution is
   its only owner, and the manifest it decides on stays the one on disk. *)

Locked == {"deciding", "initialize", "iterating", "checking"}

OwnerInv ==
  \A p \in Processes :
    /\ pc[p] \in Locked => owner = {p}
    /\ pc[p] = "deciding" => mem[p] = manifest

LEMMA OwnerInit == Init => OwnerInv
BY DEF Init, OwnerInv, Locked

LEMMA OwnerStep == TypeOK /\ OwnerInv /\ [Next]_vars => OwnerInv'
<1> SUFFICES ASSUME TypeOK, OwnerInv, [Next]_vars PROVE OwnerInv'
  OBVIOUS
<1> USE DEF OwnerInv, Locked
<1>1. ASSUME NEW p \in Commands, ReadManifest(p) PROVE OwnerInv'
  BY <1>1 DEF ReadManifest, TypeOK, disk
<1>2. ASSUME NEW p \in Commands, continuation_lock(p) PROVE OwnerInv'
  BY <1>2 DEF continuation_lock, TypeOK, disk
<1>3. ASSUME NEW p \in Commands, OwnerConflict(p) PROVE OwnerInv'
  BY <1>3 DEF OwnerConflict, Leave, Forget, TypeOK, disk
<1>4. ASSUME NEW p \in Commands, Decline(p) PROVE OwnerInv'
  BY <1>4 DEF Decline, Deciding, Leave, Forget, TypeOK, disk, Processes
<1>5. ASSUME NEW p \in Commands, Authorize(p) PROVE OwnerInv'
  BY <1>5 DEF Authorize, Deciding, Enter, TypeOK, Processes
<1>6. ASSUME NEW p \in Commands, Continue(p) PROVE OwnerInv'
  BY <1>6 DEF Continue, Deciding, Enter, TypeOK, disk, Processes
<1>7. ASSUME NEW p \in Commands, ResumeLegacy(p) PROVE OwnerInv'
  BY <1>7 DEF ResumeLegacy, Leave, Forget, TypeOK, disk, Processes
<1>8. ASSUME NEW p \in Processes, initialize_case(p) PROVE OwnerInv'
  BY <1>8 DEF initialize_case, TypeOK
<1>9. ASSUME NEW p \in Processes, CommitWindow(p) PROVE OwnerInv'
  BY <1>9 DEF CommitWindow, TypeOK
<1>10. ASSUME NEW p \in Processes, FinishIteration(p) PROVE OwnerInv'
  BY <1>10 DEF FinishIteration, TypeOK
<1>11. ASSUME NEW p \in Processes, NextIteration(p) PROVE OwnerInv'
  BY <1>11 DEF NextIteration, TypeOK, disk
<1>12. ASSUME NEW p \in Processes, finalize_run(p) PROVE OwnerInv'
  BY <1>12 DEF finalize_run, Leave, Forget, TypeOK
<1>13. ASSUME NEW p \in Processes, Abort(p) PROVE OwnerInv'
  BY <1>13 DEF Abort, Executing, Leave, Forget, TypeOK
<1>14. ASSUME NEW p \in Processes, Kill(p) PROVE OwnerInv'
  BY <1>14 DEF Kill, Leave, Forget, TypeOK, disk
<1>15. CASE Upgrade
  BY <1>15 DEF Upgrade, disk
<1>16. CASE UNCHANGED vars
  BY <1>16 DEF vars, disk
<1> QED
  BY <1>1, <1>2, <1>3, <1>4, <1>5, <1>6, <1>7, <1>8, <1>9, <1>10, <1>11, <1>12, <1>13,
     <1>14, <1>15, <1>16 DEF Next, Resume, Execute

(* "At most one process executes a run": the continuation lock covers the whole
   life of a writer (ResearchRuntime.run, _resume_p5). *)
THEOREM OneWriter == Spec => []SingleWriter
<1>1. TypeOK /\ OwnerInv => SingleWriter
  <2> SUFFICES ASSUME TypeOK, OwnerInv PROVE Cardinality(Executing) <= 1
    BY DEF SingleWriter
  <2>1. CASE Executing = {}
    BY <2>1, FS_EmptySet
  <2>2. ASSUME NEW p \in Executing PROVE Cardinality(Executing) <= 1
    <3>1. p \in Processes /\ pc[p] \in Locked /\ owner = {p}
      BY DEF OwnerInv, Locked, Executing
    <3>2. \A q \in Executing : q = p
      BY <3>1 DEF OwnerInv, Locked, Executing
    <3>3. Executing = {p}
      BY <3>2
    <3>4. Cardinality(Executing) = 1
      BY <3>3, FS_Singleton, Zenon
    <3> QED
      BY <3>4
  <2> QED
    BY <2>1, <2>2
<1> QED
  BY <1>1, TypeInit, TypeStep, OwnerInit, OwnerStep, PTL DEF Spec

(* The decision to execute is taken on the manifest that is on disk at that
   moment, because it is read again under the lock (ResearchRuntime._resume_p5). *)
THEOREM DecidedOnDisk == Spec => DecisionsAreCurrent
<1>1. TypeOK /\ OwnerInv /\ [Next]_vars =>
        [\A p \in Processes :
           pc[p] = "deciding" /\ pc'[p] = "initialize" => mem[p] = manifest]_vars
  BY DEF OwnerInv
<1> QED
  BY <1>1, TypeInit, TypeStep, OwnerInit, OwnerStep, PTL DEF Spec, DecisionsAreCurrent

-----------------------------------------------------------------------------
(* The authority of the writer.  What it has in memory is the envelope and the
   number of the last durable record; from initialize_case on so is what the
   manifest says.  Only the owner appends a record or writes the manifest. *)

AuthorityInv ==
  \A p \in Executing :
    /\ \A m \in mem[p] :
         m.envelope = authorized_envelope(journal) /\ m.segment = Len(journal)
    /\ pc[p] # "initialize" => \A m \in manifest :
         m.envelope = authorized_envelope(journal) /\ m.segment = Len(journal)

LEMMA AuthorityInit == Init => AuthorityInv
BY DEF Init, AuthorityInv, Executing, Manifests, authorized_envelope

LEMMA OnlyWriter ==
  ASSUME OwnerInv, NEW p \in Processes, pc[p] \in Locked,
         NEW q \in Processes, pc[q] \in Locked
  PROVE  q = p
BY DEF OwnerInv

(* A process that was authorized enters with the last record. *)
LEMMA EnterAuthorized ==
  ASSUME TypeOK, OwnerInv, NEW p \in Processes, pc[p] \in Locked,
         NEW m \in mem[p], NEW e, journal' \in Seq(RecordType), Enter(p, m, journal', e)
  PROVE  /\ Executing' = {p}
         /\ \A n \in mem'[p] : n.envelope = authorized_envelope(journal') /\ n.segment = Len(journal')
         /\ pc'[p] = "initialize"
<1>1. \A q \in Processes : q # p => pc[q] \notin Locked
  BY OnlyWriter
<1>2. pc' = [pc EXCEPT ![p] = "initialize"] /\ pc \in [Processes -> PCs]
  BY DEF Enter, TypeOK
<1>3. Executing' = {p}
  BY <1>1, <1>2 DEF Executing, Locked
<1>4. m \in ManifestType
  BY DEF TypeOK
<1>5. mem'[p] = {[m EXCEPT !.segment = segment_index(journal'), !.status = "RUNNING",
                           !.envelope = authorized_envelope(journal')]}
  BY DEF Enter, TypeOK
<1> QED
  BY <1>2, <1>3, <1>4, <1>5 DEF ManifestType, segment_index

LEMMA AuthorityStep == TypeOK /\ OwnerInv /\ AuthorityInv /\ [Next]_vars => AuthorityInv'
<1> SUFFICES ASSUME TypeOK, OwnerInv, AuthorityInv, [Next]_vars PROVE AuthorityInv'
  OBVIOUS
(* Nobody starts to execute, and what executes keeps what it has. *)
<1>1. ASSUME Executing' \subseteq Executing, UNCHANGED <<manifest, journal>>,
             \A p \in Executing' : mem'[p] = mem[p] /\ (pc[p] = "initialize" <=> pc'[p] = "initialize")
      PROVE  AuthorityInv'
  BY <1>1 DEF AuthorityInv
(* The only writer leaves. *)
<1>2. ASSUME NEW p \in Executing, Leave(p, "done") PROVE AuthorityInv'
  <2>1. \A q \in Executing : q = p
    BY OnlyWriter DEF Executing, Locked
  <2>2. Executing' = {}
    BY <1>2, <2>1 DEF Leave, Executing, TypeOK
  <2> QED
    BY <2>2 DEF AuthorityInv
<1>3. ASSUME NEW p \in Commands, ReadManifest(p) PROVE AuthorityInv'
  BY <1>1, <1>3 DEF ReadManifest, TypeOK, disk, Executing, Processes
<1>4. ASSUME NEW p \in Commands, continuation_lock(p) PROVE AuthorityInv'
  BY <1>1, <1>4 DEF continuation_lock, TypeOK, disk, Executing, Processes
<1>5. ASSUME NEW p \in Commands, OwnerConflict(p) PROVE AuthorityInv'
  BY <1>1, <1>5 DEF OwnerConflict, Leave, Forget, TypeOK, disk, Executing, Processes
<1>6. ASSUME NEW p \in Commands, Decline(p) PROVE AuthorityInv'
  BY <1>1, <1>6 DEF Decline, Deciding, Leave, Forget, TypeOK, disk, Executing, Processes
<1>7. ASSUME NEW p \in Commands, Authorize(p) \/ Continue(p) PROVE AuthorityInv'
  <2>1. PICK m, e : m \in mem[p] /\ Enter(p, m, journal', e) /\ pc[p] = "deciding"
    BY <1>7 DEF Authorize, Continue, Deciding, disk
  <2>2. journal' \in Seq(RecordType) /\ p \in Processes /\ pc[p] \in Locked
    BY <2>1, TypeStep DEF TypeOK, Processes, Locked
  <2> QED
    BY <2>1, <2>2, EnterAuthorized DEF AuthorityInv
<1>8. ASSUME NEW p \in Commands, ResumeLegacy(p) PROVE AuthorityInv'
  BY <1>1, <1>8 DEF ResumeLegacy, Leave, Forget, TypeOK, disk, Executing, Processes
<1>9. ASSUME NEW p \in Processes, initialize_case(p) PROVE AuthorityInv'
  <2>1. p \in Executing
    BY <1>9 DEF initialize_case, Executing
  <2>2. \A q \in Executing : q = p
    BY <2>1, OnlyWriter DEF Executing, Locked
  <2>3. Executing' = {p}
    BY <1>9, <2>2 DEF initialize_case, TypeOK, Executing
  <2>4. /\ Published(p).envelope = Memory(p).envelope
        /\ Published(p).segment = Memory(p).segment
    BY <2>1, MemoryType DEF Published, ManifestType
  <2>5. manifest' = {Published(p)} /\ mem'[p] = {Published(p)} /\ journal' = journal
    BY <1>9 DEF initialize_case, TypeOK
  <2> QED
    BY <2>1, <2>3, <2>4, <2>5, MemoryType DEF AuthorityInv
<1>10. ASSUME NEW p \in Processes, CommitWindow(p) PROVE AuthorityInv'
  BY <1>1, <1>10 DEF CommitWindow, Save, TypeOK, Executing
<1>11. ASSUME NEW p \in Processes, FinishIteration(p) PROVE AuthorityInv'
  BY <1>1, <1>11 DEF FinishIteration, Save, TypeOK, Executing
<1>12. ASSUME NEW p \in Processes, NextIteration(p) PROVE AuthorityInv'
  BY <1>1, <1>12 DEF NextIteration, TypeOK, Executing, disk
<1>13. ASSUME NEW p \in Processes, finalize_run(p) PROVE AuthorityInv'
  BY <1>2, <1>13 DEF finalize_run, Executing
<1>14. ASSUME NEW p \in Processes, Abort(p) PROVE AuthorityInv'
  BY <1>2, <1>14 DEF Abort
<1>15. ASSUME NEW p \in Processes, Kill(p) PROVE AuthorityInv'
  BY <1>1, <1>15 DEF Kill, Leave, Forget, TypeOK, disk, Executing
<1>16. CASE Upgrade \/ UNCHANGED vars
  BY <1>1, <1>16 DEF Upgrade, vars, disk, Executing
<1> QED
  BY <1>3, <1>4, <1>5, <1>6, <1>7, <1>8, <1>9, <1>10, <1>11, <1>12, <1>13, <1>14, <1>15, <1>16
     DEF Next, Resume, Execute

(* A run under the P5 protocol is executed by one process at a time, under the
   envelope of the last durable record, and the manifest says so from
   initialize_case on. *)
THEOREM AuthorizedWriter == Spec => []WriterIsAuthorized
<1>1. TypeOK /\ AuthorityInv => RunsAsAuthorized
  BY MemoryType DEF AuthorityInv, RunsAsAuthorized
<1> QED
  BY <1>1, OneWriter, TypeInit, TypeStep, OwnerInit, OwnerStep, AuthorityInit, AuthorityStep, PTL
     DEF Spec, WriterIsAuthorized

-----------------------------------------------------------------------------
(* What _resume_p5 accepts as an amendment passes the record's validators. *)
LEMMA AcceptedIsValid ==
  ASSUME TypeOK, NEW p \in Processes, NEW m \in mem[p], NEW r \in request[p],
         Accepts(m, r), Requested(r), existing_record(r) = {}
  PROVE  RecordValid(NewRecord(m, r))
<1> DEFINE current == authorized_envelope(journal)
           wanted == requested_envelope(r, current)
<1>1. current \in Envelopes /\ wanted \in [iterations: Nat, budget: Nat]
  BY EnvelopeType, RequestType DEF TypeOK
<1>2. NewEnvelope(m, r)
  BY DEF Accepts, Consistent
<1>3. NewRecord(m, r).new = wanted /\ NewRecord(m, r).old = current
      /\ NewRecord(m, r).prior_status = m.status /\ NewRecord(m, r).completed = Completed
  BY DEF NewRecord
<1> QED
  BY <1>1, <1>2, <1>3 DEF NewEnvelope, RecordValid, Envelopes

LEMMA RecordsStep == TypeOK /\ RecordsValid /\ [Next]_vars => RecordsValid'
<1> SUFFICES ASSUME TypeOK, RecordsValid, [Next]_vars PROVE RecordsValid'
  OBVIOUS
<1>1. ASSUME NEW p \in Commands, Authorize(p) PROVE RecordsValid'
  <2>1. PICK m \in mem[p], r \in request[p] :
          /\ Accepts(m, r) /\ Requested(r) /\ existing_record(r) = {}
          /\ journal' = Append(journal, NewRecord(m, r))
    BY <1>1 DEF Authorize
  <2>2. RecordValid(NewRecord(m, r)) /\ NewRecord(m, r) \in RecordType
    BY <2>1, AcceptedIsValid, NewRecordType DEF Processes
  <2>3. journal \in Seq(RecordType)
    BY DEF TypeOK
  <2>4. \A k \in DOMAIN journal' :
           \/ k \in DOMAIN journal /\ journal'[k] = journal[k]
           \/ journal'[k] = NewRecord(m, r)
    BY <2>1, <2>2, <2>3
  <2> QED
    BY <2>2, <2>4 DEF RecordsValid
<1>2. CASE ~ \E p \in Commands : Authorize(p)
  <2>1. journal' = journal
    BY <1>2 DEF Next, Resume, Execute, ReadManifest, continuation_lock, OwnerConflict, Decline,
       Continue, ResumeLegacy, initialize_case, CommitWindow, FinishIteration,
       NextIteration, finalize_run, Abort, Kill, Upgrade, vars, disk
  <2> QED
    BY <2>1 DEF RecordsValid
<1> QED
  BY <1>1, <1>2

(* Every record that was appended can be read again: the checks made before a
   record is written imply the validators that every later reading applies
   (_resume_p5, ContinuationRecord.validate_hashes_and_extension). *)
THEOREM JournalReadable == Spec => []RecordsValid
<1>1. Init => RecordsValid
  BY DEF Init, RecordsValid
<1> QED
  BY <1>1, TypeInit, TypeStep, RecordsStep, PTL DEF Spec

-----------------------------------------------------------------------------
(* What can go on.  While nobody executes, manifest.json and the latest safe
   checkpoint tell the same story, up to one record that no execution has published; while somebody does, the checkpoint is its work. *)

Interruptions == {"INTERRUPTED", "FAILED_INFRASTRUCTURE"}

(* A run that used all its iterations. *)
Exhausted(m) ==
  /\ checkpoint # {}
  /\ \/ m.segment = Len(journal)
     \/ /\ m.segment = Len(journal) - 1
        /\ \A c \in checkpoint : c.completed < authorized_envelope(journal).iterations
  /\ \A c \in checkpoint : \A k \in DOMAIN journal :
       k <= m.segment => journal[k].new.iterations <= c.completed

JournalGrows ==
  \A k \in DOMAIN journal :
    journal[k].new.iterations <= authorized_envelope(journal).iterations

(* The last record is not published: its command is about to, or was cut off. *)
CutOff(m) ==
  /\ m.segment = Len(journal) - 1
  /\ m.status = journal[Len(journal)].prior_status

AtRest ==
  /\ \A c, d \in checkpoint : c = d
  /\ \A m, n \in manifest : m = n
  /\ \A m \in manifest, c \in checkpoint :
       m.status # "RUNNING" => m.completed = {c.completed} /\ m.snapshot = {c.snapshot}
  /\ \A m \in manifest : m.segment < Len(journal) => CutOff(m)
  /\ \A m \in manifest : m.status \in Interruptions => m.segment = Len(journal)
  /\ \A m \in manifest : m.status = "COMPLETED_MAX_ITERATIONS" => Exhausted(m)
  /\ JournalGrows

InWork ==
  \A p \in Executing :
    /\ \A s, t \in work[p] : s = t
    /\ \A m \in mem[p] : m.status = "RUNNING"
    /\ IF p = first /\ pc[p] = "initialize" THEN checkpoint = {} ELSE work[p] = checkpoint
    /\ pc[p] # "initialize" => \A m \in manifest : m.status = "RUNNING"

RestInv == AtRest /\ InWork

WriterInv == TypeOK /\ OwnerInv /\ AuthorityInv

LEMMA WriterStep == WriterInv /\ [Next]_vars => WriterInv'
BY TypeStep, OwnerStep, AuthorityStep DEF WriterInv

LEMMA RestInit == Init => RestInv
<1> SUFFICES ASSUME Init PROVE RestInv
  OBVIOUS
<1>1. manifest = {} /\ checkpoint = {} /\ journal = <<>>
  BY DEF Init
<1>2. AtRest
  BY <1>1 DEF AtRest, JournalGrows
<1>3. Executing = {first}
  BY DEF Init, Executing, Processes
<1>4. /\ work[first] = {[completed |-> 0, snapshot |-> 0]}
      /\ mem[first] = {Manifests(InitialEnvelope)} /\ pc[first] = "initialize"
  BY DEF Init, Processes
<1>5. InWork
  BY <1>1, <1>3, <1>4 DEF InWork, Manifests
<1> QED
  BY <1>2, <1>5 DEF RestInv

LEMMA IterationsType ==
  ASSUME NEW records \in Seq(RecordType)
  PROVE  /\ authorized_envelope(records).iterations \in Nat
         /\ \A k \in DOMAIN records : records[k].new.iterations \in Nat
<1>1. \A k \in DOMAIN records : records[k] \in RecordType
  OBVIOUS
<1> QED
  BY <1>1, EnvelopeType DEF RecordType, Envelopes

(* Iterations that are authorized go on growing: a new record is accepted only
   where the limit of the last one was reached. *)
LEMMA AuthorizedGrows ==
  ASSUME TypeOK, AtRest, NEW p \in Processes, mem[p] = manifest,
         NEW m \in mem[p], NEW r \in request[p],
         Accepts(m, r), Requested(r), existing_record(r) = {},
         journal' = Append(journal, NewRecord(m, r)), UNCHANGED <<checkpoint, manifest>>
  PROVE  AtRest'
<1> DEFINE current == authorized_envelope(journal)
           wanted == requested_envelope(r, current)
<1>1. /\ current \in Envelopes /\ wanted \in [iterations: Nat, budget: Nat]
      /\ journal \in Seq(RecordType)
  BY EnvelopeType, RequestType DEF TypeOK
<1>2. NewEnvelope(m, r) /\ CheckpointAgrees(m) /\ ManifestHead(m)
  BY DEF Accepts, Consistent
<1>3. authorized_envelope(journal') = wanted
  BY <1>1 DEF NewRecord, authorized_envelope
<1>4. /\ Len(journal') = Len(journal) + 1
      /\ DOMAIN journal = 1..Len(journal) /\ DOMAIN journal' = 1..(Len(journal) + 1)
      /\ Len(journal) \in Nat
      /\ \A k \in DOMAIN journal : journal'[k] = journal[k]
      /\ journal'[Len(journal) + 1].new = wanted
  BY <1>1 DEF NewRecord
<1>5. wanted.iterations >= current.iterations
  BY <1>2 DEF NewEnvelope
<1>6. \A k \in DOMAIN journal : journal[k].new.iterations \in Nat
  BY <1>1, IterationsType
<1>7. wanted.iterations \in Nat /\ current.iterations \in Nat
  BY <1>1 DEF Envelopes
<1>8. JournalGrows'
  <2>1. \A k \in DOMAIN journal : journal[k].new.iterations <= current.iterations
    BY DEF AtRest, JournalGrows
  <2> HIDE DEF current, wanted
  <2>2. \A k \in DOMAIN journal' : journal'[k].new.iterations <= wanted.iterations
    BY <1>4, <1>5, <1>6, <1>7, <2>1
  <2> QED
    BY <1>3, <2>2 DEF JournalGrows
<1>9. \A n \in manifest : n = m
  BY DEF AtRest
<1>10. m.status \notin Interruptions
  BY <1>2 DEF NewEnvelope, Interruptions
<1>11. ASSUME m.status = "COMPLETED_MAX_ITERATIONS" PROVE Exhausted(m)'
  <2>1. Exhausted(m)
    BY <1>11 DEF AtRest
  <2>2. PICK c \in checkpoint : TRUE
    BY <2>1 DEF Exhausted
  <2>3. Completed = c.completed /\ \A d \in checkpoint : d = c
    BY <2>2 DEF AtRest, Completed
  <2>4. Completed = current.iterations /\ wanted.iterations > current.iterations
    BY <1>2, <1>11 DEF NewEnvelope
  <2>5. m.segment \in Nat /\ c.completed \in Nat
    BY <2>2 DEF TypeOK, ManifestType, SessionType
  <2>6. m.segment = Len(journal)
    <3>1. ~(c.completed < current.iterations)
      BY <1>7, <2>3, <2>4, <2>5
    <3> QED
      BY <2>1, <2>2, <3>1 DEF Exhausted
  <2>7. \A k \in DOMAIN journal : journal[k].new.iterations <= c.completed
    BY <1>4, <2>1, <2>2, <2>6 DEF Exhausted
  <2> HIDE DEF current, wanted
  <2>8. \A d \in checkpoint : \A k \in DOMAIN journal' :
          k <= m.segment => journal'[k].new.iterations <= d.completed
    BY <1>4, <2>3, <2>6, <2>7
  <2>9. \A d \in checkpoint : d.completed < authorized_envelope(journal').iterations
    BY <1>3, <1>7, <2>3, <2>4
  <2>10. m.segment = Len(journal') - 1
    BY <1>4, <2>6
  <2> QED
    BY <2>2, <2>8, <2>9, <2>10 DEF Exhausted
<1>12. CutOff(m)'
  <2>1. m.segment = Len(journal)
    BY <1>2, <1>11 DEF ManifestHead, Exhausted
  <2>2. journal'[Len(journal')] = NewRecord(m, r) /\ NewRecord(m, r).prior_status = m.status
    BY <1>1, <1>4 DEF NewRecord
  <2> QED
    BY <1>4, <2>1, <2>2 DEF CutOff
<1>13. ~ (m.status \in Interruptions)
  BY <1>10
<1> QED
  BY <1>8, <1>9, <1>11, <1>12, <1>13 DEF AtRest

(* A process that executes stops: the manifest it leaves agrees with its last
   checkpoint and names every record. *)
LEMMA LeavesConsistent ==
  ASSUME WriterInv, RestInv, NEW p \in Executing, NEW status,
         status = "COMPLETED_MAX_ITERATIONS" =>
           /\ pc[p] = "checking"
           /\ Session(p).completed >= Memory(p).envelope.iterations,
         manifest' = {Final(p, status)}, UNCHANGED <<journal, checkpoint>>,
         Executing' = {}
  PROVE  RestInv'
<1> DEFINE s == Session(p)
           m == Final(p, status)
<1>1. /\ p \in Processes /\ s \in work[p] /\ s \in SessionType
      /\ Memory(p) \in mem[p] /\ Memory(p) \in ManifestType
  BY MemoryType DEF WriterInv
<1>2. /\ m.completed = {s.completed} /\ m.snapshot = {s.snapshot}
      /\ m.status = status /\ m.segment = Len(journal)
      /\ Memory(p).envelope = authorized_envelope(journal)
  BY <1>1 DEF Final, WriterInv, AuthorityInv, ManifestType
<1>3. \A c \in checkpoint : c = s
  BY <1>1 DEF RestInv, InWork
<1>4. ASSUME status = "COMPLETED_MAX_ITERATIONS" PROVE Exhausted(m)
  <2>1. checkpoint # {}
    BY <1>1, <1>4 DEF RestInv, InWork
  <2>2. \A k \in DOMAIN journal :
          journal[k].new.iterations <= authorized_envelope(journal).iterations
    BY DEF RestInv, AtRest, JournalGrows
  <2>3. s.completed >= authorized_envelope(journal).iterations
    BY <1>2, <1>4
  <2>4. /\ authorized_envelope(journal).iterations \in Nat /\ s.completed \in Nat
        /\ \A k \in DOMAIN journal : journal[k].new.iterations \in Nat
    <3>1. journal \in Seq(RecordType)
      BY DEF WriterInv, TypeOK
    <3> QED
      BY <1>1, <3>1, IterationsType DEF SessionType
  <2> HIDE DEF s, m
  <2>5. \A k \in DOMAIN journal : journal[k].new.iterations <= s.completed
    BY <2>2, <2>3, <2>4
  <2> QED
    BY <1>2, <1>3, <2>1, <2>5 DEF Exhausted
<1> HIDE DEF s, m
<1>5. AtRest'
  <2>1. manifest' = {m}
    BY DEF m
  <2>2. m.status = "COMPLETED_MAX_ITERATIONS" => status = "COMPLETED_MAX_ITERATIONS"
    BY <1>2
  <2>3. JournalGrows'
    BY DEF RestInv, AtRest, JournalGrows
  <2>4. \A n \in manifest' : n.status = "COMPLETED_MAX_ITERATIONS" => Exhausted(n)'
    <3>1. \A n \in manifest' : n = m
      BY <2>1
    <3>2. status = "COMPLETED_MAX_ITERATIONS" =>
            /\ checkpoint' # {} /\ m.segment = Len(journal')
            /\ \A c \in checkpoint' : \A k \in DOMAIN journal' :
                 k <= m.segment => journal'[k].new.iterations <= c.completed
      BY <1>2, <1>4 DEF Exhausted
    <3> QED
      BY <2>2, <3>1, <3>2 DEF Exhausted
  <2> QED
    <3>1. \A n \in manifest' : ~ (n.segment < Len(journal'))
      BY <1>2, <2>1 DEF WriterInv, TypeOK
    <3> QED
      BY <1>2, <1>3, <2>1, <2>3, <2>4, <3>1 DEF RestInv, AtRest
<1>6. InWork'
  BY DEF InWork
<1> QED
  BY <1>5, <1>6 DEF RestInv

LEMMA RestStep == WriterInv /\ RestInv /\ [Next]_vars => RestInv'
<1> SUFFICES ASSUME WriterInv, RestInv, [Next]_vars PROVE RestInv'
  OBVIOUS
<1>0. TypeOK /\ OwnerInv /\ AuthorityInv /\ WriterInv'
  BY WriterStep DEF WriterInv
<1> USE <1>0
(* Nobody starts to execute, and what executes keeps what it has. *)
<1>1. ASSUME Executing' \subseteq Executing, UNCHANGED disk,
             \A p \in Executing' : /\ mem'[p] = mem[p] /\ work'[p] = work[p]
                                   /\ pc[p] = "initialize" <=> pc'[p] = "initialize"
      PROVE  RestInv'
  <2>1. UNCHANGED <<manifest, journal, checkpoint>>
    BY <1>1 DEF disk
  <2>2. AtRest'
    BY <2>1 DEF RestInv, AtRest, CutOff, Exhausted, JournalGrows
  <2>3. InWork'
    BY <1>1, <2>1 DEF RestInv, InWork
  <2> QED
    BY <2>2, <2>3 DEF RestInv
<1>2. ASSUME NEW p \in Commands, ReadManifest(p) PROVE RestInv'
  BY <1>1, <1>2 DEF ReadManifest, TypeOK, Executing, Processes
<1>3. ASSUME NEW p \in Commands, continuation_lock(p) PROVE RestInv'
  BY <1>1, <1>3 DEF continuation_lock, TypeOK, Executing, Processes
<1>4. ASSUME NEW p \in Commands, OwnerConflict(p) PROVE RestInv'
  BY <1>1, <1>4 DEF OwnerConflict, Leave, Forget, TypeOK, Executing, Processes
<1>5. ASSUME NEW p \in Commands, Decline(p) PROVE RestInv'
  BY <1>1, <1>5 DEF Decline, Deciding, Leave, Forget, TypeOK, Executing, Processes
<1>6. ASSUME NEW p \in Commands, Authorize(p) \/ Continue(p) PROVE RestInv'
  <2>1. p \in Processes /\ p # first /\ pc[p] = "deciding" /\ mem[p] = manifest
    BY <1>6, ContinuationAssumption
       DEF Authorize, Continue, Deciding, Processes, OwnerInv
  <2>2. PICK m, e : m \in mem[p] /\ Enter(p, m, journal', e)
    BY <1>6 DEF Authorize, Continue, disk
  <2>3. UNCHANGED <<checkpoint, manifest>>
    BY <1>6 DEF Authorize, Continue, disk
  <2>4. AtRest'
    <3>1. CASE Continue(p)
      BY <3>1 DEF Continue, disk, RestInv, AtRest, CutOff, Exhausted, JournalGrows
    <3>2. CASE Authorize(p)
      BY <2>1, <2>3, <3>2, AuthorizedGrows DEF Authorize, RestInv
    <3> QED
      BY <1>6, <3>1, <3>2
  <2>5. Executing' = {p} /\ pc'[p] = "initialize"
    <3>1. journal' \in Seq(RecordType) /\ pc[p] \in Locked
      BY <2>1 DEF WriterInv, TypeOK, Locked
    <3> QED
      BY <2>1, <2>2, <3>1, EnterAuthorized
  <2>6. work'[p] = checkpoint /\ \A n \in mem'[p] : n.status = "RUNNING"
    <3>1. m \in ManifestType
      BY <2>1, <2>2 DEF TypeOK
    <3>2. /\ work'[p] = checkpoint
          /\ mem'[p] = {[m EXCEPT !.segment = segment_index(journal'),
                                  !.status = "RUNNING",
                                  !.envelope = authorized_envelope(journal')]}
      BY <2>1, <2>2 DEF Enter, TypeOK
    <3> QED
      BY <3>1, <3>2 DEF ManifestType
  <2> QED
    BY <2>1, <2>3, <2>4, <2>5, <2>6 DEF RestInv, AtRest, InWork
<1>7. ASSUME NEW p \in Commands, ResumeLegacy(p) PROVE RestInv'
  BY <1>1, <1>7 DEF ResumeLegacy, Leave, Forget, TypeOK, Executing, Processes
<1>8. ASSUME NEW p \in Processes, initialize_case(p) PROVE RestInv'
  <2>1. p \in Executing /\ pc[p] = "initialize"
    BY <1>8 DEF initialize_case, Executing
  <2>2. \A q \in Executing : q = p
    BY <2>1, OnlyWriter DEF Executing, Locked
  <2>3. Executing' = {p}
    BY <1>8, <2>2 DEF initialize_case, TypeOK, Executing
  <2>4. Published(p).status = "RUNNING"
    BY <2>1, MemoryType DEF Published, ManifestType, RestInv, InWork
  <2>5. /\ manifest' = {Published(p)} /\ mem'[p] = {Published(p)}
        /\ UNCHANGED <<work, journal>>
        /\ checkpoint' = work[p]
        /\ pc'[p] = "iterating"
    BY <1>8, <2>1 DEF initialize_case, TypeOK, RestInv, InWork
  <2>6. \A c, d \in checkpoint' : c = d
    BY <2>1, <2>5 DEF RestInv, InWork
  <2>7. AtRest'
    <3>1. \A n \in manifest' : ~ (n.segment < Len(journal'))
      BY <1>0, <2>3, <2>5 DEF WriterInv, AuthorityInv, TypeOK
    <3> QED
      BY <2>4, <2>5, <2>6, <3>1 DEF RestInv, AtRest, JournalGrows, Interruptions
  <2>8. InWork'
    BY <2>3, <2>4, <2>5, <2>6 DEF InWork
  <2> QED
    BY <2>7, <2>8 DEF RestInv
(* A checkpoint is saved: the manifest on disk is that of a running process. *)
<1>9. ASSUME NEW p \in Processes, CommitWindow(p) \/ FinishIteration(p) PROVE RestInv'
  <2>1. p \in Executing /\ pc[p] # "initialize"
    BY <1>9 DEF CommitWindow, FinishIteration, Executing
  <2>2. \A q \in Executing : q = p
    BY <2>1, OnlyWriter DEF Executing, Locked
  <2>3. PICK s : Save(p, s)
    BY <1>9 DEF CommitWindow, FinishIteration
  <2>4. /\ work'[p] = {s} /\ checkpoint' = {s}
        /\ UNCHANGED <<mem, manifest, journal>>
    BY <1>9, <2>1, <2>3 DEF CommitWindow, FinishIteration, Save, TypeOK
  <2>5. Executing' \subseteq {p} /\ pc'[p] # "initialize"
    BY <1>9, <2>1, <2>2 DEF CommitWindow, FinishIteration, Executing, TypeOK
  <2>6. \A m \in manifest : m.status = "RUNNING"
    BY <2>1 DEF RestInv, InWork
  <2>7. AtRest'
    BY <2>4, <2>6 DEF RestInv, AtRest, CutOff, JournalGrows, Interruptions
  <2>8. InWork'
    BY <2>1, <2>4, <2>5, <2>6 DEF RestInv, InWork
  <2> QED
    BY <2>7, <2>8 DEF RestInv
<1>10. ASSUME NEW p \in Processes, NextIteration(p) PROVE RestInv'
  BY <1>1, <1>10 DEF NextIteration, TypeOK, Executing
<1>11. ASSUME NEW p \in Executing, Leave(p, "done") PROVE Executing' = {}
  <2>1. \A q \in Executing : q = p
    BY OnlyWriter DEF Executing, Locked
  <2> QED
    BY <1>11, <2>1 DEF Leave, Executing, TypeOK
<1>12. ASSUME NEW p \in Processes, finalize_run(p) PROVE RestInv'
  <2>1. p \in Executing /\ pc[p] = "checking" /\ Leave(p, "done")
        /\ UNCHANGED <<journal, checkpoint>>
    BY <1>12 DEF finalize_run, Executing
  <2>2. PICK status : /\ status = "COMPLETED_MAX_ITERATIONS" =>
                           Session(p).completed >= Memory(p).envelope.iterations
                      /\ manifest' = {Final(p, status)}
    BY <1>12 DEF finalize_run
  <2> QED
    BY <1>11, <2>1, <2>2, LeavesConsistent
<1>13. ASSUME NEW p \in Processes, Abort(p) PROVE RestInv'
  <2>1. p \in Executing /\ Leave(p, "done") /\ UNCHANGED <<journal, checkpoint>>
    BY <1>13 DEF Abort
  <2>2. PICK status : /\ status # "COMPLETED_MAX_ITERATIONS"
                      /\ manifest' = {Final(p, status)}
    BY <1>13 DEF Abort, Aborted
  <2> QED
    BY <1>11, <2>1, <2>2, LeavesConsistent
<1>14. ASSUME NEW p \in Processes, Kill(p) PROVE RestInv'
  BY <1>1, <1>14 DEF Kill, Leave, Forget, TypeOK, Executing
<1>15. CASE Upgrade \/ UNCHANGED vars
  BY <1>1, <1>15 DEF Upgrade, vars, Executing
<1> QED
  BY <1>2, <1>3, <1>4, <1>5, <1>6, <1>7, <1>8, <1>9, <1>10, <1>12, <1>13, <1>14, <1>15
     DEF Next, Resume, Execute

(* The comparisons of a resume on a stopped run. *)
LEMMA RestResumes ==
  ASSUME TypeOK, AtRest, Stopped, NEW m \in manifest, NEW r \in Requests,
         checkpoint # {}, m.status # "RUNNING", ManifestHead(m), NonceConsistent(r),
         Requested(r) => existing_record(r) # {}
  PROVE  Consistent(m, r)
BY DEF Consistent, CheckpointAgrees, AtRest, Stopped

(* Iterations that were granted and not published. *)
LEMMA ExtensionsGoOn ==
  ASSUME TypeOK, AtRest, Stopped, NEW m \in manifest, NEW r \in Requests,
         m.status = "COMPLETED_MAX_ITERATIONS", m.segment < Len(journal),
         \/ ~Requested(r)
         \/ existing_record(r) = {Len(journal)} /\ NonceConsistent(r)
  PROVE  Accepts(m, r)
<1>1. Exhausted(m) /\ m.segment \in Nat /\ Len(journal) \in Nat
  BY DEF AtRest, Stopped, TypeOK, ManifestType
<1>2. /\ m.segment = Len(journal) - 1
      /\ \A c \in checkpoint : c.completed < authorized_envelope(journal).iterations
  BY <1>1 DEF Exhausted
<1>3. Completed < authorized_envelope(journal).iterations
  BY <1>1, <1>2 DEF Exhausted, Completed
<1>4. ~Requested(r) => existing_record(r) = {}
  BY DEF existing_record
<1>5. NonceConsistent(r)
  BY <1>4 DEF NonceConsistent
<1>6. EffectiveLimit(r) = authorized_envelope(journal).iterations
  <2>1. CASE ~Requested(r)
    BY <2>1 DEF EffectiveLimit
  <2>2. CASE Requested(r)
    <3>1. existing_record(r) = {Len(journal)} /\ journal # <<>>
      BY <1>1, <2>2
    <3>2. authorized_envelope(journal) = journal[Len(journal)].new
      BY <3>1 DEF authorized_envelope
    <3>3. journal[Len(journal)].new = requested_envelope(r, authorized_envelope(journal))
      BY <1>5, <3>1 DEF NonceConsistent
    <3> QED
      BY <2>2, <3>2, <3>3 DEF EffectiveLimit
  <2> QED
    BY <2>1, <2>2
<1>7. pending_authorization(m, EffectiveLimit(r))
  BY <1>3, <1>6 DEF pending_authorization
<1>8. Consistent(m, r)
  BY <1>1, <1>2, <1>5, RestResumes DEF ManifestHead, Exhausted
<1> QED
  BY <1>7, <1>8 DEF Accepts, already_applied

(* Up to one record, iterations go on and a budget does not. *)
LEMMA CutOffIsDecided ==
  ASSUME TypeOK, AtRest, RecordsValid
  PROVE  CutOffAmendments
<1> SUFFICES ASSUME Stopped, NEW m \in manifest, m.segment < Len(journal)
             PROVE  LET last == journal[Len(journal)]
                    IN /\ m.segment = Len(journal) - 1 /\ m.status = last.prior_status
                       /\ \A r \in Requests :
                            IF AddsIterations(last)
                              THEN ~Requested(r) \/ (existing_record(r) = {Len(journal)}
                                                      /\ NonceConsistent(r))
                                     => Accepts(m, r)
                              ELSE ~Accepts(m, r)
  BY DEF CutOffAmendments
<1> DEFINE last == journal[Len(journal)]
<1>1. CutOff(m)
  BY DEF AtRest
<1>2. m.segment \in Nat /\ Len(journal) \in Nat /\ Len(journal) \in DOMAIN journal
  BY DEF TypeOK, ManifestType
<1>3. RecordValid(last)
  BY <1>2 DEF RecordsValid
<1>4. ASSUME AddsIterations(last), NEW r \in Requests,
             ~Requested(r) \/ (existing_record(r) = {Len(journal)} /\ NonceConsistent(r))
      PROVE  Accepts(m, r)
  <2>1. m.status = "COMPLETED_MAX_ITERATIONS"
    BY <1>1, <1>3, <1>4 DEF CutOff, RecordValid, AddsIterations
  <2> QED
    BY <1>4, <2>1, ExtensionsGoOn
<1>5. ASSUME ~AddsIterations(last), NEW r \in Requests PROVE ~Accepts(m, r)
  <2>1. m.status = "BUDGET_EXHAUSTED"
    BY <1>1, <1>3, <1>5 DEF CutOff, RecordValid, AddsIterations
  <2>2. ~ManifestHead(m)
    BY <1>1, <1>2, <2>1 DEF CutOff, ManifestHead
  <2> QED
    BY <2>2 DEF Accepts, Consistent
<1> QED
  BY <1>1, <1>4, <1>5 DEF CutOff

LEMMA InterruptionsGoOn ==
  ASSUME TypeOK, AtRest
  PROVE  InterruptedRunsResume
<1> SUFFICES ASSUME Stopped, checkpoint # {}, NEW m \in manifest,
                    m.status \in {"INTERRUPTED", "FAILED_INFRASTRUCTURE"},
                    NEW r \in Requests, ~Requested(r)
             PROVE  Accepts(m, r)
  BY DEF InterruptedRunsResume, PlainRequests
<1>1. m.segment = Len(journal)
  BY DEF AtRest, Stopped, Interruptions
<1>2. existing_record(r) = {}
  BY DEF existing_record
<1>3. Consistent(m, r)
  BY <1>1, <1>2, RestResumes DEF ManifestHead, NonceConsistent
<1> QED
  BY <1>2, <1>3 DEF Accepts, already_applied, resumable_interruption

(* However the commands are interleaved and wherever they die, a run that was
   interrupted, or granted iterations that nobody has used, passes the
   comparisons of the next resume; one whose budget was raised by a command that
   was cut off before it published the record fails them for every command
   (_resume_p5, initialize_case, _finalize_aborted). *)
THEOREM StoppedRunsContinue == Spec => []StoppedRunsGoOn
<1>1. WriterInv /\ RestInv /\ RecordsValid => StoppedRunsGoOn
  BY CutOffIsDecided, InterruptionsGoOn DEF WriterInv, RestInv, StoppedRunsGoOn
<1>2. Init => WriterInv /\ RecordsValid
  BY TypeInit, OwnerInit, AuthorityInit DEF WriterInv, Init, RecordsValid
<1>3. WriterInv /\ RecordsValid /\ [Next]_vars => RecordsValid'
  BY RecordsStep DEF WriterInv
<1> QED
  BY <1>1, <1>2, <1>3, WriterStep, RestInit, RestStep, PTL DEF Spec

-----------------------------------------------------------------------------
(* Repeated requests.  A command asks for one thing. *)

CommandInv == \A p \in Processes : \A r, s \in request[p] : r = s

LEMMA CommandStep == TypeOK /\ CommandInv /\ [Next]_vars => CommandInv'
<1> SUFFICES ASSUME TypeOK, CommandInv, [Next]_vars PROVE CommandInv'
  OBVIOUS
<1> USE DEF CommandInv, TypeOK
<1>1. ASSUME NEW p \in Commands, ReadManifest(p) PROVE CommandInv'
  BY <1>1 DEF ReadManifest
<1>2. ASSUME NEW p \in Commands, continuation_lock(p) PROVE CommandInv'
  BY <1>2 DEF continuation_lock, Processes
<1>3. ASSUME NEW p \in Commands, OwnerConflict(p) PROVE CommandInv'
  BY <1>3 DEF OwnerConflict, Leave
<1>4. ASSUME NEW p \in Commands, Decline(p) PROVE CommandInv'
  BY <1>4 DEF Decline, Leave
<1>5. ASSUME NEW p \in Commands, Authorize(p) \/ Continue(p) PROVE CommandInv'
  BY <1>5 DEF Authorize, Continue, Enter
<1>6. ASSUME NEW p \in Commands, ResumeLegacy(p) PROVE CommandInv'
  BY <1>6 DEF ResumeLegacy, Enter, Leave
<1>7. ASSUME NEW p \in Processes, Execute(p) PROVE CommandInv'
  BY <1>7 DEF Execute, initialize_case, CommitWindow, FinishIteration, NextIteration,
              finalize_run, Leave
<1>8. ASSUME NEW p \in Processes, Abort(p) \/ Kill(p) PROVE CommandInv'
  BY <1>8 DEF Abort, Kill, Leave
<1>9. CASE Upgrade \/ UNCHANGED vars
  BY <1>9 DEF Upgrade, vars
<1> QED
  BY <1>1, <1>2, <1>3, <1>4, <1>5, <1>6, <1>7, <1>8, <1>9 DEF Next, Resume

(* Only the two ways of accepting a command lead from the decision on. *)
LEMMA StartsAccepted ==
  ASSUME TypeOK, [Next]_vars, NEW p \in Processes,
         pc[p] = "deciding", pc'[p] = "initialize"
  PROVE  \E m \in mem[p], r \in request[p] : Accepts(m, r)
<1>1. ASSUME NEW q \in Commands, Authorize(q) \/ Continue(q)
      PROVE  \E m \in mem[p], r \in request[p] : Accepts(m, r)
  BY <1>1 DEF Authorize, Continue, Enter, TypeOK
<1>2. ASSUME NEW q \in Commands,
             \/ ReadManifest(q) \/ continuation_lock(q) \/ OwnerConflict(q) \/ Decline(q)
      PROVE  FALSE
  BY <1>2 DEF ReadManifest, continuation_lock, OwnerConflict, Decline, Leave, TypeOK
<1>3. ASSUME NEW q \in Commands, ResumeLegacy(q) PROVE FALSE
  BY <1>3 DEF ResumeLegacy, Enter, Leave, TypeOK
<1>4. ASSUME NEW q \in Processes, Execute(q) \/ Abort(q) \/ Kill(q) PROVE FALSE
  BY <1>4 DEF Execute, initialize_case, CommitWindow, FinishIteration, NextIteration,
              finalize_run, Abort, Kill, Leave, TypeOK
<1>5. CASE Upgrade \/ UNCHANGED vars
  BY <1>5 DEF Upgrade, vars
<1> QED
  BY <1>1, <1>2, <1>3, <1>4, <1>5 DEF Next, Resume

(* The iterations of a published record have been used up once the run says
   COMPLETED_MAX_ITERATIONS, so nothing is pending for a request that names it. *)
LEMMA PublishedIsApplied ==
  ASSUME WriterInv, RestInv, NEW p \in Processes, pc[p] = "deciding",
         NEW m \in mem[p], NEW r \in request[p], Accepts(m, r),
         NEW k \in existing_record(r), NEW n \in manifest
  PROVE  n.segment < k
<1>1. TypeOK /\ AtRest
  BY DEF WriterInv, RestInv
<1>2. mem[p] = manifest /\ n = m
  BY <1>1 DEF WriterInv, OwnerInv, AtRest
<1>3. /\ Requested(r) /\ k \in DOMAIN journal
      /\ journal[k].new = requested_envelope(r, authorized_envelope(journal))
  BY DEF existing_record, Accepts, Consistent, NonceConsistent
<1>4. EffectiveLimit(r) = journal[k].new.iterations
  BY <1>3 DEF EffectiveLimit
<1>5. m.status = "COMPLETED_MAX_ITERATIONS" /\ Completed < EffectiveLimit(r)
  BY DEF Accepts, already_applied, pending_authorization
<1>6. PICK c \in checkpoint : Completed = c.completed
  BY <1>1, <1>2, <1>5 DEF AtRest, Exhausted, Completed
<1>7. k <= m.segment => journal[k].new.iterations <= c.completed
  BY <1>1, <1>2, <1>3, <1>5, <1>6 DEF AtRest, Exhausted
<1>8. /\ journal[k].new.iterations \in Nat /\ c.completed \in Nat
      /\ k \in Nat /\ m.segment \in Nat
  <2>1. journal \in Seq(RecordType)
    BY <1>1 DEF TypeOK
  <2>2. journal[k].new.iterations \in Nat /\ k \in Nat
    BY <1>3, <2>1, IterationsType
  <2> QED
    BY <1>1, <1>2, <1>6, <2>2 DEF TypeOK, SessionType, ManifestType
<1> QED
  BY <1>2, <1>4, <1>5, <1>6, <1>7, <1>8

(* "Zero-paid result for ... idempotent no-op requests": a command that names a
   record some execution has published starts nothing
   (_resume_p5, ContinuationVerification). *)
THEOREM RepeatedRequestsStartNothing == Spec => RepeatedRequestsAreFree
<1>1. WriterInv /\ RestInv /\ CommandInv /\ [Next]_vars =>
        [\A p \in Processes, r \in UNION {request[q] : q \in Processes} :
           r \in request[p] /\ pc[p] = "deciding" /\ pc'[p] = "initialize" =>
             \A k \in existing_record(r), m \in manifest : m.segment < k]_vars
  <2> SUFFICES ASSUME WriterInv, RestInv, CommandInv, [Next]_vars,
                      NEW p \in Processes, NEW r \in request[p],
                      pc[p] = "deciding", pc'[p] = "initialize",
                      NEW k \in existing_record(r), NEW m \in manifest
               PROVE  m.segment < k
    OBVIOUS
  <2>1. PICK n \in mem[p], s \in request[p] : Accepts(n, s)
    BY StartsAccepted DEF WriterInv
  <2>2. s = r
    BY DEF CommandInv
  <2> QED
    BY <2>1, <2>2, PublishedIsApplied
<1>2. Init => WriterInv /\ CommandInv
  BY TypeInit, OwnerInit, AuthorityInit DEF WriterInv, CommandInv, Init
<1>3. WriterInv /\ CommandInv /\ [Next]_vars => CommandInv'
  BY CommandStep DEF WriterInv
<1> QED
  BY <1>1, <1>2, <1>3, WriterStep, RestInit, RestStep, PTL
     DEF Spec, RepeatedRequestsAreFree
===============================================================================
