------------------------ MODULE ResourceArbiterProofs ------------------------
(***************************************************************************)
(* Proofs about the resource arbiter, for any number of calls, processes   *)
(* and slots.                                                              *)
(***************************************************************************)
EXTENDS ResourceArbiter, TLAPS

-----------------------------------------------------------------------------
(* Type correctness. *)

LEMMA DocumentType ==
  ASSUME NEW c \in Calls PROVE Document(c) \in Metadata
BY DEF Document, Metadata, Held, Blank

LEMMA TypeInit == Init => TypeOK
BY ArbiterAssumption DEF Init, TypeOK, PCs, Jobs, Metadata, Blank, Slots, Locked

LEMMA TypeStep == TypeOK /\ [Next]_vars => TypeOK'
<1> SUFFICES ASSUME TypeOK, [Next]_vars PROVE TypeOK'
  OBVIOUS
<1> USE ArbiterAssumption DEF TypeOK, Slots
<1>1. ASSUME NEW c \in Calls, Begin(c) PROVE TypeOK'
  BY <1>1 DEF Begin, Goto, PCs, Locked
<1>2. ASSUME NEW c \in Calls, Poll(c) PROVE TypeOK'
  <2>1. CASE cancels[c] > 0
    BY <1>2, <2>1 DEF Poll, Goto, PCs, Locked
  <2>2. CASE ~(cancels[c] > 0)
    <3>1. /\ pc' = [pc EXCEPT ![c] = "scan"]
          /\ at' = [at EXCEPT ![c] = 0]
          /\ UNCHANGED <<job, snap, cancels, alive, record, file, op, recorded>>
      BY <1>2, <2>2 DEF Poll, Goto
    <3>2. at' \in [Calls -> 0..NumSlots]
      BY <3>1
    <3> QED
      BY <3>1, <3>2 DEF PCs, Locked
  <2> QED
    BY <2>1, <2>2
<1>3. ASSUME NEW c \in Calls, TryLock(c) PROVE TypeOK'
  <2>1. CASE LockFree(c)
    BY <1>3, <2>1 DEF TryLock, Goto, PCs, Locked
  <2>2. CASE ~LockFree(c)
    BY <1>3, <2>2 DEF TryLock, Goto, GotoFor, PCs, Locked, Jobs
  <2> QED
    BY <2>1, <2>2
<1>4. ASSUME NEW c \in Calls, Exhausted(c) PROVE TypeOK'
  BY <1>4 DEF Exhausted, Goto, PCs, Locked
<1>5. ASSUME NEW c \in Calls, GiveUp(c) PROVE TypeOK'
  BY <1>5 DEF GiveUp, Goto, PCs, Locked
<1>6. ASSUME NEW c \in Calls, ReadMetadata(c) PROVE TypeOK'
  <2>1. CASE GotoFor(c, "unlock", "skip") \/ GotoFor(c, "unlock", "raise")
    BY <1>6, <2>1 DEF ReadMetadata, Goto, GotoFor, PCs, Locked, Jobs
  <2>2. CASE Goto(c, "probe") /\ UNCHANGED job
    BY <1>6, <2>2 DEF ReadMetadata, Goto, GotoFor, PCs, Locked
  <2> QED
    BY <1>6, <2>1, <2>2 DEF ReadMetadata
<1>7. ASSUME NEW c \in Calls, ProbeOwner(c) PROVE TypeOK'
  <2>1. Blank("EMPTY") \in Metadata
    BY DEF Blank, Metadata
  <2>2. \/ GotoFor(c, "unlock", "skip")
        \/ GotoFor(c, "trunc", "admit")
        \/ GotoFor(c, "unlock", "raise")
    BY <1>7 DEF ProbeOwner
  <2> QED
    BY <1>7, <2>1, <2>2 DEF ProbeOwner, Goto, GotoFor, PCs, Locked, Jobs
<1>8. ASSUME NEW c \in Calls, Truncate(c) PROVE TypeOK'
  <2>1. Blank("EMPTY") \in Metadata
    BY DEF Blank, Metadata
  <2> QED
    BY <1>8, <2>1 DEF Truncate, Goto, PCs, Locked
<1>9. ASSUME NEW c \in Calls, Flush(c) PROVE TypeOK'
  <2>1. Document(c) \in Metadata /\ Blank("INVALID") \in Metadata
    BY DocumentType DEF Blank, Metadata
  <2>2. AfterWrite(c) \in {"announce", "held", "unlock"}
    BY DEF AfterWrite
  <2>3. recorded' \subseteq Calls
    BY <1>9 DEF Flush
  <2> QED
    BY <1>9, <2>1, <2>2, <2>3 DEF Flush, Goto, PCs, Locked
<1>10. ASSUME NEW c \in Calls, WriteFault(c) PROVE TypeOK'
  <2>1. AfterWrite(c) \in {"announce", "held", "unlock"}
    BY DEF AfterWrite
  <2> QED
    BY <1>10, <2>1 DEF WriteFault, Goto, GotoFor, PCs, Locked, Jobs
<1>11. ASSUME NEW c \in Calls, Announce(c) PROVE TypeOK'
  BY <1>11 DEF Announce, Goto, GotoFor, PCs, Locked, Jobs
<1>12. ASSUME NEW c \in Calls, Deliver(c) PROVE TypeOK'
  BY <1>12 DEF Deliver, Goto, GotoFor, PCs, Locked, Jobs
<1>13. ASSUME NEW c \in Calls, Cancel(c) PROVE TypeOK'
  <2>1. cancels[c] \in 0..2 /\ cancels[c] < MaxCancels
    BY <1>13 DEF Cancel
  <2>2. cancels[c] + 1 \in 0..2
    BY <2>1
  <2>3. cancels' \in [Calls -> 0..2]
    BY <1>13, <2>2 DEF Cancel
  <2> QED
    BY <1>13, <2>3 DEF Cancel
<1>14. ASSUME NEW c \in Calls, Spawn(c) PROVE TypeOK'
  BY <1>14 DEF Spawn, Goto, GotoFor, PCs, Locked, Jobs
<1>15. ASSUME NEW c \in Calls, WorkStep(c) PROVE TypeOK'
  BY <1>15 DEF WorkStep, WorkerExit, ContainerExit
<1>16. ASSUME NEW c \in Calls, ClearWorker(c) PROVE TypeOK'
  BY <1>16 DEF ClearWorker, Goto, GotoFor, PCs, Locked, Jobs
<1>17. ASSUME NEW c \in Calls, Release(c) PROVE TypeOK'
  BY <1>17 DEF Release, Goto, GotoFor, PCs, Locked, Jobs
<1>18. ASSUME NEW c \in Calls, Unlock(c) PROVE TypeOK'
  BY <1>18 DEF Unlock, DropRecord, Goto, PCs, Locked
<1>19. ASSUME NEW c \in Calls, CloseStream(c) PROVE TypeOK'
  <2>1. at[c] \in Slots /\ at[c] + 1 \in 0..NumSlots
    BY <1>19 DEF CloseStream
  <2>2. record' \in [Slots -> Procs \cup {NoProc}]
    BY <1>19, <2>1 DEF CloseStream, DropRecord
  <2>3. CASE job[c] = "skip"
    <3>1. /\ pc' = [pc EXCEPT ![c] = "scan"]
          /\ job' = [job EXCEPT ![c] = "none"]
          /\ at' = [at EXCEPT ![c] = @ + 1]
          /\ UNCHANGED <<snap, cancels, alive, file, op, recorded>>
      BY <1>19, <2>3 DEF CloseStream, Goto, GotoFor
    <3>2. at' \in [Calls -> 0..NumSlots]
      BY <2>1, <3>1
    <3> QED
      BY <2>2, <3>1, <3>2 DEF PCs, Locked, Jobs
  <2>4. CASE job[c] # "skip"
    BY <1>19, <2>2, <2>4 DEF CloseStream, Goto, PCs, Locked
  <2> QED
    BY <2>3, <2>4
<1>20. ASSUME NEW p \in Procs, Crash(p) PROVE TypeOK'
  <2>1. Blank("EMPTY") \in Metadata
    BY DEF Blank, Metadata
  <2> QED
    BY <1>20, <2>1 DEF Crash, PCs, Locked
<1>21. CASE UNCHANGED vars
  BY <1>21 DEF vars
<1> QED
  BY <1>1, <1>2, <1>3, <1>4, <1>5, <1>6, <1>7, <1>8, <1>9, <1>10, <1>11, <1>12,
     <1>13, <1>14, <1>15, <1>16, <1>17, <1>18, <1>19, <1>20, <1>21
  DEF Next, CallStep

(* Every reachable state of the arbiter is well typed; in particular a call
   that has a slot file open is looking at an existing slot. *)
THEOREM TypeCorrect == Spec => []TypeOK
BY TypeInit, TypeStep, PTL DEF Spec
-----------------------------------------------------------------------------
(* Steps of one call. *)

Untouched(d) == /\ pc'[d] = pc[d] /\ job'[d] = job[d]
                /\ at'[d] = at[d] /\ op'[d] = op[d]
                /\ d \in recorded' <=> d \in recorded

(* What a step of one call does to itself: the slot it examines changes between
   slots only, an operation starts from a lease, and only TryLock takes a lock. *)
Local(e) == /\ \A d \in Calls : d # e => Untouched(d)
            /\ at'[e] # at[e] => pc[e] \in {"poll", "shut"}
            /\ op'[e] # "none" => op[e] # "none" \/ pc[e] = "held"
            /\ pc'[e] \in Locked => pc[e] \in Locked \/ TryLock(e)

StepOf(e) == \/ CallStep(e) \/ WorkStep(e) \/ Begin(e) \/ Spawn(e)
             \/ Cancel(e) \/ GiveUp(e) \/ WriteFault(e)

LEMMA LocalStep ==
  ASSUME TypeOK, NEW e \in Calls, StepOf(e)
  PROVE  Local(e)
<1> USE DEF TypeOK, Local, Untouched, Locked
<1>1. CASE Begin(e)
  BY <1>1 DEF Begin, Goto
<1>2. CASE Poll(e)
  BY <1>2 DEF Poll, Goto
<1>3. CASE TryLock(e)
  BY <1>3 DEF TryLock, Goto, GotoFor
<1>4. CASE Exhausted(e)
  BY <1>4 DEF Exhausted, Goto
<1>5. CASE GiveUp(e)
  BY <1>5 DEF GiveUp, Goto
<1>6. CASE ReadMetadata(e)
  BY <1>6 DEF ReadMetadata, Goto, GotoFor
<1>7. CASE ProbeOwner(e)
  <2>1. /\ UNCHANGED <<at, cancels, alive, record, file, op, recorded>>
        /\ pc[e] = "probe"
        /\ \/ GotoFor(e, "unlock", "skip")
           \/ GotoFor(e, "trunc", "admit")
           \/ GotoFor(e, "unlock", "raise")
    BY <1>7 DEF ProbeOwner
  <2> QED
    BY <2>1 DEF Goto, GotoFor
<1>8. CASE Truncate(e)
  BY <1>8 DEF Truncate, Goto
<1>9. CASE Flush(e)
  <2>1. /\ pc' = [pc EXCEPT ![e] = AfterWrite(e)]
        /\ UNCHANGED <<at, job, op>>
        /\ recorded' \in {recorded, recorded \cup {e}, recorded \ {e}}
        /\ pc[e] = "flush"
    BY <1>9 DEF Flush, Goto
  <2> QED
    BY <2>1
<1>10. CASE WriteFault(e)
  BY <1>10 DEF WriteFault, Goto, GotoFor
<1>11. CASE Announce(e)
  BY <1>11 DEF Announce, Goto, GotoFor
<1>12. CASE Deliver(e)
  BY <1>12 DEF Deliver, Goto, GotoFor
<1>13. CASE Cancel(e)
  BY <1>13 DEF Cancel
<1>14. CASE Spawn(e)
  BY <1>14 DEF Spawn, Goto, GotoFor
<1>15. CASE WorkStep(e)
  BY <1>15 DEF WorkStep, WorkerExit, ContainerExit
<1>16. CASE ClearWorker(e)
  BY <1>16 DEF ClearWorker, Goto, GotoFor
<1>17. CASE Release(e)
  BY <1>17 DEF Release, Goto, GotoFor
<1>18. CASE Unlock(e)
  BY <1>18 DEF Unlock, Goto
<1>19. CASE CloseStream(e)
  BY <1>19 DEF CloseStream, Goto, GotoFor
<1> QED
  BY <1>1, <1>2, <1>3, <1>4, <1>5, <1>6, <1>7, <1>8, <1>9, <1>10, <1>11,
     <1>12, <1>13, <1>14, <1>15, <1>16, <1>17, <1>18, <1>19
  DEF StepOf, CallStep

-----------------------------------------------------------------------------
(* Locks.  Any number of calls may run in one process.  The path-local mutex keeps
   them apart; the record lock is the process's, and a call that closes its
   descriptor of a slot file another call of its process has locked takes that
   lock away.  Nothing else does. *)

LocalMutex ==
  \A c, d \in Calls :
    ProcOf[c] = ProcOf[d] /\ at[c] = at[d] /\ pc[c] \in Locked /\ pc[d] \in Locked
      => c = d

(* The two events the pool's guarantees depend on: a descriptor is closed under
   the lease of a sibling, and the container of a HELD slot is taken for gone
   because `docker inspect` did not answer. *)
SiblingLosesLock == \E c \in Calls : CloseStream(c) /\ LocalBusy(c)

ContainerOverlooked ==
  \E c \in Calls : /\ ProbeOwner(c) /\ pc'[c] = "trunc"
                  /\ snap[c].state = "HELD" /\ StillOwned(c, snap[c], TRUE)

LockInv == LeaseKeepsLock /\ LocalMutex

LEMMA MutexStep == TypeOK /\ LocalMutex /\ [Next]_vars => LocalMutex'
<1> SUFFICES ASSUME TypeOK, LocalMutex, [Next]_vars PROVE LocalMutex'
  OBVIOUS
(* Whoever is locked after the step was so before, at the same slot, or has
   just found the mutex free. *)
<1>1. ASSUME NEW e \in Calls, StepOf(e) PROVE LocalMutex'
  <2>1. \A d \in Calls : d # e => pc'[d] = pc[d] /\ at'[d] = at[d]
    BY <1>1, LocalStep DEF Local, Untouched
  <2>2. CASE TryLock(e)
    <3>1. at' = at /\ pc[e] = "scan"
      BY <2>2 DEF TryLock
    <3>2. pc'[e] \in Locked => ~LocalBusy(e)
      BY <2>2 DEF TryLock, LockFree, Goto, GotoFor, TypeOK, Locked
    <3> QED
      BY <2>1, <3>1, <3>2 DEF LocalMutex, LocalBusy
  <2>3. CASE ~TryLock(e)
    <3>1. pc'[e] \in Locked => pc[e] \in Locked
      BY <1>1, <2>3, LocalStep DEF Local
    <3>2. pc[e] \in Locked => at'[e] = at[e]
      BY <1>1, LocalStep DEF Local, Locked
    <3> QED
      BY <2>1, <3>1, <3>2 DEF LocalMutex
  <2> QED
    BY <2>2, <2>3
<1>2. ASSUME NEW p \in Procs, Crash(p) PROVE LocalMutex'
  BY <1>2 DEF Crash, LocalMutex, Locked
<1>3. CASE UNCHANGED vars
  BY <1>3 DEF vars, LocalMutex
<1> QED
  BY <1>1, <1>2, <1>3 DEF Next, StepOf

LEMMA LockStep ==
  ASSUME TypeOK, LockInv, ~SiblingLosesLock, [Next]_vars
  PROVE  LeaseKeepsLock'
<1> USE ArbiterAssumption DEF TypeOK, LockInv, LeaseKeepsLock
<1>1. ASSUME NEW c \in Calls, Begin(c) PROVE LeaseKeepsLock'
  BY <1>1 DEF Begin, Locked, Goto
<1>2. ASSUME NEW c \in Calls, Poll(c) PROVE LeaseKeepsLock'
  BY <1>2 DEF Poll, Locked, Goto
<1>3. ASSUME NEW c \in Calls, Exhausted(c) PROVE LeaseKeepsLock'
  BY <1>3 DEF Exhausted, Locked, Goto
<1>4. ASSUME NEW c \in Calls, GiveUp(c) PROVE LeaseKeepsLock'
  BY <1>4 DEF GiveUp, Locked, Goto
<1>5. ASSUME NEW c \in Calls, ReadMetadata(c) PROVE LeaseKeepsLock'
  BY <1>5 DEF ReadMetadata, Locked, Goto, GotoFor
<1>6. ASSUME NEW c \in Calls, ProbeOwner(c) PROVE LeaseKeepsLock'
  BY <1>6 DEF ProbeOwner, Locked, Goto, GotoFor
<1>7. ASSUME NEW c \in Calls, Truncate(c) PROVE LeaseKeepsLock'
  BY <1>7 DEF Truncate, Locked, Goto
<1>8. ASSUME NEW c \in Calls, Flush(c) PROVE LeaseKeepsLock'
  BY <1>8 DEF Flush, Locked, Goto, AfterWrite
<1>9. ASSUME NEW c \in Calls, WriteFault(c) PROVE LeaseKeepsLock'
  BY <1>9 DEF WriteFault, Locked, Goto, GotoFor, AfterWrite
<1>10. ASSUME NEW c \in Calls, Announce(c) PROVE LeaseKeepsLock'
  BY <1>10 DEF Announce, Locked, Goto, GotoFor
<1>11. ASSUME NEW c \in Calls, Deliver(c) PROVE LeaseKeepsLock'
  BY <1>11 DEF Deliver, Locked, Goto, GotoFor
<1>12. ASSUME NEW c \in Calls, Cancel(c) PROVE LeaseKeepsLock'
  BY <1>12 DEF Cancel, Locked
<1>13. ASSUME NEW c \in Calls, Spawn(c) PROVE LeaseKeepsLock'
  BY <1>13 DEF Spawn, Locked, Goto, GotoFor
<1>14. ASSUME NEW c \in Calls, WorkStep(c) PROVE LeaseKeepsLock'
  BY <1>14 DEF WorkStep, Locked, WorkerExit, ContainerExit
<1>15. ASSUME NEW c \in Calls, ClearWorker(c) PROVE LeaseKeepsLock'
  BY <1>15 DEF ClearWorker, Locked, Goto, GotoFor
<1>16. ASSUME NEW c \in Calls, Release(c) PROVE LeaseKeepsLock'
  BY <1>16 DEF Release, Locked, Goto, GotoFor
<1>17. ASSUME NEW c \in Calls, TryLock(c) PROVE LeaseKeepsLock'
  <2>1. CASE LockFree(c)
    BY <1>17, <2>1 DEF TryLock, LockFree, Goto, Locked
  <2>2. CASE ~LockFree(c)
    BY <1>17, <2>2 DEF TryLock, Goto, GotoFor, Locked
  <2> QED
    BY <2>1, <2>2
<1>18. ASSUME NEW c \in Calls, Unlock(c) PROVE LeaseKeepsLock'
  <2>1. \A d \in Calls : d # c /\ pc[d] \in Locked /\ at[d] = at[c] => ProcOf[d] # ProcOf[c]
    BY <1>18 DEF Unlock, LocalMutex, Locked
  <2> QED
    BY <1>18, <2>1 DEF Unlock, DropRecord, Goto, Locked
<1>19. ASSUME NEW c \in Calls, CloseStream(c) PROVE LeaseKeepsLock'
  <2>1. \A d \in Calls : d # c /\ pc[d] \in Locked /\ at[d] = at[c] => ProcOf[d] # ProcOf[c]
    BY <1>19 DEF SiblingLosesLock, LocalBusy
  <2> QED
    BY <1>19, <2>1 DEF CloseStream, DropRecord, Goto, GotoFor, Locked
<1>20. ASSUME NEW p \in Procs, Crash(p) PROVE LeaseKeepsLock'
  BY <1>20 DEF Crash, Slots, Locked
<1>21. CASE UNCHANGED vars
  BY <1>21 DEF vars
<1> QED
  BY <1>1, <1>2, <1>3, <1>4, <1>5, <1>6, <1>7, <1>8, <1>9, <1>10, <1>11, <1>12, <1>13, <1>14, <1>15, <1>16, <1>17, <1>18, <1>19, <1>20, <1>21
  DEF Next, CallStep

(* The lock a lease rests on is taken away by one event only, a sibling closing
   its descriptor of the same slot file: as long as that has not happened, no
   probe, failed try, inspector, cancellation, raise or crash takes it away
   (_try_acquire, close, read_resource_status). *)
THEOREM LockKept == Spec /\ [][~SiblingLosesLock]_vars => []LeaseKeepsLock
<1>1. Init => LockInv
  BY DEF Init, LockInv, LocalMutex, LeaseKeepsLock, Locked
<1>2. TypeOK /\ LockInv /\ [Next]_vars /\ [~SiblingLosesLock]_vars => LockInv'
  <2>1. UNCHANGED vars /\ LockInv => LockInv'
    BY DEF vars, LockInv, LocalMutex, LeaseKeepsLock
  <2> QED
    BY <2>1, LockStep, MutexStep DEF LockInv
<1>3. LockInv => LeaseKeepsLock
  BY DEF LockInv
<1> QED
  BY <1>1, <1>2, <1>3, TypeCorrect, PTL DEF Spec
-----------------------------------------------------------------------------
(* In-flight exclusion.  A live lease is protected by its lock; an orphaned
   worker only by the metadata its dead owner left behind.  The invariant says
   where a worker can exist, that its record is written once and stays, and how
   far another call can get with an orphan's slot. *)

WorkerPlace ==
  \A c \in Calls : op[c] # "none" =>
    /\ Kind = "eda"
    /\ job[c] = "worker"
    /\ pc[c] \in {"trunc", "flush", "held", "dead"}

RecordPlace ==
  \A c \in Calls : c \in recorded =>
    /\ job[c] \in {"worker", "clear", "release"}
    /\ pc[c] \in {"held", "trunc", "flush", "unlock", "shut", "done", "dead"}
    /\ job[c] = "worker" => pc[c] \in {"held", "dead"}

FlushOntoEmpty ==
  \A c \in Calls : pc[c] = "flush" => file[at[c]] = Blank("EMPTY")

RecordWritten ==
  \A c \in Calls :
    c \in recorded /\ op[c] # "none" => file[at[c]] = Held(c, TRUE)

OrphanGuarded ==
  \A c, d \in Calls :
    Orphaned(c) /\ c # d /\ at[d] = at[c] /\ pc[d] \in Locked =>
      /\ pc[d] \in {"read", "probe", "unlock"}
      /\ pc[d] = "probe" => snap[d] = Held(c, TRUE)

FlightInv == /\ TypeOK
             /\ LockInv
             /\ WorkerPlace
             /\ RecordPlace
             /\ FlushOntoEmpty
             /\ RecordWritten
             /\ OrphanGuarded

(* A step in which neither event happens. *)
Undisturbed == ~SiblingLosesLock /\ ~ContainerOverlooked

LEMMA LockedApart ==
  ASSUME LockInv,
         NEW c \in Calls, NEW d \in Calls,
         pc[c] \in Locked, pc[d] \in Locked, at[c] = at[d]
  PROVE  c = d
BY DEF LockInv, LocalMutex, LeaseKeepsLock

LEMMA PlaceStep ==
  ASSUME Undisturbed, FlightInv, [Next]_vars
  PROVE  (WorkerPlace /\ RecordPlace)'
<1> USE DEF FlightInv, TypeOK, WorkerPlace, RecordPlace, Jobs, PCs, Locked
<1>1. ASSUME NEW e \in Calls, Begin(e) PROVE (WorkerPlace /\ RecordPlace)'
  BY <1>1 DEF Begin, Goto
<1>2. ASSUME NEW e \in Calls, Poll(e) PROVE (WorkerPlace /\ RecordPlace)'
  BY <1>2 DEF Poll, Goto
<1>3. ASSUME NEW e \in Calls, TryLock(e) PROVE (WorkerPlace /\ RecordPlace)'
  BY <1>3 DEF TryLock, Goto, GotoFor
<1>4. ASSUME NEW e \in Calls, Exhausted(e) PROVE (WorkerPlace /\ RecordPlace)'
  BY <1>4 DEF Exhausted, Goto
<1>5. ASSUME NEW e \in Calls, GiveUp(e) PROVE (WorkerPlace /\ RecordPlace)'
  BY <1>5 DEF GiveUp, Goto
<1>6. ASSUME NEW e \in Calls, ReadMetadata(e) PROVE (WorkerPlace /\ RecordPlace)'
  BY <1>6 DEF ReadMetadata, Goto, GotoFor
<1>7. ASSUME NEW e \in Calls, ProbeOwner(e) PROVE (WorkerPlace /\ RecordPlace)'
  <2>1. /\ pc[e] = "probe"
        /\ UNCHANGED <<at, cancels, alive, record, file, op, recorded>>
        /\ \/ GotoFor(e, "unlock", "skip")
           \/ GotoFor(e, "trunc", "admit")
           \/ GotoFor(e, "unlock", "raise")
    BY <1>7 DEF ProbeOwner
  <2> QED
    BY <2>1 DEF Goto, GotoFor
<1>8. ASSUME NEW e \in Calls, Truncate(e) PROVE (WorkerPlace /\ RecordPlace)'
  BY <1>8 DEF Truncate, Goto
<1>9. ASSUME NEW e \in Calls, Flush(e) PROVE (WorkerPlace /\ RecordPlace)'
  BY <1>9 DEF Flush, Goto, AfterWrite
<1>10. ASSUME NEW e \in Calls, WriteFault(e) PROVE (WorkerPlace /\ RecordPlace)'
  BY <1>10 DEF WriteFault, Goto, GotoFor, AfterWrite
<1>11. ASSUME NEW e \in Calls, Announce(e) PROVE (WorkerPlace /\ RecordPlace)'
  BY <1>11 DEF Announce, Goto, GotoFor
<1>12. ASSUME NEW e \in Calls, Deliver(e) PROVE (WorkerPlace /\ RecordPlace)'
  BY <1>12 DEF Deliver, Goto, GotoFor
<1>13. ASSUME NEW e \in Calls, Cancel(e) PROVE (WorkerPlace /\ RecordPlace)'
  BY <1>13 DEF Cancel
<1>14. ASSUME NEW e \in Calls, Spawn(e) PROVE (WorkerPlace /\ RecordPlace)'
  BY <1>14 DEF Spawn, Goto, GotoFor
<1>15. ASSUME NEW e \in Calls, WorkStep(e) PROVE (WorkerPlace /\ RecordPlace)'
  BY <1>15 DEF WorkStep, WorkerExit, ContainerExit
<1>16. ASSUME NEW e \in Calls, ClearWorker(e) PROVE (WorkerPlace /\ RecordPlace)'
  BY <1>16 DEF ClearWorker, Goto, GotoFor
<1>17. ASSUME NEW e \in Calls, Release(e) PROVE (WorkerPlace /\ RecordPlace)'
  BY <1>17 DEF Release, Goto, GotoFor
<1>18. ASSUME NEW e \in Calls, Unlock(e) PROVE (WorkerPlace /\ RecordPlace)'
  BY <1>18 DEF Unlock, Goto
<1>19. ASSUME NEW e \in Calls, CloseStream(e) PROVE (WorkerPlace /\ RecordPlace)'
  BY <1>19 DEF CloseStream, Goto, GotoFor
<1>20. ASSUME NEW p \in Procs, Crash(p) PROVE (WorkerPlace /\ RecordPlace)'
  BY <1>20 DEF Crash
<1>21. CASE UNCHANGED vars
  BY <1>21 DEF vars, Orphaned
<1> QED
  BY <1>1, <1>2, <1>3, <1>4, <1>5, <1>6, <1>7, <1>8, <1>9, <1>10, <1>11,
     <1>12, <1>13, <1>14, <1>15, <1>16, <1>17, <1>18, <1>19, <1>20, <1>21
  DEF Next, CallStep

LEMMA FlushOntoEmptyStep ==
  ASSUME Undisturbed, FlightInv, [Next]_vars
  PROVE  FlushOntoEmpty'
<1> USE DEF FlightInv, TypeOK, FlushOntoEmpty, PCs, Locked
<1>1. ASSUME NEW e \in Calls, Begin(e) PROVE FlushOntoEmpty'
  BY <1>1 DEF Begin, Goto
<1>2. ASSUME NEW e \in Calls, Poll(e) PROVE FlushOntoEmpty'
  BY <1>2 DEF Poll, Goto
<1>3. ASSUME NEW e \in Calls, TryLock(e) PROVE FlushOntoEmpty'
  BY <1>3 DEF TryLock, Goto, GotoFor
<1>4. ASSUME NEW e \in Calls, Exhausted(e) PROVE FlushOntoEmpty'
  BY <1>4 DEF Exhausted, Goto
<1>5. ASSUME NEW e \in Calls, GiveUp(e) PROVE FlushOntoEmpty'
  BY <1>5 DEF GiveUp, Goto
<1>6. ASSUME NEW e \in Calls, ReadMetadata(e) PROVE FlushOntoEmpty'
  BY <1>6 DEF ReadMetadata, Goto, GotoFor
<1>7. ASSUME NEW e \in Calls, ProbeOwner(e) PROVE FlushOntoEmpty'
  <2>1. /\ pc[e] = "probe"
        /\ UNCHANGED <<at, cancels, alive, record, file, op, recorded>>
        /\ \/ GotoFor(e, "unlock", "skip")
           \/ GotoFor(e, "trunc", "admit")
           \/ GotoFor(e, "unlock", "raise")
    BY <1>7 DEF ProbeOwner
  <2> QED
    BY <2>1 DEF Goto, GotoFor
<1>8. ASSUME NEW e \in Calls, Truncate(e) PROVE FlushOntoEmpty'
  <2>1. /\ pc[e] = "trunc"
        /\ pc' = [pc EXCEPT ![e] = "flush"]
        /\ file' = [file EXCEPT ![at[e]] = Blank("EMPTY")]
        /\ UNCHANGED <<at, job, snap, cancels, alive, record, op, recorded>>
    BY <1>8 DEF Truncate, Goto
  <2> QED
    BY <2>1
<1>9. ASSUME NEW e \in Calls, Flush(e) PROVE FlushOntoEmpty'
  <2>1. /\ pc[e] = "flush"
        /\ pc' = [pc EXCEPT ![e] = AfterWrite(e)]
        /\ file' = [file EXCEPT ![at[e]] = Document(e)]
        /\ UNCHANGED <<at, job, snap, cancels, alive, record, op>>
        /\ AfterWrite(e) \in {"announce", "held", "unlock"}
    <3>1. at[e] \in Slots /\ file[at[e]].state = "EMPTY"
      BY <1>9 DEF Flush, FlushOntoEmpty, Blank
    <3>2. file' = [file EXCEPT ![at[e]] = Document(e)]
      BY <1>9, <3>1 DEF Flush
    <3>3. AfterWrite(e) \in {"announce", "held", "unlock"}
      BY DEF AfterWrite
    <3> QED
      BY <1>9, <3>2, <3>3 DEF Flush, Goto
  <2> SUFFICES ASSUME NEW c \in Calls, pc'[c] = "flush"
               PROVE  file'[at[c]] = Blank("EMPTY")
    BY <2>1
  <2>2. c # e /\ pc[c] = "flush"
    BY <2>1
  <2>3. at[c] # at[e]
    BY <2>1, <2>2, LockedApart
  <2> QED
    BY <2>1, <2>2, <2>3
<1>10. ASSUME NEW e \in Calls, WriteFault(e) PROVE FlushOntoEmpty'
  BY <1>10 DEF WriteFault, Goto, GotoFor, AfterWrite
<1>11. ASSUME NEW e \in Calls, Announce(e) PROVE FlushOntoEmpty'
  BY <1>11 DEF Announce, Goto, GotoFor
<1>12. ASSUME NEW e \in Calls, Deliver(e) PROVE FlushOntoEmpty'
  BY <1>12 DEF Deliver, Goto, GotoFor
<1>13. ASSUME NEW e \in Calls, Cancel(e) PROVE FlushOntoEmpty'
  BY <1>13 DEF Cancel
<1>14. ASSUME NEW e \in Calls, Spawn(e) PROVE FlushOntoEmpty'
  BY <1>14 DEF Spawn, Goto, GotoFor
<1>15. ASSUME NEW e \in Calls, WorkStep(e) PROVE FlushOntoEmpty'
  BY <1>15 DEF WorkStep, WorkerExit, ContainerExit
<1>16. ASSUME NEW e \in Calls, ClearWorker(e) PROVE FlushOntoEmpty'
  BY <1>16 DEF ClearWorker, Goto, GotoFor
<1>17. ASSUME NEW e \in Calls, Release(e) PROVE FlushOntoEmpty'
  BY <1>17 DEF Release, Goto, GotoFor
<1>18. ASSUME NEW e \in Calls, Unlock(e) PROVE FlushOntoEmpty'
  BY <1>18 DEF Unlock, Goto
<1>19. ASSUME NEW e \in Calls, CloseStream(e) PROVE FlushOntoEmpty'
  BY <1>19 DEF CloseStream, Goto, GotoFor
<1>20. ASSUME NEW p \in Procs, Crash(p) PROVE FlushOntoEmpty'
  BY <1>20 DEF Crash
<1>21. CASE UNCHANGED vars
  BY <1>21 DEF vars, Orphaned
<1> QED
  BY <1>1, <1>2, <1>3, <1>4, <1>5, <1>6, <1>7, <1>8, <1>9, <1>10, <1>11,
     <1>12, <1>13, <1>14, <1>15, <1>16, <1>17, <1>18, <1>19, <1>20, <1>21
  DEF Next, CallStep

LEMMA RecordWrittenStep ==
  ASSUME Undisturbed, FlightInv, [Next]_vars
  PROVE  RecordWritten'
<1> USE DEF FlightInv, TypeOK, RecordWritten, PCs, Locked
<1>1. ASSUME NEW e \in Calls, Begin(e) PROVE RecordWritten'
  BY <1>1 DEF Begin, Goto
<1>2. ASSUME NEW e \in Calls, Poll(e) PROVE RecordWritten'
  <2>1. pc[e] = "poll" /\ UNCHANGED <<file, op, recorded>>
        /\ \A c \in Calls : c # e => at'[c] = at[c]
    BY <1>2 DEF Poll
  <2>2. e \notin recorded
    BY <2>1 DEF RecordPlace
  <2> QED
    BY <2>1, <2>2
<1>3. ASSUME NEW e \in Calls, TryLock(e) PROVE RecordWritten'
  BY <1>3 DEF TryLock, Goto, GotoFor
<1>4. ASSUME NEW e \in Calls, Exhausted(e) PROVE RecordWritten'
  BY <1>4 DEF Exhausted, Goto
<1>5. ASSUME NEW e \in Calls, GiveUp(e) PROVE RecordWritten'
  BY <1>5 DEF GiveUp, Goto
<1>6. ASSUME NEW e \in Calls, ReadMetadata(e) PROVE RecordWritten'
  BY <1>6 DEF ReadMetadata, Goto, GotoFor
<1>7. ASSUME NEW e \in Calls, ProbeOwner(e) PROVE RecordWritten'
  <2>1. /\ pc[e] = "probe"
        /\ UNCHANGED <<at, cancels, alive, record, file, op, recorded>>
        /\ \/ GotoFor(e, "unlock", "skip")
           \/ GotoFor(e, "trunc", "admit")
           \/ GotoFor(e, "unlock", "raise")
    BY <1>7 DEF ProbeOwner
  <2> QED
    BY <2>1 DEF Goto, GotoFor
<1>8. ASSUME NEW e \in Calls, Truncate(e) PROVE RecordWritten'
  <2>1. /\ pc[e] = "trunc"
        /\ pc' = [pc EXCEPT ![e] = "flush"]
        /\ file' = [file EXCEPT ![at[e]] = Blank("EMPTY")]
        /\ UNCHANGED <<at, job, snap, cancels, alive, record, op, recorded>>
    BY <1>8 DEF Truncate, Goto
  <2> SUFFICES ASSUME NEW c \in Calls, c \in recorded, op[c] # "none"
               PROVE  file'[at[c]] = Held(c, TRUE)
    BY <2>1
  <2>2. pc[c] \in {"held", "dead"}
    BY DEF WorkerPlace, RecordPlace
  <2>3. at[c] # at[e]
    BY <2>1, <2>2, LockedApart DEF OrphanGuarded, Orphaned, RecordPlace, WorkerPlace
  <2>4. file[at[c]] = Held(c, TRUE)
    OBVIOUS
  <2>5. file'[at[c]] = file[at[c]]
    BY <2>1, <2>3
  <2> QED
    BY <2>4, <2>5
<1>9. ASSUME NEW e \in Calls, Flush(e) PROVE RecordWritten'
  <2>1. /\ pc[e] = "flush"
        /\ pc' = [pc EXCEPT ![e] = AfterWrite(e)]
        /\ file' = [file EXCEPT ![at[e]] = Document(e)]
        /\ UNCHANGED <<at, job, snap, cancels, alive, record, op>>
        /\ AfterWrite(e) \in {"announce", "held", "unlock"}
    <3>1. at[e] \in Slots /\ file[at[e]].state = "EMPTY"
      BY <1>9 DEF Flush, FlushOntoEmpty, Blank
    <3>2. file' = [file EXCEPT ![at[e]] = Document(e)]
      BY <1>9, <3>1 DEF Flush
    <3>3. AfterWrite(e) \in {"announce", "held", "unlock"}
      BY DEF AfterWrite
    <3> QED
      BY <1>9, <3>2, <3>3 DEF Flush, Goto
  <2>2. recorded' \subseteq recorded \cup {e}
    BY <1>9 DEF Flush
  <2> SUFFICES ASSUME NEW c \in Calls, c \in recorded', op[c] # "none"
               PROVE  file'[at[c]] = Held(c, TRUE)
    BY <2>1
  <2>3. CASE c = e
    BY <2>1, <2>3 DEF WorkerPlace, Document, Slots
  <2>4. CASE c # e
    <3>1. pc[c] \in {"held", "dead"}
      BY <2>2, <2>4 DEF WorkerPlace, RecordPlace
    <3>2. at[c] # at[e]
      BY <2>1, <2>2, <2>4, <3>1, LockedApart DEF OrphanGuarded, Orphaned
    <3>3. file[at[c]] = Held(c, TRUE)
      BY <2>2, <2>4
    <3>4. file'[at[c]] = file[at[c]]
      BY <2>1, <3>2
    <3> QED
      BY <3>3, <3>4
  <2> QED
    BY <2>3, <2>4
<1>10. ASSUME NEW e \in Calls, WriteFault(e) PROVE RecordWritten'
  BY <1>10 DEF WriteFault, Goto, GotoFor, AfterWrite
<1>11. ASSUME NEW e \in Calls, Announce(e) PROVE RecordWritten'
  BY <1>11 DEF Announce, Goto, GotoFor
<1>12. ASSUME NEW e \in Calls, Deliver(e) PROVE RecordWritten'
  BY <1>12 DEF Deliver, Goto, GotoFor
<1>13. ASSUME NEW e \in Calls, Cancel(e) PROVE RecordWritten'
  BY <1>13 DEF Cancel
<1>14. ASSUME NEW e \in Calls, Spawn(e) PROVE RecordWritten'
  BY <1>14 DEF Spawn, Goto, GotoFor, RecordPlace
<1>15. ASSUME NEW e \in Calls, WorkStep(e) PROVE RecordWritten'
  BY <1>15 DEF WorkStep, WorkerExit, ContainerExit
<1>16. ASSUME NEW e \in Calls, ClearWorker(e) PROVE RecordWritten'
  BY <1>16 DEF ClearWorker, Goto, GotoFor
<1>17. ASSUME NEW e \in Calls, Release(e) PROVE RecordWritten'
  BY <1>17 DEF Release, Goto, GotoFor
<1>18. ASSUME NEW e \in Calls, Unlock(e) PROVE RecordWritten'
  BY <1>18 DEF Unlock, Goto
<1>19. ASSUME NEW e \in Calls, CloseStream(e) PROVE RecordWritten'
  <2>1. pc[e] = "shut" /\ UNCHANGED <<file, op, recorded>>
        /\ \A c \in Calls : c # e => at'[c] = at[c]
    BY <1>19 DEF CloseStream, GotoFor
  <2>2. e \notin recorded \/ op[e] = "none"
    BY <2>1 DEF RecordPlace, WorkerPlace
  <2> QED
    BY <2>1, <2>2
<1>20. ASSUME NEW p \in Procs, Crash(p) PROVE RecordWritten'
  BY <1>20 DEF Crash
<1>21. CASE UNCHANGED vars
  BY <1>21 DEF vars, Orphaned
<1> QED
  BY <1>1, <1>2, <1>3, <1>4, <1>5, <1>6, <1>7, <1>8, <1>9, <1>10, <1>11,
     <1>12, <1>13, <1>14, <1>15, <1>16, <1>17, <1>18, <1>19, <1>20, <1>21
  DEF Next, CallStep

LEMMA OrphanGuardedStep ==
  ASSUME Undisturbed, FlightInv, [Next]_vars
  PROVE  OrphanGuarded'
<1> USE DEF FlightInv, TypeOK, OrphanGuarded, PCs, Locked
<1>1. ASSUME NEW e \in Calls, Begin(e) PROVE OrphanGuarded'
  <2> SUFFICES ASSUME NEW c \in Calls, NEW d \in Calls, Orphaned(c)', c # d,
                      at'[d] = at'[c], pc'[d] \in Locked
               PROVE  /\ pc'[d] \in {"read", "probe", "unlock"}
                      /\ pc'[d] = "probe" => snap'[d] = Held(c, TRUE)
    OBVIOUS
  <2>1. c # e /\ Orphaned(c)
    BY <1>1 DEF Begin, Goto, Orphaned
  <2>2. CASE d # e
    BY <1>1, <2>1, <2>2 DEF Begin, Goto, Orphaned
  <2>3. CASE d = e
    BY <1>1, <2>1, <2>3 DEF Begin, Goto, Orphaned
  <2> QED
    BY <2>2, <2>3
<1>2. ASSUME NEW e \in Calls, Poll(e) PROVE OrphanGuarded'
  <2> SUFFICES ASSUME NEW c \in Calls, NEW d \in Calls, Orphaned(c)', c # d,
                      at'[d] = at'[c], pc'[d] \in Locked
               PROVE  /\ pc'[d] \in {"read", "probe", "unlock"}
                      /\ pc'[d] = "probe" => snap'[d] = Held(c, TRUE)
    OBVIOUS
  <2>1. c # e /\ Orphaned(c)
    BY <1>2 DEF Poll, Goto, Orphaned
  <2>2. CASE d # e
    BY <1>2, <2>1, <2>2 DEF Poll, Goto, Orphaned
  <2>3. CASE d = e
    BY <1>2, <2>1, <2>3 DEF Poll, Goto, Orphaned
  <2> QED
    BY <2>2, <2>3
<1>3. ASSUME NEW e \in Calls, TryLock(e) PROVE OrphanGuarded'
  <2> SUFFICES ASSUME NEW c \in Calls, NEW d \in Calls, Orphaned(c)', c # d,
                      at'[d] = at'[c], pc'[d] \in Locked
               PROVE  /\ pc'[d] \in {"read", "probe", "unlock"}
                      /\ pc'[d] = "probe" => snap'[d] = Held(c, TRUE)
    OBVIOUS
  <2>1. c # e /\ Orphaned(c)
    BY <1>3 DEF TryLock, Goto, GotoFor, Orphaned
  <2>2. CASE d # e
    BY <1>3, <2>1, <2>2 DEF TryLock, Goto, GotoFor, Orphaned
  <2>3. CASE d = e
    <3>1. pc'[e] \in {"read", "shut"}
      BY <1>3 DEF TryLock, Goto, GotoFor
    <3> QED
      BY <2>3, <3>1 DEF Locked
  <2> QED
    BY <2>2, <2>3
<1>4. ASSUME NEW e \in Calls, Exhausted(e) PROVE OrphanGuarded'
  <2> SUFFICES ASSUME NEW c \in Calls, NEW d \in Calls, Orphaned(c)', c # d,
                      at'[d] = at'[c], pc'[d] \in Locked
               PROVE  /\ pc'[d] \in {"read", "probe", "unlock"}
                      /\ pc'[d] = "probe" => snap'[d] = Held(c, TRUE)
    OBVIOUS
  <2>1. c # e /\ Orphaned(c)
    BY <1>4 DEF Exhausted, Goto, Orphaned
  <2>2. CASE d # e
    BY <1>4, <2>1, <2>2 DEF Exhausted, Goto, Orphaned
  <2>3. CASE d = e
    BY <1>4, <2>1, <2>3 DEF Exhausted, Goto, Orphaned
  <2> QED
    BY <2>2, <2>3
<1>5. ASSUME NEW e \in Calls, GiveUp(e) PROVE OrphanGuarded'
  <2> SUFFICES ASSUME NEW c \in Calls, NEW d \in Calls, Orphaned(c)', c # d,
                      at'[d] = at'[c], pc'[d] \in Locked
               PROVE  /\ pc'[d] \in {"read", "probe", "unlock"}
                      /\ pc'[d] = "probe" => snap'[d] = Held(c, TRUE)
    OBVIOUS
  <2>1. c # e /\ Orphaned(c)
    BY <1>5 DEF GiveUp, Goto, Orphaned
  <2>2. CASE d # e
    BY <1>5, <2>1, <2>2 DEF GiveUp, Goto, Orphaned
  <2>3. CASE d = e
    BY <1>5, <2>1, <2>3 DEF GiveUp, Goto, Orphaned
  <2> QED
    BY <2>2, <2>3
<1>6. ASSUME NEW e \in Calls, ReadMetadata(e) PROVE OrphanGuarded'
  <2> SUFFICES ASSUME NEW c \in Calls, NEW d \in Calls, Orphaned(c)', c # d,
                      at'[d] = at'[c], pc'[d] \in Locked
               PROVE  /\ pc'[d] \in {"read", "probe", "unlock"}
                      /\ pc'[d] = "probe" => snap'[d] = Held(c, TRUE)
    OBVIOUS
  <2>1. c # e /\ Orphaned(c) /\ at[c] = at[d]
    BY <1>6 DEF ReadMetadata, Goto, GotoFor, Orphaned
  <2>2. file[at[c]] = Held(c, TRUE)
    BY <2>1 DEF RecordWritten, Orphaned
  <2>3. CASE d # e
    BY <1>6, <2>1, <2>3 DEF ReadMetadata, Goto, GotoFor
  <2>4. CASE d = e
    <3>1. pc'[e] \in {"probe", "unlock"}
      BY <1>6 DEF ReadMetadata, Goto, GotoFor
    <3>2. pc'[e] = "probe" => snap'[e] = file[at[e]]
      BY <1>6 DEF ReadMetadata, Goto, GotoFor
    <3> QED
      BY <2>1, <2>2, <2>4, <3>1, <3>2
  <2> QED
    BY <2>3, <2>4
<1>7. ASSUME NEW e \in Calls, ProbeOwner(e) PROVE OrphanGuarded'
  <2> SUFFICES ASSUME NEW c \in Calls, NEW d \in Calls, Orphaned(c)', c # d,
                      at'[d] = at'[c], pc'[d] \in Locked
               PROVE  /\ pc'[d] \in {"read", "probe", "unlock"}
                      /\ pc'[d] = "probe" => snap'[d] = Held(c, TRUE)
    OBVIOUS
  <2>1. /\ c # e /\ Orphaned(c) /\ at[c] = at[d]
        /\ d # e => UNCHANGED <<pc[d], snap[d]>>
    BY <1>7 DEF ProbeOwner, Goto, GotoFor, Orphaned
  <2>2. CASE d # e
    BY <2>1, <2>2
  <2>3. CASE d = e
    <3>1. snap[e] = Held(c, TRUE)
      BY <1>7, <2>1, <2>3 DEF ProbeOwner
    <3>2. Kind = "eda" /\ op[c] # "none"
      BY <2>1 DEF WorkerPlace, Orphaned
    <3>3. snap[e].state = "HELD" /\ StillOwned(e, snap[e], TRUE)
      BY <2>1, <2>3, <3>1, <3>2
      DEF StillOwned, ContainerActive, ForeignWorker, RunsHere, Held
    <3>4. pc[e] = "probe" /\ pc'[e] # "trunc"
      BY <1>7, <3>3 DEF ProbeOwner, Undisturbed, ContainerOverlooked
    <3>5. pc'[e] \in {"unlock", "trunc"}
      <4>1. \/ GotoFor(e, "unlock", "skip")
            \/ GotoFor(e, "trunc", "admit")
            \/ GotoFor(e, "unlock", "raise")
        BY <1>7 DEF ProbeOwner
      <4> QED
        BY <4>1 DEF GotoFor, Goto
    <3> QED
      BY <2>3, <3>4, <3>5
  <2> QED
    BY <2>2, <2>3
<1>8. ASSUME NEW e \in Calls, Truncate(e) PROVE OrphanGuarded'
  <2> SUFFICES ASSUME NEW c \in Calls, NEW d \in Calls, Orphaned(c)', c # d,
                      at'[d] = at'[c], pc'[d] \in Locked
               PROVE  /\ pc'[d] \in {"read", "probe", "unlock"}
                      /\ pc'[d] = "probe" => snap'[d] = Held(c, TRUE)
    OBVIOUS
  <2>1. c # e /\ Orphaned(c)
    BY <1>8 DEF Truncate, Goto, Orphaned
  <2>2. CASE d # e
    BY <1>8, <2>1, <2>2 DEF Truncate, Goto, Orphaned
  <2>3. CASE d = e
    BY <1>8, <2>1, <2>3 DEF Truncate, Goto, Orphaned
  <2> QED
    BY <2>2, <2>3
<1>9. ASSUME NEW e \in Calls, Flush(e) PROVE OrphanGuarded'
  <2> SUFFICES ASSUME NEW c \in Calls, NEW d \in Calls, Orphaned(c)', c # d,
                      at'[d] = at'[c], pc'[d] \in Locked
               PROVE  /\ pc'[d] \in {"read", "probe", "unlock"}
                      /\ pc'[d] = "probe" => snap'[d] = Held(c, TRUE)
    OBVIOUS
  <2>1. /\ pc[e] = "flush" /\ recorded' \subseteq recorded \cup {e}
        /\ pc' = [pc EXCEPT ![e] = AfterWrite(e)]
        /\ AfterWrite(e) # "dead"
        /\ UNCHANGED <<at, snap, op>>
    BY <1>9 DEF Flush, Goto, AfterWrite
  <2>2. c # e /\ Orphaned(c) /\ at[d] = at[c]
    BY <2>1 DEF Orphaned
  <2>3. d # e
    BY <2>1, <2>2
  <2> QED
    BY <2>1, <2>2, <2>3
<1>10. ASSUME NEW e \in Calls, WriteFault(e) PROVE OrphanGuarded'
  <2> SUFFICES ASSUME NEW c \in Calls, NEW d \in Calls, Orphaned(c)', c # d,
                      at'[d] = at'[c], pc'[d] \in Locked
               PROVE  /\ pc'[d] \in {"read", "probe", "unlock"}
                      /\ pc'[d] = "probe" => snap'[d] = Held(c, TRUE)
    OBVIOUS
  <2>1. c # e /\ Orphaned(c)
    BY <1>10 DEF WriteFault, Goto, GotoFor, AfterWrite, Orphaned
  <2>2. CASE d # e
    BY <1>10, <2>1, <2>2 DEF WriteFault, Goto, GotoFor, AfterWrite, Orphaned
  <2>3. CASE d = e
    BY <1>10, <2>1, <2>3 DEF WriteFault, Goto, GotoFor, AfterWrite, Orphaned
  <2> QED
    BY <2>2, <2>3
<1>11. ASSUME NEW e \in Calls, Announce(e) PROVE OrphanGuarded'
  <2> SUFFICES ASSUME NEW c \in Calls, NEW d \in Calls, Orphaned(c)', c # d,
                      at'[d] = at'[c], pc'[d] \in Locked
               PROVE  /\ pc'[d] \in {"read", "probe", "unlock"}
                      /\ pc'[d] = "probe" => snap'[d] = Held(c, TRUE)
    OBVIOUS
  <2>1. c # e /\ Orphaned(c)
    BY <1>11 DEF Announce, Goto, GotoFor, Orphaned
  <2>2. CASE d # e
    BY <1>11, <2>1, <2>2 DEF Announce, Goto, GotoFor, Orphaned
  <2>3. CASE d = e
    BY <1>11, <2>1, <2>3 DEF Announce, Goto, GotoFor, Orphaned
  <2> QED
    BY <2>2, <2>3
<1>12. ASSUME NEW e \in Calls, Deliver(e) PROVE OrphanGuarded'
  <2> SUFFICES ASSUME NEW c \in Calls, NEW d \in Calls, Orphaned(c)', c # d,
                      at'[d] = at'[c], pc'[d] \in Locked
               PROVE  /\ pc'[d] \in {"read", "probe", "unlock"}
                      /\ pc'[d] = "probe" => snap'[d] = Held(c, TRUE)
    OBVIOUS
  <2>1. c # e /\ Orphaned(c)
    BY <1>12 DEF Deliver, Goto, GotoFor, Orphaned
  <2>2. CASE d # e
    BY <1>12, <2>1, <2>2 DEF Deliver, Goto, GotoFor, Orphaned
  <2>3. CASE d = e
    BY <1>12, <2>1, <2>3 DEF Deliver, Goto, GotoFor, Orphaned
  <2> QED
    BY <2>2, <2>3
<1>13. ASSUME NEW e \in Calls, Cancel(e) PROVE OrphanGuarded'
  BY <1>13 DEF Cancel, Orphaned
<1>14. ASSUME NEW e \in Calls, Spawn(e) PROVE OrphanGuarded'
  <2> SUFFICES ASSUME NEW c \in Calls, NEW d \in Calls, Orphaned(c)', c # d,
                      at'[d] = at'[c], pc'[d] \in Locked
               PROVE  /\ pc'[d] \in {"read", "probe", "unlock"}
                      /\ pc'[d] = "probe" => snap'[d] = Held(c, TRUE)
    OBVIOUS
  <2>1. c # e /\ Orphaned(c)
    BY <1>14 DEF Spawn, Goto, GotoFor, Orphaned
  <2>2. CASE d # e
    BY <1>14, <2>1, <2>2 DEF Spawn, Goto, GotoFor, Orphaned
  <2>3. CASE d = e
    BY <1>14, <2>1, <2>3 DEF Spawn, Goto, GotoFor, Orphaned
  <2> QED
    BY <2>2, <2>3
<1>15. ASSUME NEW e \in Calls, WorkStep(e) PROVE OrphanGuarded'
  <2>1. UNCHANGED <<pc, at, job, snap, recorded>>
        /\ \A c \in Calls : op'[c] # "none" => op[c] # "none"
    BY <1>15 DEF WorkStep, WorkerExit, ContainerExit
  <2> QED
    BY <2>1 DEF Orphaned
<1>16. ASSUME NEW e \in Calls, ClearWorker(e) PROVE OrphanGuarded'
  <2> SUFFICES ASSUME NEW c \in Calls, NEW d \in Calls, Orphaned(c)', c # d,
                      at'[d] = at'[c], pc'[d] \in Locked
               PROVE  /\ pc'[d] \in {"read", "probe", "unlock"}
                      /\ pc'[d] = "probe" => snap'[d] = Held(c, TRUE)
    OBVIOUS
  <2>1. c # e /\ Orphaned(c)
    BY <1>16 DEF ClearWorker, Goto, GotoFor, Orphaned
  <2>2. CASE d # e
    BY <1>16, <2>1, <2>2 DEF ClearWorker, Goto, GotoFor, Orphaned
  <2>3. CASE d = e
    BY <1>16, <2>1, <2>3 DEF ClearWorker, Goto, GotoFor, Orphaned
  <2> QED
    BY <2>2, <2>3
<1>17. ASSUME NEW e \in Calls, Release(e) PROVE OrphanGuarded'
  <2> SUFFICES ASSUME NEW c \in Calls, NEW d \in Calls, Orphaned(c)', c # d,
                      at'[d] = at'[c], pc'[d] \in Locked
               PROVE  /\ pc'[d] \in {"read", "probe", "unlock"}
                      /\ pc'[d] = "probe" => snap'[d] = Held(c, TRUE)
    OBVIOUS
  <2>1. c # e /\ Orphaned(c)
    BY <1>17 DEF Release, Goto, GotoFor, Orphaned
  <2>2. CASE d # e
    BY <1>17, <2>1, <2>2 DEF Release, Goto, GotoFor, Orphaned
  <2>3. CASE d = e
    BY <1>17, <2>1, <2>3 DEF Release, Goto, GotoFor, Orphaned
  <2> QED
    BY <2>2, <2>3
<1>18. ASSUME NEW e \in Calls, Unlock(e) PROVE OrphanGuarded'
  <2> SUFFICES ASSUME NEW c \in Calls, NEW d \in Calls, Orphaned(c)', c # d,
                      at'[d] = at'[c], pc'[d] \in Locked
               PROVE  /\ pc'[d] \in {"read", "probe", "unlock"}
                      /\ pc'[d] = "probe" => snap'[d] = Held(c, TRUE)
    OBVIOUS
  <2>1. c # e /\ Orphaned(c)
    BY <1>18 DEF Unlock, Goto, Orphaned
  <2>2. CASE d # e
    BY <1>18, <2>1, <2>2 DEF Unlock, Goto, Orphaned
  <2>3. CASE d = e
    BY <1>18, <2>1, <2>3 DEF Unlock, Goto, Orphaned
  <2> QED
    BY <2>2, <2>3
<1>19. ASSUME NEW e \in Calls, CloseStream(e) PROVE OrphanGuarded'
  <2> SUFFICES ASSUME NEW c \in Calls, NEW d \in Calls, Orphaned(c)', c # d,
                      at'[d] = at'[c], pc'[d] \in Locked
               PROVE  /\ pc'[d] \in {"read", "probe", "unlock"}
                      /\ pc'[d] = "probe" => snap'[d] = Held(c, TRUE)
    OBVIOUS
  <2>1. c # e /\ Orphaned(c)
    BY <1>19 DEF CloseStream, Goto, GotoFor, Orphaned
  <2>2. CASE d # e
    BY <1>19, <2>1, <2>2 DEF CloseStream, Goto, GotoFor, Orphaned
  <2>3. CASE d = e
    BY <1>19, <2>1, <2>3 DEF CloseStream, Goto, GotoFor, Orphaned
  <2> QED
    BY <2>2, <2>3
<1>20. ASSUME NEW p \in Procs, Crash(p) PROVE OrphanGuarded'
  <2> SUFFICES ASSUME NEW c \in Calls, NEW d \in Calls, Orphaned(c)', c # d,
                      at'[d] = at'[c], pc'[d] \in Locked
               PROVE  /\ pc'[d] \in {"read", "probe", "unlock"}
                      /\ pc'[d] = "probe" => snap'[d] = Held(c, TRUE)
    OBVIOUS
  <2>1. /\ at[d] = at[c] /\ ProcOf[d] # p /\ pc[d] \in Locked
        /\ pc'[d] = pc[d] /\ snap'[d] = snap[d]
        /\ op[c] # "none" /\ c \in recorded
    BY <1>20 DEF Crash, Orphaned
  <2>2. CASE pc[c] = "dead"
    BY <2>1, <2>2 DEF Orphaned
  <2>3. CASE pc[c] # "dead"
    BY <2>1, <2>3, LockedApart DEF WorkerPlace
  <2> QED
    BY <2>2, <2>3
<1>21. CASE UNCHANGED vars
  BY <1>21 DEF vars, Orphaned
<1> QED
  BY <1>1, <1>2, <1>3, <1>4, <1>5, <1>6, <1>7, <1>8, <1>9, <1>10, <1>11,
     <1>12, <1>13, <1>14, <1>15, <1>16, <1>17, <1>18, <1>19, <1>20, <1>21
  DEF Next, CallStep

LEMMA FlightStep ==
  ASSUME Undisturbed, FlightInv, [Next]_vars
  PROVE  FlightInv'
<1>1. TypeOK' /\ LockInv'
  BY TypeStep, LockStep, MutexStep DEF FlightInv, LockInv, Undisturbed
<1>2. WorkerPlace' /\ RecordPlace'
  BY PlaceStep
<1> QED
  BY <1>1, <1>2, FlushOntoEmptyStep, RecordWrittenStep, OrphanGuardedStep
  DEF FlightInv

LEMMA FlightStutter == FlightInv /\ UNCHANGED vars => FlightInv'
<1> SUFFICES ASSUME FlightInv, UNCHANGED vars PROVE FlightInv'
  OBVIOUS
<1>1. TypeOK' /\ LockInv'
  BY DEF FlightInv, TypeOK, LockInv, LeaseKeepsLock, LocalMutex, vars
<1>2. (WorkerPlace /\ RecordPlace /\ FlushOntoEmpty /\ RecordWritten)'
  BY DEF FlightInv, WorkerPlace, RecordPlace, FlushOntoEmpty, RecordWritten, vars
<1>3. OrphanGuarded'
  BY DEF FlightInv, OrphanGuarded, Orphaned, vars
<1> QED
  BY <1>1, <1>2, <1>3 DEF FlightInv

LEMMA FlightInit == Init => FlightInv
<1> SUFFICES ASSUME Init PROVE FlightInv
  OBVIOUS
<1>1. TypeOK
  BY TypeInit
<1> QED
  BY <1>1 DEF FlightInv, Init, LockInv, LocalMutex, LeaseKeepsLock, WorkerPlace, RecordPlace,
              FlushOntoEmpty, RecordWritten, OrphanGuarded, Orphaned, Locked

LEMMA FlightExclusive ==
  ASSUME FlightInv
  PROVE  SlotExclusion /\ OrphanStaysVisible
<1>1. OrphanStaysVisible
  BY DEF FlightInv, RecordWritten, OrphanStaysVisible, Orphaned
<1>2. ASSUME NEW c \in Calls, NEW d \in Calls,
             InFlight(c), InFlight(d), at[c] = at[d]
      PROVE  c = d
  <2>1. CASE Admitted(c) /\ Admitted(d)
    BY <1>2, <2>1, LockedApart DEF Admitted, Locked, FlightInv
  <2>2. CASE Orphaned(c) /\ Orphaned(d)
    <3>1. Held(c, TRUE) = Held(d, TRUE)
      BY <1>1, <1>2, <2>2 DEF OrphanStaysVisible
    <3>2. Held(c, TRUE).owner = c /\ Held(d, TRUE).owner = d
      BY DEF Held
    <3> QED
      BY <3>1, <3>2
  <2>3. CASE Orphaned(c) /\ Admitted(d)
    BY <1>2, <2>3 DEF FlightInv, OrphanGuarded, Admitted, Locked
  <2>4. CASE Admitted(c) /\ Orphaned(d)
    BY <1>2, <2>4 DEF FlightInv, OrphanGuarded, Admitted, Locked
  <2> QED
    BY <1>2, <2>1, <2>2, <2>3, <2>4 DEF InFlight
<1> QED
  BY <1>1, <1>2 DEF SlotExclusion

(* The limit of the pool holds for live leases and orphaned workers together, for
   any number of calls per process, through crashes at any point, failing storage
   and foreign hosts, as long as no sibling closes its descriptor under a lease
   and no unanswered `docker inspect` hides a container: two operations that share
   a slot prove that one of the two has happened (_try_acquire,
   _default_orphan_probe). *)
THEOREM InFlightExclusive == Spec /\ [][Undisturbed]_vars => []SlotExclusion
<1>1. FlightInv /\ [Next]_vars /\ [Undisturbed]_vars => FlightInv'
  BY FlightStep, FlightStutter
<1>2. FlightInv => SlotExclusion
  BY FlightExclusive
<1> QED
  BY FlightInit, <1>1, <1>2, PTL DEF Spec

(* Until one of the two events has happened, an orphaned worker's slot goes on
   naming it (update_worker, _default_orphan_probe). *)
THEOREM OrphanVisible == Spec /\ [][Undisturbed]_vars => []OrphanStaysVisible
<1>1. FlightInv /\ [Next]_vars /\ [Undisturbed]_vars => FlightInv'
  BY FlightStep, FlightStutter
<1>2. FlightInv => OrphanStaysVisible
  BY FlightExclusive
<1> QED
  BY FlightInit, <1>1, <1>2, PTL DEF Spec
-----------------------------------------------------------------------------
(* Refinement.  A step of a call changes the use of the pool by that call at
   most; a crash only gives back. *)

OpInPool == \A c \in Calls : op[c] # "none" => at[c] \in Slots

Keeps(d) == /\ InFlight(d)' <=> InFlight(d)
            /\ InFlight(d) => at'[d] = at[d]

OnlyTurns(c) == /\ \A d \in Calls : d # c => Keeps(d)
                /\ InFlight(c) => at'[c] = at[c]

Recedes == \A d \in Calls : InFlight(d)' => InFlight(d) /\ at'[d] = at[d]

LEMMA UntouchedKeeps ==
  ASSUME NEW d \in Calls, Untouched(d)
  PROVE  Keeps(d)
BY DEF Untouched, Keeps, InFlight, Admitted, Orphaned

LEMMA OpInPoolStep ==
  ASSUME TypeOK, WorkerPlace, OpInPool, [Next]_vars
  PROVE  OpInPool'
<1> USE DEF OpInPool
<1>1. ASSUME NEW e \in Calls, StepOf(e) PROVE OpInPool'
  <2> SUFFICES ASSUME NEW c \in Calls, op'[c] # "none"
               PROVE  at'[c] \in Slots
    BY DEF Slots
  <2>1. Local(e)
    BY <1>1, LocalStep
  <2>2. CASE c # e
    BY <2>1, <2>2 DEF Local, Untouched
  <2>3. CASE c = e
    <3>1. op[e] # "none" \/ pc[e] = "held"
      BY <2>1, <2>3 DEF Local
    <3>2. at'[e] = at[e]
      BY <2>1, <3>1 DEF Local, WorkerPlace
    <3> QED
      BY <2>3, <3>1, <3>2 DEF TypeOK, Locked
  <2> QED
    BY <2>2, <2>3
<1>2. ASSUME NEW p \in Procs, Crash(p) PROVE OpInPool'
  BY <1>2 DEF Crash, Slots
<1>3. CASE UNCHANGED vars
  BY <1>3 DEF vars, Slots
<1> QED
  BY <1>1, <1>2, <1>3 DEF Next, StepOf

LEMMA StepTurnsOne ==
  ASSUME TypeOK, WorkerPlace, [Next]_vars
  PROVE  Recedes \/ \E c \in Calls : OnlyTurns(c)
<1>1. ASSUME NEW e \in Calls, StepOf(e) PROVE OnlyTurns(e)
  <2>1. Local(e)
    BY <1>1, LocalStep
  <2>2. ASSUME InFlight(e) PROVE at'[e] = at[e]
    BY <2>1, <2>2 DEF Local, InFlight, Admitted, Orphaned
  <2> QED
    BY <2>1, <2>2, UntouchedKeeps DEF Local, OnlyTurns
<1>2. ASSUME NEW p \in Procs, Crash(p) PROVE Recedes
  <2> SUFFICES ASSUME NEW d \in Calls, InFlight(d)'
               PROVE  InFlight(d) /\ at'[d] = at[d]
    BY DEF Recedes
  <2>1. UNCHANGED <<at, job, op, recorded>>
    BY <1>2 DEF Crash
  <2>2. CASE ProcOf[d] # p
    <3>1. Untouched(d)
      BY <1>2, <2>2 DEF Crash, Untouched
    <3> QED
      BY <2>1, <3>1, UntouchedKeeps DEF Keeps
  <2>3. CASE ProcOf[d] = p
    <3>1. pc'[d] = "dead"
      BY <1>2, <2>3 DEF Crash
    <3>2. d \in recorded /\ op[d] # "none"
      BY <2>1, <3>1 DEF InFlight, Admitted, Orphaned
    <3> QED
      BY <2>1, <3>2 DEF WorkerPlace, InFlight, Admitted, Orphaned
  <2> QED
    BY <2>2, <2>3
<1>3. ASSUME UNCHANGED vars PROVE Recedes
  <2>1. \A d \in Calls : Untouched(d)
    BY <1>3 DEF vars, Untouched
  <2> QED
    BY <2>1, UntouchedKeeps DEF Keeps, Recedes
<1> QED
  BY <1>1, <1>2, <1>3 DEF Next, StepOf

LEMMA UsageMember ==
  \A u : u \in Usage <=> \E d \in Calls : InFlight(d) /\ u = <<at[d], d>>
BY DEF Usage

LEMMA NextUsageMember ==
  \A u : u \in Usage' <=> \E d \in Calls : InFlight(d)' /\ u = <<at'[d], d>>
BY DEF Usage

(* Exclusion after the step is what the guard of Take asks for. *)
LEMMA TurnIsPoolStep ==
  ASSUME TypeOK, OpInPool, TypeOK', OpInPool', SlotExclusion',
         NEW c \in Calls, OnlyTurns(c)
  PROVE  [Pool!Next]_Usage
<1> DEFINE s == at[c]
           t == at'[c]
<1>1. ASSUME NEW d \in Calls, d # c
      PROVE  /\ InFlight(d)' <=> InFlight(d)
             /\ InFlight(d) => at'[d] = at[d]
  BY <1>1 DEF OnlyTurns, Keeps
<1>2. CASE InFlight(c) /\ InFlight(c)'
  <2>1. t = s
    BY <1>2 DEF OnlyTurns
  <2>2. \A u : u \in Usage' <=> u \in Usage
    BY <1>1, <1>2, <2>1, UsageMember, NextUsageMember
  <2> QED
    BY <2>2
<1>3. CASE ~InFlight(c) /\ ~InFlight(c)'
  <2>1. \A u : u \in Usage' <=> u \in Usage
    BY <1>1, <1>3, UsageMember, NextUsageMember
  <2> QED
    BY <2>1
<1>4. CASE InFlight(c) /\ ~InFlight(c)'
  <2>2. <<s, c>> \in Usage
    BY <1>4, UsageMember
  <2>3. \A u : u \in Usage' <=> u \in Usage /\ u # <<s, c>>
    BY <1>1, <1>4, UsageMember, NextUsageMember
  <2>4. Pool!Give({<<s, c>>})
    BY <2>2, <2>3 DEF Pool!Give
  <2> QED
    BY <2>2, <2>4 DEF Pool!Next
<1>5. CASE ~InFlight(c) /\ InFlight(c)'
  <2>1. t \in 0..(NumSlots - 1)
    BY <1>5 DEF TypeOK, OpInPool, InFlight, Admitted, Orphaned, Locked, Slots
  <2>2. ASSUME NEW d \in Calls, InFlight(d) PROVE d # c /\ at[d] # t
    <3>1. d # c
      BY <1>5, <2>2
    <3>2. InFlight(d)' /\ at'[d] = at[d]
      BY <1>1, <2>2, <3>1
    <3>3. at'[d] # at'[c]
      BY <1>5, <3>1, <3>2 DEF SlotExclusion
    <3> QED
      BY <3>1, <3>2, <3>3
  <2>3. \A u \in Usage : u[1] # t /\ u[2] # c
    BY <2>2, UsageMember
  <2>4. \A u : u \in Usage' <=> u \in Usage \/ u = <<t, c>>
    BY <1>1, <1>5, UsageMember, NextUsageMember
  <2>5. Pool!Take(t, c)
    BY <2>3, <2>4 DEF Pool!Take
  <2> QED
    BY <2>1, <2>5 DEF Pool!Next
<1> QED
  BY <1>2, <1>3, <1>4, <1>5

LEMMA StepIsPoolStep ==
  ASSUME FlightInv, OpInPool, TypeOK', OpInPool', SlotExclusion', [Next]_vars
  PROVE  [Pool!Next]_Usage
<1>1. CASE \E c \in Calls : OnlyTurns(c)
  BY <1>1, TurnIsPoolStep DEF FlightInv
<1>2. CASE Recedes
  <2> DEFINE gone == Usage \ Usage'
  <2>1. \A u : u \in Usage' => u \in Usage
    BY <1>2, UsageMember, NextUsageMember DEF Recedes
  <2>2. Usage' = Usage \ gone
    BY <2>1
  <2>3. CASE gone = {}
    BY <2>2, <2>3
  <2>4. CASE gone # {}
    <3>1. gone \in SUBSET Usage /\ Pool!Give(gone)
      BY <2>2, <2>4 DEF Pool!Give
    <3> QED
      BY <3>1 DEF Pool!Next
  <2> QED
    BY <2>3, <2>4
<1> QED
  BY <1>1, <1>2, StepTurnsOne DEF FlightInv

LEMMA PoolInit == Init => Pool!Init /\ OpInPool
BY DEF Init, Pool!Init, OpInPool, Usage, InFlight, Admitted, Orphaned

(* The arbiter is a bounded pool: whatever probes, reclaims, torn writes, failed
   admissions and crashes happen underneath, its users see a free slot taken by
   one call, a slot given back by the call that used it, or a process dying with
   all its calls.  It stays one until one of the two events has happened. *)
THEOREM RefinesPool == Spec /\ [][Undisturbed]_vars => ImplementsPool
<1>1. FlightInv /\ [Next]_vars /\ [Undisturbed]_vars => FlightInv'
  BY FlightStep, FlightStutter
<1>2. FlightInv => TypeOK /\ SlotExclusion
  BY FlightExclusive DEF FlightInv
<1>3. FlightInv /\ OpInPool /\ [Next]_vars => OpInPool'
  BY OpInPoolStep DEF FlightInv
<1>4. /\ FlightInv /\ OpInPool /\ [Next]_vars
      /\ TypeOK' /\ OpInPool' /\ SlotExclusion'
      => [Pool!Next]_Usage
  BY StepIsPoolStep
<1> QED
  BY FlightInit, PoolInit, <1>1, <1>2, <1>3, <1>4, PTL
  DEF Spec, ImplementsPool, Pool!Spec

-----------------------------------------------------------------------------
(* Slots and the living.  HELD metadata of a living process belongs to a call
   that has not yet begun the rewrite that releases the slot. *)

OwnerInLease ==
  \A s \in Slots :
    LET m == file[s]
    IN  m.state = "HELD" /\ ProcOf[m.owner] \in alive =>
          /\ m.owner \in Calls /\ at[m.owner] = s
          /\ pc[m.owner] \in {"announce", "returned", "held", "trunc"}

(* A step of a call that leaves the slot files alone and keeps a lease a lease. *)
LEMMA OwnerQuietStep ==
  ASSUME OwnerInLease, UNCHANGED <<file, alive>>,
         NEW e \in Calls, \A d \in Calls : d # e => Untouched(d),
         pc[e] \in {"announce", "returned", "held", "trunc"} =>
           /\ at'[e] = at[e]
           /\ pc'[e] \in {"announce", "returned", "held", "trunc"}
  PROVE  OwnerInLease'
BY DEF OwnerInLease, Untouched

LEMMA OwnerStep ==
  ASSUME ~SlotFaults, TypeOK, OwnerInLease, [Next]_vars
  PROVE  OwnerInLease'
<1>1. ASSUME NEW e \in Calls, StepOf(e), ~Truncate(e), ~Flush(e)
      PROVE  OwnerInLease'
  <2>1. Local(e)
    BY <1>1, LocalStep
  <2>2. /\ UNCHANGED <<file, alive>>
        /\ pc[e] \in {"announce", "returned", "held", "trunc"} =>
             pc'[e] \in {"announce", "returned", "held", "trunc"}
    <3> DEFINE Goal == /\ UNCHANGED <<file, alive>>
                       /\ pc[e] \in {"announce", "returned", "held", "trunc"} =>
                            pc'[e] \in {"announce", "returned", "held", "trunc"}
    <3>1. CASE Begin(e) \/ Poll(e) \/ TryLock(e) \/ Exhausted(e) \/ GiveUp(e)
      BY <3>1 DEF Begin, Poll, TryLock, Exhausted, GiveUp
    <3>2. CASE ReadMetadata(e) \/ ProbeOwner(e) \/ Unlock(e) \/ CloseStream(e)
      BY <3>2 DEF ReadMetadata, ProbeOwner, Unlock, CloseStream
    <3>3. CASE Announce(e) \/ Deliver(e)
      BY <3>3 DEF Announce, Deliver, Goto, GotoFor, TypeOK
    <3>4. CASE Spawn(e) \/ ClearWorker(e) \/ Release(e)
      BY <3>4 DEF Spawn, ClearWorker, Release, Goto, GotoFor, TypeOK
    <3>5. CASE Cancel(e) \/ WorkStep(e)
      BY <3>5 DEF Cancel, WorkStep, WorkerExit, ContainerExit
    <3>6. ~WriteFault(e)
      BY DEF WriteFault
    <3> QED
      BY <1>1, <3>1, <3>2, <3>3, <3>4, <3>5, <3>6 DEF StepOf, CallStep
  <2>3. \A d \in Calls : d # e => Untouched(d)
    BY <2>1 DEF Local
  <2>4. pc[e] \in {"announce", "returned", "held", "trunc"} => at'[e] = at[e]
    BY <2>1 DEF Local
  <2> QED
    BY <2>2, <2>3, <2>4, OwnerQuietStep
<1>2. ASSUME NEW e \in Calls, Truncate(e) PROVE OwnerInLease'
  <2>1. /\ at[e] \in Slots /\ pc' = [pc EXCEPT ![e] = "flush"]
        /\ file' = [file EXCEPT ![at[e]] = Blank("EMPTY")]
        /\ UNCHANGED <<at, alive>>
    BY <1>2 DEF Truncate, Goto, TypeOK, Locked
  <2>2. file'[at[e]].state = "EMPTY"
    BY <2>1 DEF TypeOK, Blank
  <2> QED
    BY <2>1, <2>2 DEF OwnerInLease, TypeOK
<1>3. ASSUME NEW e \in Calls, Flush(e) PROVE OwnerInLease'
  <2>1. /\ at[e] \in Slots /\ pc[e] = "flush"
        /\ pc' = [pc EXCEPT ![e] = AfterWrite(e)]
        /\ UNCHANGED <<at, alive, job>>
    BY <1>3 DEF Flush, Goto, TypeOK, Locked
  <2>2. /\ file'[at[e]] \in {Document(e), Blank("INVALID")}
        /\ \A s \in Slots : s # at[e] => file'[s] = file[s]
    BY <1>3, <2>1 DEF Flush, TypeOK
  <2>3. file'[at[e]].state = "HELD" =>
          /\ file'[at[e]].owner = e
          /\ AfterWrite(e) \in {"announce", "held"}
    BY <2>2 DEF Document, AfterWrite, Blank, Held
  <2> SUFFICES ASSUME NEW s \in Slots, file'[s].state = "HELD",
                      ProcOf[file'[s].owner] \in alive
               PROVE  /\ file'[s].owner \in Calls /\ at[file'[s].owner] = s
                      /\ pc'[file'[s].owner] \in
                           {"announce", "returned", "held", "trunc"}
    BY <2>1 DEF OwnerInLease
  <2>4. CASE s = at[e]
    BY <2>1, <2>3, <2>4 DEF TypeOK
  <2>5. CASE s # at[e]
    <3>1. /\ file[s].owner \in Calls /\ at[file[s].owner] = s
          /\ pc[file[s].owner] \in {"announce", "returned", "held", "trunc"}
      BY <2>2, <2>5 DEF OwnerInLease
    <3> QED
      BY <2>1, <2>2, <2>5, <3>1 DEF TypeOK
  <2> QED
    BY <2>4, <2>5
<1>4. ASSUME NEW p \in Procs, Crash(p) PROVE OwnerInLease'
  BY <1>4 DEF Crash, OwnerInLease
<1>5. CASE UNCHANGED vars
  BY <1>5 DEF vars, OwnerInLease
<1> QED
  BY <1>1, <1>2, <1>3, <1>4, <1>5 DEF Next, StepOf

(* When slot metadata can be read and written, no slot is lost to a living
   process: failed admissions, cancellations, audit failures and crashes of
   others included.  Threads of one process may share the pool here. *)
THEOREM SlotsReturned ==
  ASSUME ~SlotFaults
  PROVE  Spec => []NoSlotLost
<1>1. Init => OwnerInLease
  BY DEF Init, OwnerInLease, Blank
<1>2. TypeOK /\ OwnerInLease /\ [Next]_vars => OwnerInLease'
  BY OwnerStep
<1>3. OwnerInLease => NoSlotLost
  BY DEF OwnerInLease, NoSlotLost, Locked
<1> QED
  BY <1>1, <1>2, <1>3, TypeCorrect, PTL DEF Spec
=============================================================================
