--------------------------- MODULE ResourceArbiter ---------------------------
(***************************************************************************)
(* The cross-process HTTP/EDA concurrency arbiter                          *)
(* (infrastructure/resource_arbiter.py): one pool of slot files shared by  *)
(* OS processes.  A call acquires the first slot whose file it can lock    *)
(* and whose metadata names no living owner, worker or container, runs one *)
(* operation under it, and releases it.                                    *)
(*                                                                         *)
(* The lock primitive (infrastructure/file_lock, shipped compiled) is      *)
(* modelled by its documented behaviour: a path-local mutex between the    *)
(* threads of a process and a POSIX record lock (lockf) between processes. *)
(* A record lock belongs to a process, and the kernel drops it when the    *)
(* process closes ANY descriptor of the file.                              *)
(***************************************************************************)
EXTENDS Integers, FiniteSets

CONSTANTS
  Calls,        \* the acquire() and status() calls, one operation each
  Inspectors,   \* the calls that are read_resource_status()
  Procs,        \* OS process identities (pid + start ticks, never reused)
  ProcOf,       \* the process each call runs in
  HostOf,       \* the host of each process
  NumSlots,     \* limits[kind]
  Kind,         \* "http" or "eda"
  MaxCancels,   \* how often the task awaiting an acquisition is cancelled
  EventFaults,  \* whether appending an audit event may raise
  SlotFaults,   \* whether reading or writing slot metadata may raise
  DockerFaults, \* whether `docker inspect` may fail or time out
  NoCall,       \* metadata without an owner
  NoProc        \* nobody holds the record lock

ASSUME ArbiterAssumption ==
  /\ Inspectors \subseteq Calls
  /\ ProcOf \in [Calls -> Procs]
  /\ NumSlots \in Nat \ {0}
  /\ Kind \in {"http", "eda"}
  /\ MaxCancels \in 0..2
  /\ {EventFaults, SlotFaults, DockerFaults} \subseteq BOOLEAN
  /\ NoCall \notin Calls
  /\ NoProc \notin Procs

VARIABLES
  pc,        \* where each call is in _try_acquire / acquire / close
  at,        \* the slot a call examines or leases
  job,       \* why a call is writing, unlocking or closing
  snap,      \* `previous`: the metadata a call read under the lock
  cancels,   \* cancellations delivered to the awaiting task
  alive,     \* the processes that have not crashed
  record,    \* the process holding each slot's record lock
  file,      \* the contents of each slot file
  op,        \* the worker process or container of each lease
  recorded   \* the leases whose worker identity is durable

vars == <<pc, at, job, snap, cancels, alive, record, file, op, recorded>>

Slots == 0..(NumSlots - 1)

Metadata == [state  : {"EMPTY", "INVALID", "RELEASED", "HELD"},
             owner  : Calls \cup {NoCall},
             worker : BOOLEAN]

Blank(state)   == [state |-> state, owner |-> NoCall, worker |-> FALSE]
Held(c, w)     == [state |-> "HELD", owner |-> c, worker |-> w]

Waiting  == {"poll", "scan", "read", "probe", "shut"}
(* Between a successful acquire_exclusive_file_lock and its release. *)
Locked   == {"read", "probe", "trunc", "flush", "announce", "returned",
             "held", "unlock"}
PCs      == {"new", "poll", "scan", "shut", "done", "dead"} \cup Locked
Jobs     == {"none", "skip", "raise", "admit", "abort", "worker", "clear",
             "release"}

(* The lease is admitted and its operation may be in flight. *)
Admitted(c) == \/ pc[c] \in {"returned", "held"}
               \/ pc[c] \in {"trunc", "flush"} /\ job[c] \in {"worker", "clear"}

(* The owner is gone; its durably recorded worker or container is not. *)
Orphaned(c) == pc[c] = "dead" /\ c \in recorded /\ op[c] # "none"

Goto(c, label) == pc' = [pc EXCEPT ![c] = label]

GotoFor(c, label, why) == /\ Goto(c, label)
                          /\ job' = [job EXCEPT ![c] = why]

-----------------------------------------------------------------------------
(* The lock primitive. *)

LocalBusy(c) == \E d \in Calls \ {c} : /\ ProcOf[d] = ProcOf[c]
                                       /\ pc[d] \in Locked
                                       /\ at[d] = at[c]

(* Slip: trusts the path-local mutex alone. *)
LockFreeLocally(c) == ~LocalBusy(c)

LockFree(c) == ~LocalBusy(c) /\ record[at[c]] \in {NoProc, ProcOf[c]}

(* Slip: unlocks whoever holds the slot. *)
DropAnyRecord(c) == record' = [record EXCEPT ![at[c]] = NoProc]

(* Unlocking a slot, and closing any descriptor of its file, both drop the
   record lock the PROCESS holds on it. *)
DropRecord(c) == record' = [record EXCEPT ![at[c]] =
                              IF @ = ProcOf[c] THEN NoProc ELSE @]

-----------------------------------------------------------------------------
(* The orphan probe on metadata m, as seen by call c. *)

SameHost(c, o)    == HostOf[ProcOf[c]] = HostOf[ProcOf[o]]
RunsHere(c, o)    == at[o] = at[c]

WorkerAlive(c, m) == /\ m.worker /\ SameHost(c, m.owner)
                     /\ RunsHere(c, m.owner) /\ op[m.owner] = "worker"
OwnerAlive(c, m)  == SameHost(c, m.owner) /\ ProcOf[m.owner] \in alive
ContainerActive(c, m) == /\ m.worker /\ SameHost(c, m.owner)
                         /\ RunsHere(c, m.owner) /\ op[m.owner] # "none"
ForeignWorker(c, m) == Kind = "eda" /\ m.worker /\ ~SameHost(c, m.owner)

(* Slips of the probe: a container does not count, a worker on another host
   does not count, HELD metadata is an authority by itself. *)
StillOwnedByProcess(c, m, dockerAnswers) ==
  WorkerAlive(c, m) \/ OwnerAlive(c, m) \/ ForeignWorker(c, m)
StillOwnedHere(c, m, dockerAnswers) ==
  \/ WorkerAlive(c, m)
  \/ OwnerAlive(c, m)
  \/ dockerAnswers /\ ContainerActive(c, m)
StillOwnedWhileHeld(c, m, dockerAnswers) == m.state = "HELD"

StillOwned(c, m, dockerAnswers) ==
  \/ WorkerAlive(c, m)
  \/ OwnerAlive(c, m)
  \/ dockerAnswers /\ ContainerActive(c, m)
  \/ ForeignWorker(c, m)

-----------------------------------------------------------------------------
(* acquire() and read_resource_status() *)

Begin(c) ==
  /\ pc[c] = "new" /\ ProcOf[c] \in alive
  /\ Goto(c, "poll")
  /\ UNCHANGED <<at, job, snap, cancels, alive, record, file, op, recorded>>

(* The head of the acquire loop: cancel_check, then slot 0. *)
Poll(c) ==
  /\ pc[c] = "poll"
  /\ IF cancels[c] > 0
     THEN Goto(c, "done") /\ UNCHANGED at
     ELSE Goto(c, "scan") /\ at' = [at EXCEPT ![c] = 0]
  /\ UNCHANGED <<job, snap, cancels, alive, record, file, op, recorded>>

(* Open the slot file and try its lock without blocking. *)
TryLock(c) ==
  /\ pc[c] = "scan" /\ at[c] \in Slots
  /\ IF LockFree(c)
     THEN /\ record' = [record EXCEPT ![at[c]] = ProcOf[c]]
          /\ Goto(c, "read") /\ UNCHANGED job
     ELSE GotoFor(c, "shut", "skip") /\ UNCHANGED record
  /\ UNCHANGED <<at, snap, cancels, alive, file, op, recorded>>

(* Every slot was tried: an inspector is finished; a request publishes QUEUED,
   then sleeps and polls again, or runs out of time. *)
Exhausted(c) ==
  /\ pc[c] = "scan" /\ at[c] = NumSlots
  /\ \/ c \notin Inspectors /\ Goto(c, "poll")
     \/ c \in Inspectors /\ Goto(c, "done")
  /\ UNCHANGED <<at, job, snap, cancels, alive, record, file, op, recorded>>

(* ResourceQueueTimeout, or the QUEUED / QUEUE_TIMEOUT event cannot be
   appended: the request ends without a lease. *)
GiveUp(c) ==
  /\ pc[c] = "scan" /\ at[c] = NumSlots /\ c \notin Inspectors
  /\ Goto(c, "done")
  /\ UNCHANGED <<at, job, snap, cancels, alive, record, file, op, recorded>>

ReadMetadata(c) ==
  /\ pc[c] = "read"
  /\ \/ /\ c \in Inspectors
        /\ GotoFor(c, "unlock", "skip") /\ UNCHANGED snap
     \/ /\ c \notin Inspectors
        /\ Goto(c, "probe") /\ UNCHANGED job
        /\ snap' = [snap EXCEPT ![c] = file[at[c]]]
     \/ /\ c \notin Inspectors /\ SlotFaults
        /\ GotoFor(c, "unlock", "raise") /\ UNCHANGED snap
  /\ UNCHANGED <<at, cancels, alive, record, file, op, recorded>>

(* Leave an owned slot; publish RECLAIMED over a dead one; take a free one. *)
ProbeOwner(c) ==
  /\ pc[c] = "probe"
  /\ \E dockerAnswers \in IF DockerFaults THEN BOOLEAN ELSE {TRUE} :
       LET held  == snap[c].state = "HELD"
           owned == held /\ StillOwned(c, snap[c], dockerAnswers)
       IN  \/ owned  /\ GotoFor(c, "unlock", "skip")
           \/ ~owned /\ GotoFor(c, "trunc", "admit")
           \/ held /\ ~owned /\ EventFaults /\ GotoFor(c, "unlock", "raise")
  /\ snap' = [snap EXCEPT ![c] = Blank("EMPTY")]
  /\ UNCHANGED <<at, cancels, alive, record, file, op, recorded>>

-----------------------------------------------------------------------------
(* _write_stream_json: truncate the file, then append the new document.  The
   stream is opened "a+", so a flush over a file another writer has filled in
   the meantime leaves two documents behind: INVALID_JSON to every reader. *)

Document(c) == CASE job[c] \in {"admit", "clear"}   -> Held(c, FALSE)
                 [] job[c] = "worker"               -> Held(c, TRUE)
                 [] job[c] \in {"abort", "release"} -> Blank("RELEASED")
                 [] OTHER                           -> Blank("INVALID")

AfterWrite(c) == CASE job[c] = "admit"               -> "announce"
                   [] job[c] \in {"worker", "clear"} -> "held"
                   [] OTHER                          -> "unlock"

Truncate(c) ==
  /\ pc[c] = "trunc"
  /\ file' = [file EXCEPT ![at[c]] = Blank("EMPTY")]
  /\ Goto(c, "flush")
  /\ UNCHANGED <<at, job, snap, cancels, alive, record, op, recorded>>

Flush(c) ==
  /\ pc[c] = "flush"
  /\ file' = [file EXCEPT ![at[c]] = IF @.state = "EMPTY" THEN Document(c)
                                     ELSE Blank("INVALID")]
  /\ recorded' = CASE job[c] = "worker" -> recorded \cup {c}
                   [] job[c] = "clear"  -> recorded \ {c}
                   [] OTHER             -> recorded
  /\ Goto(c, AfterWrite(c))
  /\ UNCHANGED <<at, job, snap, cancels, alive, record, op>>

(* The write raises before or after the truncation.  An admission is undone, a
   release still unlocks (the `finally` of close()), and a worker update
   surfaces in the command runner, which still closes the lease. *)
WriteFault(c) ==
  /\ SlotFaults
  /\ pc[c] \in {"trunc", "flush"}
  /\ IF job[c] = "admit" THEN GotoFor(c, "unlock", "raise")
     ELSE Goto(c, AfterWrite(c)) /\ UNCHANGED job
  /\ UNCHANGED <<at, snap, cancels, alive, record, file, op, recorded>>

(* Slip: a failed admission unlocks but leaves its HELD document. *)
AnnounceWithoutUndo(c) ==
  /\ pc[c] = "announce"
  /\ \/ Goto(c, "returned") /\ UNCHANGED job
     \/ EventFaults /\ GotoFor(c, "unlock", "raise")
  /\ UNCHANGED <<at, snap, cancels, alive, record, file, op, recorded>>

(* The ACQUIRED event is durable, or the admission is undone: RELEASED is
   written before the lock is given up. *)
Announce(c) ==
  /\ pc[c] = "announce"
  /\ \/ Goto(c, "returned") /\ UNCHANGED job
     \/ EventFaults /\ GotoFor(c, "trunc", "abort")
  /\ UNCHANGED <<at, snap, cancels, alive, record, file, op, recorded>>

-----------------------------------------------------------------------------
(* acquire_from_environment_async: the thread's lease reaches the awaiting
   task; a task cancelled once waits for the thread and closes the lease; a
   task cancelled again while it waits has gone. *)
Deliver(c) ==
  /\ pc[c] = "returned"
  /\ \/ cancels[c] = 0 /\ Goto(c, "held") /\ UNCHANGED job
     \/ cancels[c] = 1 /\ GotoFor(c, "trunc", "release")
  /\ UNCHANGED <<at, snap, cancels, alive, record, file, op, recorded>>

Cancel(c) ==
  /\ c \notin Inspectors /\ cancels[c] < MaxCancels
  /\ pc[c] \notin {"new", "held", "done", "dead"}
  /\ job[c] \in {"none", "skip", "admit", "abort"}
  /\ cancels' = [cancels EXCEPT ![c] = @ + 1]
  /\ UNCHANGED <<pc, at, job, snap, alive, record, file, op, recorded>>

-----------------------------------------------------------------------------
(* The operation under the lease (the compiled command runner): the worker is
   spawned in a session of its own, then its identity is recorded. *)
Spawn(c) ==
  /\ pc[c] = "held" /\ job[c] = "admit" /\ Kind = "eda"
  /\ op' = [op EXCEPT ![c] = "worker"]
  /\ GotoFor(c, "trunc", "worker")
  /\ UNCHANGED <<at, snap, cancels, alive, record, file, recorded>>

(* The worker ends; its container may outlive it. *)
WorkerExit(c) ==
  /\ op[c] = "worker"
  /\ \E rest \in {"none", "container"} : op' = [op EXCEPT ![c] = rest]
  /\ UNCHANGED <<pc, at, job, snap, cancels, alive, record, file, recorded>>

ContainerExit(c) ==
  /\ op[c] = "container"
  /\ op' = [op EXCEPT ![c] = "none"]
  /\ UNCHANGED <<pc, at, job, snap, cancels, alive, record, file, recorded>>

ClearWorker(c) ==
  /\ pc[c] = "held" /\ job[c] = "worker" /\ op[c] = "none"
  /\ GotoFor(c, "trunc", "clear")
  /\ UNCHANGED <<at, snap, cancels, alive, record, file, op, recorded>>

(* GlobalResourceLease.close *)
Release(c) ==
  /\ pc[c] = "held" /\ job[c] \in {"admit", "clear"}
  /\ GotoFor(c, "trunc", "release")
  /\ UNCHANGED <<at, snap, cancels, alive, record, file, op, recorded>>

Unlock(c) ==
  /\ pc[c] = "unlock"
  /\ DropRecord(c)
  /\ Goto(c, "shut")
  /\ UNCHANGED <<at, job, snap, cancels, alive, file, op, recorded>>

(* Slip: the scan runs down from the slot it started at. *)
CloseStreamScanningDown(c) ==
  /\ pc[c] = "shut"
  /\ DropRecord(c)
  /\ IF job[c] = "skip"
     THEN GotoFor(c, "scan", "none") /\ at' = [at EXCEPT ![c] = @ - 1]
     ELSE Goto(c, "done") /\ UNCHANGED <<at, job>>
  /\ UNCHANGED <<snap, cancels, alive, file, op, recorded>>

CloseStream(c) ==
  /\ pc[c] = "shut"
  /\ DropRecord(c)
  /\ IF job[c] = "skip"
     THEN /\ GotoFor(c, "scan", "none")
          /\ at' = [at EXCEPT ![c] = @ + 1]
     ELSE Goto(c, "done") /\ UNCHANGED <<at, job>>
  /\ UNCHANGED <<snap, cancels, alive, file, op, recorded>>

(* SIGKILL: the kernel drops every record lock of the process; slot files and
   workers stay. *)
Crash(p) ==
  /\ p \in alive
  /\ alive' = alive \ {p}
  /\ pc' = [c \in Calls |-> IF ProcOf[c] = p THEN "dead" ELSE pc[c]]
  /\ snap' = [c \in Calls |-> IF ProcOf[c] = p THEN Blank("EMPTY") ELSE snap[c]]
  /\ record' = [s \in Slots |-> IF record[s] = p THEN NoProc ELSE record[s]]
  /\ UNCHANGED <<at, job, cancels, file, op, recorded>>

-----------------------------------------------------------------------------
Init ==
  /\ pc = [c \in Calls |-> "new"]
  /\ at = [c \in Calls |-> 0]
  /\ job = [c \in Calls |-> "none"]
  /\ snap = [c \in Calls |-> Blank("EMPTY")]
  /\ cancels = [c \in Calls |-> 0]
  /\ alive = Procs
  /\ record = [s \in Slots |-> NoProc]
  /\ file = [s \in Slots |-> Blank("EMPTY")]
  /\ op = [c \in Calls |-> "none"]
  /\ recorded = {}

(* What the code of a call does next, storage and timeouts permitting. *)
CallStep(c) ==
  \/ Poll(c) \/ TryLock(c) \/ Exhausted(c) \/ ReadMetadata(c) \/ ProbeOwner(c)
  \/ Truncate(c) \/ Flush(c) \/ Announce(c) \/ Deliver(c)
  \/ ClearWorker(c) \/ Release(c) \/ Unlock(c) \/ CloseStream(c)

WorkStep(c) == WorkerExit(c) \/ ContainerExit(c)

Next ==
  \/ \E c \in Calls : \/ CallStep(c) \/ WorkStep(c)
                      \/ Begin(c) \/ Spawn(c) \/ Cancel(c)
                      \/ GiveUp(c) \/ WriteFault(c)
  \/ \E p \in Procs : Crash(p)

Spec == Init /\ [][Next]_vars

(* A thread that can run eventually runs, and an external tool eventually
   ends.  Nothing makes a request start, time out, be cancelled or crash. *)
Fairness == \A c \in Calls : WF_vars(CallStep(c)) /\ WF_vars(WorkStep(c))

FairSpec == Spec /\ Fairness

-----------------------------------------------------------------------------
TypeOK ==
  /\ pc \in [Calls -> PCs]
  /\ at \in [Calls -> 0..NumSlots]
  /\ \A c \in Calls : pc[c] \in Locked \cup {"shut"} => at[c] \in Slots
  /\ job \in [Calls -> Jobs]
  /\ snap \in [Calls -> Metadata]
  /\ cancels \in [Calls -> 0..2]
  /\ alive \subseteq Procs
  /\ record \in [Slots -> Procs \cup {NoProc}]
  /\ file \in [Slots -> Metadata]
  /\ op \in [Calls -> {"none", "worker", "container"}]
  /\ recorded \subseteq Calls

(* The limit holds for what is in flight, not only for what is leased: two
   operations never share a slot, be they run by a live lease or by the
   recorded worker or container of a dead one (_try_acquire, close). *)
InFlight(c) == Admitted(c) \/ Orphaned(c)

SlotExclusion ==
  \A c, d \in Calls : InFlight(c) /\ InFlight(d) /\ at[c] = at[d] => c = d

(* The record lock a call took in _try_acquire is still its process's until the
   call itself gives it up: nothing else the process does takes it away. *)
LeaseKeepsLock ==
  \A c \in Calls : pc[c] \in Locked => record[at[c]] = ProcOf[c]

(* The slot file goes on naming the recorded worker of a dead lease until that
   worker and its container are gone: the next owners of the slot, and the
   inspectors, have nothing else to find the orphan by (update_worker,
   _default_orphan_probe). *)
OrphanStaysVisible ==
  \A c \in Calls : Orphaned(c) => file[at[c]] = Held(c, TRUE)

(* The pool as its users see it: taking and giving back slots one at a time,
   whatever crashes, reclaims and failed admissions happen underneath. *)
Usage == {<<at[c], c>> : c \in {d \in Calls : InFlight(d)}}

Pool == INSTANCE BoundedPool WITH usage <- Usage

ImplementsPool == Pool!Spec

(* A slot is never lost to a living process that no longer uses it: metadata
   that every probe must respect belongs to a call still inside its lease
   (the RELEASED rewrite of a failed admission, and of close). *)
NoSlotLost ==
  \A s \in Slots :
    LET m == file[s]
    IN  m.state = "HELD" /\ ProcOf[m.owner] \in alive
          => pc[m.owner] \in Locked /\ at[m.owner] = s

(* Crashed owners, orphaned workers, inspectors and failed admissions never
   block the pool for good: a request that keeps polling is admitted, unless it
   ends by itself (acquire, the RECLAIMED path of _try_acquire). *)
RequestsServed ==
  \A c \in Calls : pc[c] = "poll" ~> pc[c] \in {"returned", "done", "dead"}

=============================================================================
