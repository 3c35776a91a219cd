-------------------------- MODULE Dispatch_proofs --------------------------
(***************************************************************************)
(* Theorems about Dispatch, for every run, every number of processes and   *)
(* every answer of the host.                                               *)
(***************************************************************************)
EXTENDS Dispatch, TLAPS

\* A key names a task of the run.
LEMMA KeyTask == \A k \in Keys : k[1] \in Tasks
  BY DEF Keys

\* Overwriting one value of a function, inside its domain or not.
LEMMA Overwrite ==
  ASSUME NEW S, NEW T, NEW f \in [S -> T], NEW x, NEW y,
         y = f[x] \/ y \in T
  PROVE  [f EXCEPT ![x] = y] \in [S -> T]
  OBVIOUS

-----------------------------------------------------------------------------
(* Type correctness.  TypeOK is not inductive: a process that works on one  *)
(* key must really have one.                                               *)

\* The places where a process works on the key in cur.
Working == {"persist", "emit", "invoke", "ingest", "block", "accept",
            "accepted", "record"}

HasKey == \A p \in Procs : pc[p] \in Working => cur[p] \in Keys

TypeInv == TypeOK /\ HasKey

\* store.ingest_receipt keeps every column within its values.
LEMMA IngestReceiptTypes ==
  ASSUME StoredTypes, NEW k \in Keys, NEW s \in Statuses \union {"none"},
         NEW m \in BOOLEAN, IngestReceipt(k, s, m)
  PROVE  StoredTypes'
<1>1. CASE UNCHANGED stored
  BY <1>1 DEF StoredTypes, stored
<1>2. CASE Progress(k, s, m)
  <2>1. k[1] \in Tasks /\ Projected(s, attempt[k]) \in AttemptStates
    BY KeyTask DEF StoredTypes, Projected, AttemptStates, ThreadStatuses
  <2>2. attempt' \in [Keys -> AttemptStates]
    BY <1>2, <2>1 DEF IngestReceipt, StoredTypes
  <2>3. taskState' \in [Tasks -> TaskStates]
    BY <1>2, <2>1 DEF IngestReceipt, StoredTypes, TaskStates
  <2>4. outbox' \in [Keys -> OutboxStates]
    BY <1>2 DEF IngestReceipt, StoredTypes, OutboxStates
  <2> QED
    BY <1>2, <2>2, <2>3, <2>4 DEF IngestReceipt, StoredTypes
<1> QED
  BY <1>1, <1>2 DEF IngestReceipt

\* So does the repair of a receipt's projection ...
LEMMA RepairTypes ==
  ASSUME StoredTypes, NEW k \in Keys, Repair(k)
  PROVE  StoredTypes'
  BY KeyTask DEF Repair, StoredTypes, stored, TaskStates, OutboxStates,
                 AttemptStates, ThreadStatuses

\* ... recording a blocker, too.
LEMMA RecordBlockerTypes ==
  ASSUME StoredTypes, NEW k \in Keys, RecordBlocker(k)
  PROVE  StoredTypes'
  BY KeyTask DEF RecordBlocker, StoredTypes, TaskStates, OutboxStates,
                 AttemptStates

\* A scheduling step keeps the types.
LEMMA ScheduleTypes ==
  ASSUME TypeInv, NEW p \in Procs, Schedule(p)
  PROVE  TypeInv'
<1> USE DEF TypeInv, HasKey, Working, TypeOK, StoredTypes, WorldTypes,
            MemoryTypes, KeySet, Labels, Goto, stored, world, RunStates,
            TaskStates, AttemptStates, OutboxStates, Statuses, ThreadStatuses
<1>1. ASSUME Guard(p) PROVE TypeInv'
  BY <1>1 DEF Guard, RecoverClaims
<1>2. ASSUME Recover(p) PROVE TypeInv'
  BY <1>2 DEF Recover, RecoverClaims
<1>3. ASSUME Snapshot(p) PROVE TypeInv'
  BY <1>3 DEF Snapshot
<1>4. ASSUME Allocate(p) PROVE TypeInv'
  BY <1>4, KeyTask DEF Allocate, Room
<1>5. ASSUME Acquire(p) PROVE TypeInv'
  BY <1>5, KeyTask DEF Acquire, Take
<1>6. ASSUME LeaseRefused(p) PROVE TypeInv'
  BY <1>6 DEF LeaseRefused
<1>7. ASSUME ResolutionRequired(p) PROVE TypeInv'
  BY <1>7 DEF ResolutionRequired
<1>8. ASSUME Persist(p) PROVE TypeInv'
  BY <1>8, KeyTask DEF Persist, Take
<1>9. ASSUME PersistAgain(p) PROVE TypeInv'
  BY <1>9 DEF PersistAgain, Take
<1>10. ASSUME PersistRefused(p) PROVE TypeInv'
  BY <1>10 DEF PersistRefused, Forget
<1>11. ASSUME Collect(p) PROVE TypeInv'
  BY <1>11 DEF Collect, CompleteRunIfReady, Pending
<1> QED
  BY <1>1, <1>2, <1>3, <1>4, <1>5, <1>6, <1>7, <1>8, <1>9, <1>10, <1>11 DEF
     Schedule

\* Ingest passes ingest_receipt the key and the receipt it holds.
LEMMA IngestStored ==
  ASSUME TypeInv, NEW p \in Procs, Ingest(p)
  PROVE  StoredTypes'
<1>1. cur[p] \in Keys /\ reply[p] \in Statuses \union {"none"}
  BY DEF Ingest, TypeInv, TypeOK, MemoryTypes, HasKey, Working
<1>2. PICK m \in Telemetry : IngestReceipt(cur[p], reply[p], m)
  BY DEF Ingest
<1>3. m \in BOOLEAN
  BY ConstantTypes
<1> QED
  BY <1>1, <1>2, <1>3, IngestReceiptTypes DEF TypeInv, TypeOK

\* Afterwards the process goes on to the next key or to block this one.
LEMMA IngestMemory ==
  ASSUME MemoryTypes, HasKey, NEW p \in Procs, Ingest(p)
  PROVE  MemoryTypes' /\ HasKey'
<1>1. CASE NextKey(p)
  BY <1>1 DEF NextKey, Goto, MemoryTypes, KeySet, Labels, HasKey, Working
<1>2. CASE /\ Goto(p, "block")
           /\ UNCHANGED <<stage, batch, queue, cur, reply, memo>>
  <2>1. MemoryTypes'
    BY <1>2 DEF Goto, MemoryTypes, KeySet, Labels
  <2>2. pc[p] = "ingest"
    BY DEF Ingest
  <2> QED
    BY <1>2, <2>1, <2>2 DEF Goto, MemoryTypes, HasKey, Working
<1> QED
  BY <1>1, <1>2 DEF Ingest

\* So does relaying an action to the host ...
LEMMA RelayTypes ==
  ASSUME TypeInv, NEW p \in Procs, Relay(p)
  PROVE  TypeInv'
<1> USE DEF TypeInv, HasKey, Working, TypeOK, StoredTypes, WorldTypes,
            MemoryTypes, KeySet, Labels, Goto, stored, world, RunStates,
            TaskStates, AttemptStates, OutboxStates, Statuses, ThreadStatuses
<1>1. ASSUME RouteKnown(p) PROVE TypeInv'
  <2>1. StoredTypes'
    BY <1>1, RepairTypes DEF RouteKnown
  <2> QED
    BY <1>1, <2>1 DEF RouteKnown
<1>2. ASSUME RouteFound(p) PROVE TypeInv'
  BY <1>2, ConstantTypes DEF RouteFound, Take
<1>3. ASSUME RouteMissing(p) PROVE TypeInv'
  BY <1>3 DEF RouteMissing
<1>4. ASSUME RouteNotEmitted(p) PROVE TypeInv'
  BY <1>4 DEF RouteNotEmitted
<1>5. ASSUME RouteUnavailable(p) PROVE TypeInv'
  BY <1>5 DEF RouteUnavailable, Take
<1>6. ASSUME RouteCreate(p) PROVE TypeInv'
  BY <1>6 DEF RouteCreate, Take
<1>7. ASSUME Emit(p) PROVE TypeInv'
  BY <1>7 DEF Emit
<1>8. ASSUME Invoke(p) PROVE TypeInv'
  BY <1>8 DEF Invoke
<1>9. ASSUME InvokeBlocked(p) PROVE TypeInv'
  BY <1>9 DEF InvokeBlocked
<1>10. ASSUME Ingest(p) PROVE TypeInv'
  <2>1. StoredTypes'
    BY <1>10, IngestStored
  <2>2. MemoryTypes' /\ HasKey'
    BY <1>10, IngestMemory
  <2> QED
    BY <1>10, <2>1, <2>2 DEF Ingest
<1>11. ASSUME Block(p) PROVE TypeInv'
  <2>1. StoredTypes'
    BY <1>11, RecordBlockerTypes DEF Block
  <2> QED
    BY <1>11, <2>1 DEF Block, NextKey
<1>12. ASSUME TickEnd(p) PROVE TypeInv'
  BY <1>12 DEF TickEnd, CompleteRunIfReady
<1>13. ASSUME SyncEnd(p) PROVE TypeInv'
  BY <1>13 DEF SyncEnd
<1>14. ASSUME CycleEnd(p) PROVE TypeInv'
  BY <1>14 DEF CycleEnd, Forget
<1> QED
  BY <1>1, <1>2, <1>3, <1>4, <1>5, <1>6, <1>7, <1>8, <1>9, <1>10, <1>11,
     <1>12, <1>13, <1>14 DEF Relay

\* ... and reading and accepting handoffs ...
LEMMA ReadHandoffsTypes ==
  ASSUME TypeInv, NEW p \in Procs, ReadHandoffs(p)
  PROVE  TypeInv'
<1> USE DEF TypeInv, HasKey, Working, TypeOK, StoredTypes, WorldTypes,
            MemoryTypes, KeySet, Labels, Goto, stored, world, RunStates,
            TaskStates, AttemptStates, OutboxStates, Statuses, ThreadStatuses
<1>1. ASSUME Monitor(p) PROVE TypeInv'
  BY <1>1 DEF Monitor, Observed
<1>2. ASSUME MonitorEnd(p) PROVE TypeInv'
  BY <1>2 DEF MonitorEnd, Pending
<1>3. ASSUME AcceptCompleted(p) PROVE TypeInv'
  BY <1>3, KeyTask DEF AcceptCompleted, AttemptsOf, OutboxSettled
<1>4. ASSUME AcceptRejected(p) PROVE TypeInv'
  BY <1>4 DEF AcceptRejected
<1>5. ASSUME AcceptBlocked(p) PROVE TypeInv'
  BY <1>5, KeyTask DEF AcceptBlocked
<1>6. ASSUME Accepted(p) PROVE TypeInv'
  BY <1>6 DEF Accepted, CompleteRunIfReady
<1>7. ASSUME Record(p) PROVE TypeInv'
  BY <1>7 DEF Record, Take
<1>8. ASSUME ReadHandoff(p) PROVE TypeInv'
  BY <1>8 DEF ReadHandoff, Take
<1> QED
  BY <1>1, <1>2, <1>3, <1>4, <1>5, <1>6, <1>7, <1>8 DEF ReadHandoffs

\* ... and an operator's command, a crash, the clock and the host.
LEMMA CommandTypes ==
  ASSUME TypeInv, NEW p \in Procs,
         Command(p) \/ RetryEnd(p) \/ DriveBegin(p) \/ Crash(p)
  PROVE  TypeInv'
<1> USE DEF TypeInv, HasKey, Working, TypeOK, StoredTypes, WorldTypes,
            MemoryTypes, KeySet, Labels, Goto, stored, world, memory, RunStates,
            TaskStates, AttemptStates, OutboxStates, Statuses, ThreadStatuses
<1>1. ASSUME Pause(p) \/ Resume(p) \/ CancelRun(p) PROVE TypeInv'
  BY <1>1 DEF Pause, Resume, CancelRun
<1>2. ASSUME NEW t \in Tasks, CancelTask(p, t) PROVE TypeInv'
  BY <1>2 DEF CancelTask
<1>3. ASSUME NEW t \in Tasks, RetryBegin(p, t) PROVE TypeInv'
  <2>1. attempt' \in [Keys -> AttemptStates]
    BY <1>3 DEF RetryBegin, AttemptsOf
  <2>2. MemoryTypes' /\ HasKey'
    BY <1>3 DEF RetryBegin, Take
  <2> QED
    BY <1>3, <2>1, <2>2 DEF RetryBegin
<1>4. ASSUME NEW k \in Keys, IngestCommand(p, k) PROVE TypeInv'
  BY <1>4, ConstantTypes DEF IngestCommand, Take
<1>5. ASSUME RetryEnd(p) PROVE TypeInv'
  <2>1. taskState' \in [Tasks -> TaskStates]
    BY <1>5, Overwrite DEF RetryEnd
  <2>2. MemoryTypes'
    BY <1>5 DEF RetryEnd, Forget
  <2>3. HasKey'
    BY <1>5 DEF RetryEnd, Forget
  <2> QED
    BY <1>5, <2>1, <2>2, <2>3 DEF RetryEnd
<1>6. ASSUME DriveBegin(p) PROVE TypeInv'
  BY <1>6 DEF DriveBegin
<1>7. ASSUME Crash(p) PROVE TypeInv'
  BY <1>7 DEF Crash, Forget
<1> QED
  BY <1>1, <1>2, <1>3, <1>4, <1>5, <1>6, <1>7 DEF Command

\* The clock, the host and a stutter.
LEMMA OutsideTypes ==
  ASSUME TypeInv,
         \/ \E t \in Tasks : ExpireLease(t)
         \/ \E k \in Keys : Finish(k)
         \/ UNCHANGED vars
  PROVE  TypeInv'
<1> USE DEF TypeInv, HasKey, TypeOK, StoredTypes, WorldTypes, MemoryTypes,
            stored, world, memory
<1>1. ASSUME NEW t \in Tasks, ExpireLease(t) PROVE TypeInv'
  BY <1>1 DEF ExpireLease
<1>2. ASSUME NEW k \in Keys, Finish(k) PROVE TypeInv'
  BY <1>2, ConstantTypes DEF Finish
<1>3. CASE UNCHANGED vars
  BY <1>3 DEF vars
<1> QED
  BY <1>1, <1>2, <1>3

\* The invariant holds initially and no step breaks it.
LEMMA InitTypes == Init => TypeInv
  BY DEF Init, TypeInv, HasKey, Working, TypeOK, StoredTypes, WorldTypes,
         MemoryTypes, KeySet, Labels, RunStates, TaskStates, AttemptStates,
         OutboxStates

LEMMA NextTypes == TypeInv /\ [Next]_vars => TypeInv'
  BY ScheduleTypes, RelayTypes, ReadHandoffsTypes, CommandTypes, OutsideTypes
     DEF Next, Continue

\* Every reachable state is well typed: the raw UPDATE statements, which
\* bypass the transition tables, never write a value the schema forbids.
THEOREM TypeCorrect == Spec => []TypeOK
<1>1. TypeInv => TypeOK
  BY DEF TypeInv
<1> QED
  BY <1>1, InitTypes, NextTypes, PTL DEF Spec

-----------------------------------------------------------------------------
(* Leases.  The invariant is inductive by itself: acquire_lease is the only *)
(* statement that makes a lease active.                                    *)

\* Some process takes a free lease, or no lease is taken.
LeaseStep ==
  \/ lease' \subseteq lease
  \/ \E t \in Tasks : LeaseFree(t) /\ lease' = lease \union {t}

\* Acquire takes a lease that LeaseFree allows.
LEMMA AcquireLease ==
  ASSUME TypeInv, NEW p \in Procs, Acquire(p)
  PROVE  LeaseStep
  BY KeyTask DEF Acquire, LeaseStep, TypeInv, TypeOK, MemoryTypes, KeySet

\* No other handler takes a lease.
LEMMA OtherLease ==
  ASSUME [Next]_vars, \A p \in Procs : ~Acquire(p)
  PROVE  lease' \subseteq lease
<1> USE DEF stored, memory
<1>1. ASSUME NEW p \in Procs, Schedule(p), ~Acquire(p)
      PROVE  lease' \subseteq lease
  BY <1>1 DEF Schedule, Guard, Recover, Snapshot, Allocate, LeaseRefused,
     ResolutionRequired, Persist, PersistAgain, PersistRefused, Collect
<1>2. ASSUME NEW p \in Procs, Relay(p) PROVE lease' \subseteq lease
  BY <1>2 DEF Relay, RouteKnown, RouteFound, RouteMissing, RouteNotEmitted,
     RouteUnavailable, RouteCreate, Emit, Invoke, InvokeBlocked, Ingest,
     Block, TickEnd, SyncEnd, CycleEnd, Repair, IngestReceipt, RecordBlocker
<1>3. ASSUME NEW p \in Procs, ReadHandoffs(p) PROVE lease' \subseteq lease
  BY <1>3 DEF ReadHandoffs, Monitor, ReadHandoff, MonitorEnd, AcceptCompleted,
     AcceptRejected, AcceptBlocked, Accepted, Record
<1>4. ASSUME NEW p \in Procs,
             Command(p) \/ RetryEnd(p) \/ DriveBegin(p) \/ Crash(p)
      PROVE  lease' \subseteq lease
  BY <1>4 DEF Command, Pause, Resume, CancelRun, CancelTask, RetryBegin,
              IngestCommand, RetryEnd, DriveBegin, Crash
<1>5. ASSUME NEW t \in Tasks, ExpireLease(t) PROVE lease' \subseteq lease
  BY <1>5 DEF ExpireLease
<1>6. ASSUME NEW k \in Keys, Finish(k) PROVE lease' \subseteq lease
  BY <1>6 DEF Finish
<1>7. CASE UNCHANGED vars
  BY <1>7 DEF vars
<1> QED
  BY <1>1, <1>2, <1>3, <1>4, <1>5, <1>6, <1>7 DEF Next, Continue

\* However many drivers and commands race, two tasks never hold leases on the
\* same declared path.
THEOREM LeasesNeverOverlap == Spec => []LeasesDisjoint
<1>1. Init => LeasesDisjoint
  BY DEF Init, LeasesDisjoint
<1>2. TypeInv /\ LeasesDisjoint /\ [Next]_vars => LeasesDisjoint'
  <2> SUFFICES ASSUME TypeInv, LeasesDisjoint, [Next]_vars
               PROVE  LeasesDisjoint'
    OBVIOUS
  <2>1. LeaseStep
    BY AcquireLease, OtherLease DEF LeaseStep
  <2> QED
    BY <2>1 DEF LeaseStep, LeaseFree, LeasesDisjoint, SamePath
<1> QED
  BY <1>1, <1>2, InitTypes, NextTypes, PTL DEF Spec

-----------------------------------------------------------------------------
(* The host never has a thread whose intent the store does not know as      *)
(* emitted.  A driver works from queues it read long ago, so the invariant  *)
(* says what the store still has of every key that a process remembers.    *)

HandlesKey == {"emit", "invoke", "ingest", "block"}

\* Attempt and outbox row are written together.
Born == \A k \in Keys : attempt[k] = "none" <=> outbox[k] = "none"

QueueKnown == \A p \in Procs : \A k \in queue[p] : outbox[k] # "none"

CurKnown == \A p \in Procs : pc[p] \in HandlesKey => outbox[cur[p]] # "none"

Marked == \A p \in Procs : pc[p] = "invoke" => outbox[cur[p]] # "pending"

IntentInv == /\ TypeInv /\ Born /\ QueueKnown /\ CurKnown /\ Marked
             /\ IntentBeforeThread

\* What no step may do to a row: lose it or take back that it was emitted.
RowsKept ==
  \A k \in Keys :
    /\ outbox[k] # "none" => outbox'[k] # "none"
    /\ outbox[k] \notin {"none", "pending"} => outbox'[k] # "pending"

\* The transactions that write attempts or the outbox keep every row and keep
\* attempts and rows together.
LEMMA PersistRows ==
  ASSUME IntentInv, NEW p \in Procs, Persist(p)
  PROVE  RowsKept /\ Born'
  BY DEF Persist, IntentInv, Born, RowsKept, TypeInv, TypeOK, StoredTypes,
         HasKey, Working

LEMMA IngestRows ==
  ASSUME IntentInv, NEW k \in Keys, NEW s, NEW m, outbox[k] # "none",
         IngestReceipt(k, s, m)
  PROVE  RowsKept /\ Born'
<1>1. Projected(s, attempt[k]) # "none"
  BY DEF Projected, ThreadStatuses, IntentInv, Born
<1> QED
  BY <1>1 DEF IngestReceipt, IntentInv, Born, RowsKept, TypeInv, TypeOK,
              StoredTypes, stored

LEMMA RepairRows ==
  ASSUME IntentInv, NEW k \in Keys, outbox[k] # "none", Repair(k)
  PROVE  RowsKept /\ Born'
  BY DEF Repair, IntentInv, Born, RowsKept, TypeInv, TypeOK, StoredTypes,
         stored, ThreadStatuses

LEMMA BlockerRows ==
  ASSUME IntentInv, NEW k \in Keys, outbox[k] # "none", RecordBlocker(k)
  PROVE  RowsKept /\ Born'
  BY DEF RecordBlocker, IntentInv, Born, RowsKept, TypeInv, TypeOK,
         StoredTypes, LiveAttempt

\* Relaying an action keeps the rows ...
LEMMA RelayRows ==
  ASSUME IntentInv, NEW p \in Procs, Relay(p)
  PROVE  RowsKept /\ Born'
<1>1. ASSUME RouteKnown(p) PROVE RowsKept /\ Born'
  <2>1. PICK k \in queue[p] : Repair(k)
    BY <1>1 DEF RouteKnown
  <2>2. k \in Keys /\ outbox[k] # "none"
    BY DEF IntentInv, QueueKnown, TypeInv, TypeOK, MemoryTypes, KeySet
  <2> QED
    BY <2>1, <2>2, RepairRows
<1>2. ASSUME Emit(p) PROVE RowsKept /\ Born'
  BY <1>2 DEF Emit, IntentInv, Born, RowsKept, TypeInv, TypeOK, StoredTypes
<1>3. ASSUME Ingest(p) PROVE RowsKept /\ Born'
  <2>1. cur[p] \in Keys /\ outbox[cur[p]] # "none"
    BY <1>3 DEF Ingest, IntentInv, CurKnown, HandlesKey, TypeInv,
                HasKey, Working
  <2> QED
    BY <1>3, <2>1, IngestRows DEF Ingest
<1>4. ASSUME Block(p) PROVE RowsKept /\ Born'
  <2>1. cur[p] \in Keys /\ outbox[cur[p]] # "none"
    BY <1>4 DEF Block, IntentInv, CurKnown, HandlesKey, TypeInv,
                HasKey, Working
  <2> QED
    BY <1>4, <2>1, BlockerRows DEF Block
<1>5. ASSUME UNCHANGED <<attempt, outbox>> PROVE RowsKept /\ Born'
  BY <1>5 DEF IntentInv, Born, RowsKept
<1>6. ASSUME Relay(p), ~RouteKnown(p), ~Emit(p), ~Ingest(p), ~Block(p)
      PROVE  UNCHANGED <<attempt, outbox>>
  BY <1>6 DEF Relay, RouteFound, RouteMissing, RouteNotEmitted,
     RouteUnavailable, RouteCreate, Invoke, InvokeBlocked, TickEnd, SyncEnd,
     CycleEnd, stored
<1> QED
  BY <1>1, <1>2, <1>3, <1>4, <1>5, <1>6

\* ... and so does every step.
LEMMA RowsStep ==
  ASSUME IntentInv, [Next]_vars
  PROVE  RowsKept /\ Born'
<1>1. ASSUME UNCHANGED <<attempt, outbox>> PROVE RowsKept /\ Born'
  BY <1>1 DEF IntentInv, Born, RowsKept
<1>2. ASSUME NEW p \in Procs, Schedule(p) PROVE RowsKept /\ Born'
  <2>1. ASSUME ~Persist(p) PROVE UNCHANGED <<attempt, outbox>>
    BY <1>2, <2>1 DEF Schedule, Guard, Recover, Snapshot, Allocate, Acquire,
       LeaseRefused, ResolutionRequired, PersistAgain, PersistRefused,
       Collect, stored
  <2> QED
    BY <1>1, <2>1, PersistRows
<1>3. ASSUME NEW p \in Procs, ReadHandoffs(p) PROVE RowsKept /\ Born'
  <2>1. ASSUME AcceptCompleted(p) PROVE RowsKept /\ Born'
    BY <2>1 DEF AcceptCompleted, AttemptsOf, OutboxSettled, IntentInv, Born,
                RowsKept
  <2>2. ASSUME ~AcceptCompleted(p) PROVE UNCHANGED <<attempt, outbox>>
    BY <1>3, <2>2 DEF ReadHandoffs, Monitor, ReadHandoff, MonitorEnd,
       AcceptRejected, AcceptBlocked, Accepted, Record, stored
  <2> QED
    BY <1>1, <2>1, <2>2
<1>4. ASSUME NEW p \in Procs, NEW t \in Tasks, RetryBegin(p, t)
      PROVE  RowsKept /\ Born'
  BY <1>4 DEF RetryBegin, AttemptsOf, IntentInv, Born, RowsKept
<1>5. ASSUME NEW p \in Procs,
             \/ Pause(p) \/ Resume(p) \/ CancelRun(p)
             \/ \E t \in Tasks : CancelTask(p, t)
             \/ \E k \in Keys : IngestCommand(p, k)
             \/ RetryEnd(p) \/ DriveBegin(p) \/ Crash(p)
      PROVE  UNCHANGED <<attempt, outbox>>
  BY <1>5 DEF Pause, Resume, CancelRun, CancelTask, IngestCommand, RetryEnd,
              DriveBegin, Crash, stored
<1>6. ASSUME \/ \E t \in Tasks : ExpireLease(t)
             \/ \E k \in Keys : Finish(k)
             \/ UNCHANGED vars
      PROVE  UNCHANGED <<attempt, outbox>>
  BY <1>6 DEF ExpireLease, Finish, vars, stored
<1> QED
  BY <1>1, <1>2, <1>3, <1>4, <1>5, <1>6, RelayRows DEF Next, Continue, Command


\* What the processes remember stays true of the rows, and the host is asked
\* for a thread only where the row is marked.
KnownNext == QueueKnown' /\ CurKnown' /\ Marked' /\ IntentBeforeThread'

\* What was remembered before a step holds of the rows after it.
LEMMA StillKnown ==
  ASSUME IntentInv, RowsKept
  PROVE  /\ \A p \in Procs : \A k \in queue[p] : outbox'[k] # "none"
         /\ \A p \in Procs : pc[p] \in HandlesKey => outbox'[cur[p]] # "none"
         /\ \A p \in Procs : pc[p] = "invoke" => outbox'[cur[p]] # "pending"
         /\ \A k \in Keys : host[k] > 0 => outbox'[k] \notin {"none", "pending"}
<1>1. \A p \in Procs : queue[p] \subseteq Keys
  BY DEF IntentInv, TypeInv, TypeOK, MemoryTypes, KeySet
<1>2. \A p \in Procs : pc[p] \in HandlesKey => cur[p] \in Keys
  BY DEF IntentInv, TypeInv, HasKey, HandlesKey, Working
<1> QED
  BY <1>1, <1>2 DEF IntentInv, RowsKept, QueueKnown, CurKnown, Marked,
                    IntentBeforeThread, HandlesKey

\* Deciding queues only keys whose row was just written or was read.
LEMMA ScheduleKnown ==
  ASSUME IntentInv, RowsKept, NEW p \in Procs, Schedule(p)
  PROVE  KnownNext
<1> USE DEF IntentInv, Born, RowsKept, KnownNext, QueueKnown, CurKnown, Marked,
            IntentBeforeThread, HandlesKey, Goto, world
<1>0. MemoryTypes /\ WorldTypes /\ StoredTypes /\ HasKey
  BY DEF TypeInv, TypeOK
<1> USE DEF MemoryTypes, WorldTypes, KeySet, Labels
<1>1. ASSUME Guard(p) PROVE KnownNext
  BY <1>1, <1>0 DEF Guard, RecoverClaims, stored
<1>2. ASSUME Recover(p) PROVE KnownNext
  BY <1>2, <1>0 DEF Recover, RecoverClaims, stored
<1>3. ASSUME Snapshot(p) PROVE KnownNext
  BY <1>3, <1>0 DEF Snapshot, stored
<1>4. ASSUME Allocate(p) PROVE KnownNext
  BY <1>4, <1>0 DEF Allocate, stored
<1>5. ASSUME Acquire(p) PROVE KnownNext
  BY <1>5, <1>0 DEF Acquire, Take, stored
<1>6. ASSUME LeaseRefused(p) PROVE KnownNext
  BY <1>6, <1>0 DEF LeaseRefused, stored
<1>7. ASSUME ResolutionRequired(p) PROVE KnownNext
  BY <1>7, <1>0 DEF ResolutionRequired, stored
<1>8. ASSUME Persist(p) PROVE KnownNext
  BY <1>8, <1>0 DEF Persist, Take, StoredTypes, HasKey, Working, stored
<1>9. ASSUME PersistAgain(p) PROVE KnownNext
  BY <1>9, <1>0 DEF PersistAgain, Take, HasKey, Working, stored
<1>10. ASSUME PersistRefused(p) PROVE KnownNext
  BY <1>10, <1>0 DEF PersistRefused, Forget, stored
<1>11. ASSUME Collect(p) PROVE KnownNext
  BY <1>11, <1>0 DEF Collect, CompleteRunIfReady, Pending, stored
<1> QED
  BY <1>1, <1>2, <1>3, <1>4, <1>5, <1>6, <1>7, <1>8, <1>9, <1>10, <1>11 DEF
     Schedule

\* Relaying asks the host only after Emit.
LEMMA RelayKnown ==
  ASSUME IntentInv, RowsKept, NEW p \in Procs, Relay(p)
  PROVE  KnownNext
<1> USE DEF IntentInv, Born, RowsKept, KnownNext, QueueKnown, CurKnown, Marked,
            IntentBeforeThread, HandlesKey, Goto, world
<1>0. MemoryTypes /\ WorldTypes /\ StoredTypes /\ HasKey
  BY DEF TypeInv, TypeOK
<1> USE DEF MemoryTypes, WorldTypes, KeySet, Labels
<1>1. ASSUME RouteKnown(p) PROVE KnownNext
  BY <1>1, <1>0, StillKnown DEF RouteKnown
<1>2. ASSUME RouteFound(p) PROVE KnownNext
  BY <1>2, <1>0 DEF RouteFound, Take, stored
<1>3. ASSUME RouteMissing(p) PROVE KnownNext
  BY <1>3, <1>0 DEF RouteMissing, stored
<1>4. ASSUME RouteNotEmitted(p) PROVE KnownNext
  BY <1>4, <1>0 DEF RouteNotEmitted, stored
<1>5. ASSUME RouteUnavailable(p) PROVE KnownNext
  BY <1>5, <1>0 DEF RouteUnavailable, Take, stored
<1>6. ASSUME RouteCreate(p) PROVE KnownNext
  BY <1>6, <1>0 DEF RouteCreate, Take, stored
<1>7. ASSUME Emit(p) PROVE KnownNext
  BY <1>7, <1>0 DEF Emit, HasKey, Working, StoredTypes, stored
<1>8. ASSUME Invoke(p) PROVE KnownNext
  BY <1>8, <1>0 DEF Invoke, HasKey, Working, StoredTypes, stored
<1>9. ASSUME InvokeBlocked(p) PROVE KnownNext
  BY <1>9, <1>0 DEF InvokeBlocked, HasKey, Working, StoredTypes, stored
<1>10. ASSUME Ingest(p) PROVE KnownNext
  <2>1. CASE NextKey(p)
    BY <1>10, <2>1, <1>0, StillKnown DEF Ingest, NextKey
  <2>2. CASE /\ Goto(p, "block")
             /\ UNCHANGED <<stage, batch, queue, cur, reply, memo>>
    <3>1. pc[p] = "ingest" /\ UNCHANGED host
      BY <1>10 DEF Ingest
    <3> QED
      BY <2>2, <3>1, <1>0, StillKnown
  <2> QED
    BY <1>10, <2>1, <2>2 DEF Ingest
<1>11. ASSUME Block(p) PROVE KnownNext
  BY <1>11, <1>0, StillKnown DEF Block, NextKey
<1>12. ASSUME TickEnd(p) PROVE KnownNext
  BY <1>12, <1>0 DEF TickEnd, CompleteRunIfReady, stored
<1>13. ASSUME SyncEnd(p) PROVE KnownNext
  BY <1>13, <1>0 DEF SyncEnd, stored
<1>14. ASSUME CycleEnd(p) PROVE KnownNext
  BY <1>14, <1>0 DEF CycleEnd, Forget, stored
<1> QED
  BY <1>1, <1>2, <1>3, <1>4, <1>5, <1>6, <1>7, <1>8, <1>9, <1>10, <1>11,
     <1>12, <1>13, <1>14 DEF Relay

\* Handoffs are read of attempts, which have rows.
LEMMA ReadHandoffsKnown ==
  ASSUME IntentInv, RowsKept, NEW p \in Procs, ReadHandoffs(p)
  PROVE  KnownNext
<1> USE DEF IntentInv, Born, RowsKept, KnownNext, QueueKnown, CurKnown, Marked,
            IntentBeforeThread, HandlesKey, Goto, world
<1>0. MemoryTypes /\ WorldTypes /\ StoredTypes /\ HasKey
  BY DEF TypeInv, TypeOK
<1> USE DEF MemoryTypes, WorldTypes, KeySet, Labels
<1>1. ASSUME Monitor(p) PROVE KnownNext
  BY <1>1, <1>0 DEF Monitor, Observed, stored
<1>2. ASSUME MonitorEnd(p) PROVE KnownNext
  BY <1>2, <1>0 DEF MonitorEnd, Pending, stored
<1>3. ASSUME AcceptCompleted(p) PROVE KnownNext
  BY <1>3, <1>0, StillKnown DEF AcceptCompleted
<1>4. ASSUME AcceptRejected(p) PROVE KnownNext
  BY <1>4, <1>0 DEF AcceptRejected, stored
<1>5. ASSUME AcceptBlocked(p) PROVE KnownNext
  BY <1>5, <1>0 DEF AcceptBlocked, stored
<1>6. ASSUME Accepted(p) PROVE KnownNext
  BY <1>6, <1>0 DEF Accepted, CompleteRunIfReady, stored
<1>7. ASSUME Record(p) PROVE KnownNext
  BY <1>7, <1>0 DEF Record, Take, stored
<1>8. ASSUME ReadHandoff(p) PROVE KnownNext
  BY <1>8, <1>0 DEF ReadHandoff, Take, stored
<1> QED
  BY <1>1, <1>2, <1>3, <1>4, <1>5, <1>6, <1>7, <1>8 DEF ReadHandoffs

\* Commands remember a key that has an attempt; nothing else is remembered.
LEMMA OutsideKnown ==
  ASSUME IntentInv, RowsKept,
         \/ \E p \in Procs :
              Command(p) \/ RetryEnd(p) \/ DriveBegin(p) \/ Crash(p)
         \/ \E t \in Tasks : ExpireLease(t)
         \/ \E k \in Keys : Finish(k)
         \/ UNCHANGED vars
  PROVE  KnownNext
<1> USE DEF IntentInv, Born, RowsKept, KnownNext, QueueKnown, CurKnown, Marked,
            IntentBeforeThread, HandlesKey, Goto, world
<1>0. MemoryTypes /\ WorldTypes /\ StoredTypes /\ HasKey
  BY DEF TypeInv, TypeOK
<1> USE DEF MemoryTypes, WorldTypes, KeySet, Labels
<1>1. ASSUME NEW p \in Procs, Pause(p) \/ Resume(p) \/ CancelRun(p)
      PROVE  KnownNext
  BY <1>0, <1>1 DEF Pause, Resume, CancelRun, memory
<1>2. ASSUME NEW p \in Procs, NEW t \in Tasks, CancelTask(p, t) PROVE KnownNext
  BY <1>0, <1>2 DEF CancelTask, memory
<1>3. ASSUME NEW p \in Procs, NEW t \in Tasks, RetryBegin(p, t) PROVE KnownNext
  BY <1>0, <1>3 DEF RetryBegin, Take
<1>4. ASSUME NEW p \in Procs, NEW k \in Keys, IngestCommand(p, k)
      PROVE  KnownNext
  BY <1>0, <1>4 DEF IngestCommand, Take, stored
<1>5. ASSUME NEW p \in Procs, RetryEnd(p) PROVE KnownNext
  BY <1>0, <1>5 DEF RetryEnd, Forget
<1>6. ASSUME NEW p \in Procs, DriveBegin(p) PROVE KnownNext
  BY <1>0, <1>6 DEF DriveBegin, stored
<1>7. ASSUME NEW p \in Procs, Crash(p) PROVE KnownNext
  BY <1>0, <1>7 DEF Crash, Forget, stored
<1>8. ASSUME NEW t \in Tasks, ExpireLease(t) PROVE KnownNext
  BY <1>0, <1>8 DEF ExpireLease, memory
<1>9. ASSUME NEW k \in Keys, Finish(k) PROVE KnownNext
  BY <1>0, <1>9 DEF Finish, memory, stored
<1>10. ASSUME UNCHANGED vars PROVE KnownNext
  BY <1>0, <1>10 DEF vars, memory, stored
<1> QED
  BY <1>1, <1>2, <1>3, <1>4, <1>5, <1>6, <1>7, <1>8, <1>9, <1>10 DEF Command

\* The invariant holds initially and no step breaks it.
LEMMA InitIntent == Init => IntentInv
<1>1. Init => Born /\ QueueKnown /\ CurKnown /\ Marked /\ IntentBeforeThread
  BY DEF Init, Born, QueueKnown, CurKnown, Marked, IntentBeforeThread,
         HandlesKey
<1> QED
  BY <1>1, InitTypes DEF IntentInv

LEMMA NextIntent == IntentInv /\ [Next]_vars => IntentInv'
<1> SUFFICES ASSUME IntentInv, [Next]_vars
             PROVE  IntentInv'
  OBVIOUS
<1>1. TypeInv'
  BY NextTypes DEF IntentInv
<1>2. RowsKept /\ Born'
  BY RowsStep
<1>3. KnownNext
  BY <1>2, ScheduleKnown, RelayKnown, ReadHandoffsKnown, OutsideKnown
     DEF Next, Continue
<1> QED
  BY <1>1, <1>2, <1>3 DEF IntentInv, KnownNext

\* However many drivers and commands share the store, and wherever they crash,
\* every thread of the host has an intent marked as emitted: a restart finds it
\* and reconciles it instead of creating a second one.
THEOREM IntentPrecedesThread == Spec => []IntentBeforeThread
<1>1. IntentInv => IntentBeforeThread
  BY DEF IntentInv
<1> QED
  BY <1>1, InitIntent, NextIntent, PTL DEF Spec

=============================================================================
