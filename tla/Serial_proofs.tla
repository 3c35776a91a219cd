--------------------------- MODULE Serial_proofs ---------------------------
(***************************************************************************)
(* What holds of Dispatch when one process at a time works on the          *)
(* database, as the documented use of the command line has it: a task has  *)
(* one host thread, and every step is a step of an intent of module        *)
(* Intents, or none.                                                       *)
(***************************************************************************)
EXTENDS Dispatch_proofs

\* A task has one next key.
LEMMA NextUnique ==
  ASSUME NEW k \in Keys, NEW j \in Keys, k[1] = j[1], IsNext(k), IsNext(j)
  PROVE  k = j
<1>1. ASSUME NEW x \in Keys, NEW y \in Keys, x[1] = y[1], IsNext(x), IsNext(y)
      PROVE  ~(x[2] < y[2])
  <2> SUFFICES ASSUME x[2] < y[2] PROVE FALSE
    OBVIOUS
  <2>1. x[2] \in 1 .. MaxAttempts /\ y[2] \in 1 .. MaxAttempts /\ x[1] \in Tasks
    BY DEF Keys
  <2> DEFINE z == <<y[1], y[2] - 1>>
  <2>2. y[2] - 1 \in 1 .. MaxAttempts /\ y[2] > 1 /\ ~(y[2] - 1 < x[2])
    BY <2>1, ConstantTypes
  <2>3. z \in KeysOf(x[1])
    BY <1>1, <2>1, <2>2 DEF KeysOf, Keys
  <2>4. attempt[z] # "none"
    BY <1>1, <2>2 DEF IsNext
  <2> QED
    BY <1>1, <2>2, <2>3, <2>4 DEF IsNext
<1>2. k[2] = j[2]
  <2>1. k[2] \in Nat /\ j[2] \in Nat
    BY ConstantTypes DEF Keys
  <2> QED
    BY <1>1, <2>1
<1> QED
  BY <1>2 DEF Keys

\* It stays the next key while no attempt is written.
LEMMA NextStable ==
  ASSUME NEW k \in Keys, attempt' = attempt, IsNext(k)
  PROVE  IsNext(k)'
  BY DEF IsNext, KeysOf

\* A next key has no attempt.
LEMMA NextUnborn ==
  ASSUME NEW k \in Keys, IsNext(k)
  PROVE  attempt[k] = "none"
<1>1. k \in KeysOf(k[1]) /\ ~(k[2] < k[2])
  BY ConstantTypes DEF KeysOf, Keys
<1> QED
  BY <1>1 DEF IsNext

-----------------------------------------------------------------------------
(* While a process decides, its batch holds the next keys of their tasks;   *)
(* while it relays, its queue holds rows that nobody has dealt with; and it *)
(* asks the host only for threads that do not exist yet.                   *)

Deciding == {"allocate", "acquire", "persist"}
Relaying == {"acquire", "persist", "route", "emit", "invoke", "ingest", "block"}
Holding  == Relaying \union {"handoffs", "accept", "accepted", "record"}

Undecided(p) == IF pc[p] \in Deciding
                THEN \A k \in batch[p] : IsNext(k) ELSE batch[p] = {}

Persisting(p) == pc[p] = "persist" => IsNext(cur[p]) /\ cur[p] \notin batch[p]

QueueOpen(p) ==
  /\ pc[p] \notin Holding => queue[p] = {}
  /\ pc[p] \in Relaying =>
       \A k \in queue[p] : k = cur[p] \/ outbox[k] \in {"pending", "emitted"}

Unengaged(p) == pc[p] \notin Working \union {"retry"} => cur[p] = NoKey

Unasked(p) == /\ pc[p] = "emit" => outbox[cur[p]] = "pending"
              /\ pc[p] = "invoke" => host[cur[p]] = 0

Serial(p) == /\ Undecided(p) /\ Persisting(p) /\ QueueOpen(p)
             /\ Unengaged(p) /\ Unasked(p)

SerialInv == /\ IntentInv /\ \A p \in Procs : Serial(p)
             /\ OneThreadPerIntent

\* Deciding: a batch of next keys, of which one is persisted after the other.
LEMMA ScheduleSerial ==
  ASSUME SerialInv, NEW p \in Procs, Schedule(p)
  PROVE  Serial(p)'
<1> USE DEF Serial, Undecided, Persisting, QueueOpen, Unengaged, Unasked,
            Deciding, Relaying, Holding, Working, Goto, Labels
<1>0. /\ MemoryTypes /\ StoredTypes /\ HasKey /\ IntentBeforeThread
      /\ WorldTypes /\ NoKey \notin Keys /\ Serial(p)
  BY ConstantTypes DEF SerialInv, IntentInv, TypeInv, TypeOK, Keys
<1> USE DEF MemoryTypes, KeySet
<1>1. ASSUME Guard(p) PROVE Serial(p)'
  BY <1>1, <1>0 DEF Guard, stored, world
<1>2. ASSUME Recover(p) PROVE Serial(p)'
  BY <1>2, <1>0 DEF Recover, stored, world
<1>3. ASSUME Snapshot(p) PROVE Serial(p)'
  <2>1. attempt' = attempt /\ \A k \in batch'[p] : k \in Keys /\ IsNext(k)
    BY <1>3, <1>0 DEF Snapshot, stored
  <2>2. \A k \in batch'[p] : IsNext(k)'
    BY <2>1, NextStable
  <2> QED
    BY <1>3, <1>0, <2>2 DEF Snapshot, stored, world
<1>4. ASSUME Allocate(p) PROVE Serial(p)'
  <2>1. attempt' = attempt /\ batch'[p] \subseteq batch[p] /\ pc[p] \in Deciding
    BY <1>4, <1>0 DEF Allocate
  <2>2. \A k \in batch'[p] : IsNext(k)'
    BY <1>0, <2>1, NextStable
  <2> QED
    BY <1>4, <1>0, <2>2 DEF Allocate, stored, world
<1>5. ASSUME Acquire(p) PROVE Serial(p)'
  <2>1. PICK k \in batch[p], j \in Keys :
             /\ Numbered(k, j) /\ Take(p, j)
             /\ batch' = [batch EXCEPT ![p] = @ \ {k}]
    BY <1>5 DEF Acquire
  <2>2. k \in Keys /\ IsNext(k) /\ attempt' = attempt
    BY <1>5, <1>0 DEF Acquire
  <2>3. j = k
    BY <2>1, <2>2, NextUnique DEF Numbered
  <2>4. \A i \in batch[p] : IsNext(i)'
    BY <1>5, <1>0, <2>2, NextStable DEF Acquire
  <2>5. cur'[p] = k /\ batch'[p] = batch[p] \ {k} /\ IsNext(k)'
    BY <1>0, <2>1, <2>2, <2>3, NextStable DEF Take
  <2> QED
    BY <1>5, <1>0, <2>4, <2>5 DEF Acquire, stored, world
<1>6. ASSUME LeaseRefused(p) PROVE Serial(p)'
  <2>1. attempt' = attempt /\ batch'[p] \subseteq batch[p] /\ pc[p] \in Deciding
    BY <1>6, <1>0 DEF LeaseRefused
  <2>2. \A k \in batch'[p] : IsNext(k)'
    BY <1>0, <2>1, NextStable
  <2> QED
    BY <1>6, <1>0, <2>2 DEF LeaseRefused, stored, world
<1>7. ASSUME ResolutionRequired(p) PROVE Serial(p)'
  BY <1>7, <1>0 DEF ResolutionRequired, stored, world
<1>8. ASSUME Persist(p) PROVE Serial(p)'
  <2>1. cur[p] \in Keys /\ IsNext(cur[p]) /\ cur[p] \notin batch[p]
    BY <1>8, <1>0 DEF Persist, HasKey
  <2>2. \A k \in batch[p] : k \in Keys /\ IsNext(k) /\ k[1] # cur[p][1]
    BY <1>8, <1>0, <2>1, NextUnique DEF Persist
  <2>3. attempt' = [attempt EXCEPT ![cur[p]] = "dispatched"] /\ batch' = batch
    BY <1>8 DEF Persist
  <2>4. \A k \in batch'[p] : IsNext(k)'
    <3> SUFFICES ASSUME NEW k \in batch[p] PROVE IsNext(k)'
      BY <2>3
    <3>1. \A j \in Keys : j[1] = k[1] => attempt'[j] = attempt[j]
      BY <1>0, <2>2, <2>3 DEF StoredTypes
    <3>2. k[2] > 1 => <<k[1], k[2] - 1>> \in Keys
      BY <2>2, ConstantTypes DEF Keys
    <3> QED
      BY <2>2, <3>1, <3>2 DEF IsNext, KeysOf
  <2>5. \A k \in queue'[p] : outbox'[k] \in {"pending", "emitted"}
    BY <1>8, <1>0, <2>1 DEF Persist, StoredTypes
  <2> QED
    BY <1>8, <1>0, <2>4, <2>5 DEF Persist, Take
<1>9. ASSUME PersistAgain(p) PROVE Serial(p)'
  <2>1. attempt[cur[p]] = "none"
    BY <1>9, <1>0, NextUnborn DEF PersistAgain, HasKey
  <2> QED
    BY <1>9, <2>1 DEF PersistAgain
<1>10. ASSUME PersistRefused(p) PROVE Serial(p)'
  BY <1>10, <1>0 DEF PersistRefused, Forget, stored, world
<1>11. ASSUME Collect(p) PROVE Serial(p)'
  BY <1>11, <1>0 DEF Collect, Pending, stored, world
<1> QED
  BY <1>1, <1>2, <1>3, <1>4, <1>5, <1>6, <1>7, <1>8, <1>9, <1>10, <1>11 DEF
     Schedule

\* Relaying: only the row of the current key changes, then the key is dropped.
LEMMA RelaySerial ==
  ASSUME SerialInv, NEW p \in Procs, Relay(p)
  PROVE  Serial(p)'
<1> USE DEF Serial, Undecided, Persisting, QueueOpen, Unengaged, Unasked,
            Deciding, Relaying, Holding, Working, Goto, Labels
<1>0. /\ MemoryTypes /\ StoredTypes /\ HasKey /\ IntentBeforeThread
      /\ WorldTypes /\ NoKey \notin Keys /\ Serial(p)
  BY ConstantTypes DEF SerialInv, IntentInv, TypeInv, TypeOK, Keys
<1> USE DEF MemoryTypes, KeySet
<1>1. ASSUME RouteKnown(p) PROVE Serial(p)'
  <2>1. PICK k \in queue[p] :
             Repair(k) /\ queue' = [queue EXCEPT ![p] = @ \ {k}]
    BY <1>1 DEF RouteKnown
  <2>2. \A j \in Keys : j # k => outbox'[j] = outbox[j]
    BY <1>0, <2>1 DEF Repair, stored, StoredTypes
  <2>3. \A j \in queue'[p] : outbox'[j] \in {"pending", "emitted"}
    BY <1>1, <1>0, <2>1, <2>2 DEF RouteKnown
  <2> QED
    BY <1>1, <1>0, <2>3 DEF RouteKnown
<1>2. ASSUME RouteFound(p) PROVE Serial(p)'
  BY <1>2, <1>0 DEF RouteFound, Take, stored, world
<1>3. ASSUME RouteMissing(p) PROVE Serial(p)'
  BY <1>3, <1>0 DEF RouteMissing, stored, world
<1>4. ASSUME RouteNotEmitted(p) PROVE Serial(p)'
  BY <1>4, <1>0 DEF RouteNotEmitted, stored, world
<1>5. ASSUME RouteUnavailable(p) PROVE Serial(p)'
  BY <1>5, <1>0 DEF RouteUnavailable, Take, stored, world
<1>6. ASSUME RouteCreate(p) PROVE Serial(p)'
  BY <1>6, <1>0 DEF RouteCreate, Take, stored, world
<1>7. ASSUME Emit(p) PROVE Serial(p)'
  <2>1. \A j \in Keys : j # cur[p] => outbox'[j] = outbox[j]
    BY <1>7, <1>0 DEF Emit, StoredTypes
  <2>2. host[cur[p]] = 0
    BY <1>7, <1>0 DEF Emit, HasKey, IntentBeforeThread, WorldTypes
  <2> QED
    BY <1>7, <1>0, <2>1, <2>2 DEF Emit, world
<1>8. ASSUME Invoke(p) PROVE Serial(p)'
  BY <1>8, <1>0 DEF Invoke, stored, world
<1>9. ASSUME InvokeBlocked(p) PROVE Serial(p)'
  BY <1>9, <1>0 DEF InvokeBlocked, stored, world
<1>10. ASSUME Ingest(p) PROVE Serial(p)'
  <2>1. \A j \in Keys : j # cur[p] => outbox'[j] = outbox[j]
    BY <1>10, <1>0 DEF Ingest, IngestReceipt, StoredTypes, stored
  <2>2. \A j \in queue[p] : j # cur[p] => outbox'[j] \in {"pending", "emitted"}
    BY <1>10, <1>0, <2>1 DEF Ingest
  <2>3. CASE NextKey(p)
    BY <1>10, <1>0, <2>2, <2>3 DEF Ingest, NextKey
  <2>4. CASE /\ Goto(p, "block")
             /\ UNCHANGED <<stage, batch, queue, cur, reply, memo>>
    <3>1. pc[p] = "ingest" /\ pc'[p] = "block"
      BY <1>10, <1>0, <2>4 DEF Ingest
    <3> QED
      BY <1>0, <2>2, <2>4, <3>1
  <2> QED
    BY <1>10, <2>3, <2>4 DEF Ingest
<1>11. ASSUME Block(p) PROVE Serial(p)'
  <2>1. \A j \in Keys : j # cur[p] => outbox'[j] = outbox[j]
    BY <1>11, <1>0 DEF Block, RecordBlocker, StoredTypes
  <2>2. \A j \in queue[p] : j # cur[p] => outbox'[j] \in {"pending", "emitted"}
    BY <1>11, <1>0, <2>1 DEF Block
  <2> QED
    BY <1>11, <1>0, <2>2 DEF Block, NextKey
<1>12. ASSUME TickEnd(p) PROVE Serial(p)'
  BY <1>12, <1>0 DEF TickEnd, stored, world
<1>13. ASSUME SyncEnd(p) PROVE Serial(p)'
  BY <1>13, <1>0 DEF SyncEnd, stored, world
<1>14. ASSUME CycleEnd(p) PROVE Serial(p)'
  BY <1>14, <1>0 DEF CycleEnd, Forget, stored, world
<1> QED
  BY <1>1, <1>2, <1>3, <1>4, <1>5, <1>6, <1>7, <1>8, <1>9, <1>10, <1>11,
     <1>12, <1>13, <1>14 DEF Relay

\* Reading handoffs replaces the queue.
LEMMA ReadHandoffsSerial ==
  ASSUME SerialInv, NEW p \in Procs, ReadHandoffs(p)
  PROVE  Serial(p)'
<1> USE DEF Serial, Undecided, Persisting, QueueOpen, Unengaged, Unasked,
            Deciding, Relaying, Holding, Working, Goto, Labels
<1>0. /\ MemoryTypes /\ StoredTypes /\ HasKey /\ IntentBeforeThread
      /\ WorldTypes /\ NoKey \notin Keys /\ Serial(p)
  BY ConstantTypes DEF SerialInv, IntentInv, TypeInv, TypeOK, Keys
<1> USE DEF MemoryTypes, KeySet
<1>1. ASSUME Monitor(p) PROVE Serial(p)'
  BY <1>1, <1>0 DEF Monitor, stored, world
<1>2. ASSUME ReadHandoff(p) PROVE Serial(p)'
  BY <1>2, <1>0 DEF ReadHandoff, Take, stored, world
<1>3. ASSUME MonitorEnd(p) PROVE Serial(p)'
  BY <1>3, <1>0 DEF MonitorEnd, Pending, stored, world
<1>4. ASSUME AcceptCompleted(p) PROVE Serial(p)'
  BY <1>4, <1>0 DEF AcceptCompleted, stored, world
<1>5. ASSUME AcceptRejected(p) PROVE Serial(p)'
  BY <1>5, <1>0 DEF AcceptRejected, stored, world
<1>6. ASSUME AcceptBlocked(p) PROVE Serial(p)'
  BY <1>6, <1>0 DEF AcceptBlocked, stored, world
<1>7. ASSUME Accepted(p) PROVE Serial(p)'
  BY <1>7, <1>0 DEF Accepted, stored, world
<1>8. ASSUME Record(p) PROVE Serial(p)'
  BY <1>8, <1>0 DEF Record, Take, stored, world
<1> QED
  BY <1>1, <1>2, <1>3, <1>4, <1>5, <1>6, <1>7, <1>8 DEF ReadHandoffs

\* A command starts with an empty queue, and so does a cycle after a crash.
LEMMA CommandSerial ==
  ASSUME SerialInv, NEW p \in Procs,
         Command(p) \/ RetryEnd(p) \/ DriveBegin(p) \/ Crash(p)
  PROVE  Serial(p)'
<1> USE DEF Serial, Undecided, Persisting, QueueOpen, Unengaged, Unasked,
            Deciding, Relaying, Holding, Working, Goto, Labels
<1>0. /\ MemoryTypes /\ StoredTypes /\ HasKey /\ IntentBeforeThread
      /\ WorldTypes /\ NoKey \notin Keys /\ Serial(p)
  BY ConstantTypes DEF SerialInv, IntentInv, TypeInv, TypeOK, Keys
<1> USE DEF MemoryTypes, KeySet
<1>1. ASSUME Pause(p) \/ Resume(p) \/ CancelRun(p) PROVE Serial(p)'
  BY <1>0, <1>1 DEF Pause, Resume, CancelRun, Issue, memory, world
<1>2. ASSUME NEW t \in Tasks, CancelTask(p, t) PROVE Serial(p)'
  BY <1>0, <1>2 DEF CancelTask, Issue, memory, world
<1>3. ASSUME NEW t \in Tasks, RetryBegin(p, t) PROVE Serial(p)'
  BY <1>0, <1>3 DEF RetryBegin, Issue, Take
<1>4. ASSUME NEW k \in Keys, IngestCommand(p, k) PROVE Serial(p)'
  BY <1>0, <1>4 DEF IngestCommand, Issue, Take
<1>5. ASSUME RetryEnd(p) PROVE Serial(p)'
  BY <1>0, <1>5 DEF RetryEnd, Forget
<1>6. ASSUME DriveBegin(p) PROVE Serial(p)'
  BY <1>0, <1>6 DEF DriveBegin
<1>7. ASSUME Crash(p) PROVE Serial(p)'
  BY <1>0, <1>7 DEF Crash, Forget
<1> QED
  BY <1>1, <1>2, <1>3, <1>4, <1>5, <1>6, <1>7 DEF Command

\* The clock, the host and a stutter.
LEMMA OutsideSerial ==
  ASSUME SerialInv, NEW p \in Procs,
         \/ \E t \in Tasks : ExpireLease(t)
         \/ \E k \in Keys : Finish(k)
         \/ UNCHANGED vars
  PROVE  Serial(p)'
<1>1. UNCHANGED <<pc, batch, queue, cur, attempt, outbox, host>>
  BY DEF ExpireLease, Finish, vars, stored, world, memory
<1>2. Serial(p) /\ batch[p] \subseteq Keys
  BY DEF SerialInv, IntentInv, TypeInv, TypeOK, MemoryTypes, KeySet
<1>3. \A k \in Keys : IsNext(k) => IsNext(k)'
  BY <1>1, NextStable
<1>4. pc[p] = "persist" => cur[p] \in Keys
  BY DEF SerialInv, IntentInv, TypeInv, HasKey, Working
<1> QED
  BY <1>1, <1>2, <1>3, <1>4 DEF Serial, Undecided, Persisting, QueueOpen,
                                Unengaged, Unasked

\* Only a process that is about to create a thread creates one.
LEMMA ThreadStep ==
  ASSUME SerialInv, [Next]_vars
  PROVE  OneThreadPerIntent'
<1> USE DEF SerialInv, IntentInv, TypeInv, TypeOK, WorldTypes,
            OneThreadPerIntent
<1>1. ASSUME UNCHANGED host PROVE OneThreadPerIntent'
  BY <1>1
<1>2. ASSUME NEW p \in Procs, Invoke(p) \/ InvokeBlocked(p)
      PROVE  OneThreadPerIntent'
  BY <1>2 DEF Invoke, InvokeBlocked, Serial, Unasked
<1>3. ASSUME NEW p \in Procs, Schedule(p) \/ ReadHandoffs(p)
      PROVE  UNCHANGED host
  BY <1>3 DEF Schedule, ReadHandoffs, Guard, Recover, Snapshot, Allocate,
     Acquire, LeaseRefused, ResolutionRequired, Persist, PersistAgain,
     PersistRefused, Collect, Monitor, ReadHandoff, MonitorEnd,
     AcceptCompleted, AcceptRejected, AcceptBlocked, Accepted, Record, world
<1>4. ASSUME NEW p \in Procs, Relay(p), ~Invoke(p), ~InvokeBlocked(p)
      PROVE  UNCHANGED host
  BY <1>4 DEF Relay, RouteKnown, RouteFound, RouteMissing, RouteNotEmitted,
     RouteUnavailable, RouteCreate, Emit, Ingest, Block, TickEnd, SyncEnd,
     CycleEnd, world
<1>5. ASSUME NEW p \in Procs,
             Command(p) \/ RetryEnd(p) \/ DriveBegin(p) \/ Crash(p)
      PROVE  UNCHANGED host
  BY <1>5 DEF Command, Pause, Resume, CancelRun, CancelTask, RetryBegin,
              IngestCommand, RetryEnd, DriveBegin, Crash, world
<1>6. ASSUME \/ \E t \in Tasks : ExpireLease(t)
             \/ \E k \in Keys : Finish(k)
             \/ UNCHANGED vars
      PROVE  UNCHANGED host
  BY <1>6 DEF ExpireLease, Finish, vars, world
<1> QED
  BY <1>1, <1>2, <1>3, <1>4, <1>5, <1>6 DEF Next, Continue

\* One process at a time keeps the whole invariant.
LEMMA NextSerial ==
  ASSUME \A p, q \in Procs : p = q, SerialInv, [Next]_vars
  PROVE  SerialInv'
<1>1. IntentInv'
  BY NextIntent DEF SerialInv
<1>2. OneThreadPerIntent'
  BY ThreadStep
<1>3. ASSUME NEW p \in Procs PROVE Serial(p)'
  <2>1. CASE \E q \in Procs :
               DriveBegin(q) \/ Continue(q) \/ Command(q) \/ Crash(q)
    <3>1. DriveBegin(p) \/ Continue(p) \/ Command(p) \/ Crash(p)
      BY <2>1
    <3> QED
      BY <3>1, ScheduleSerial, RelaySerial, ReadHandoffsSerial, CommandSerial
         DEF Continue
  <2> QED
    BY <2>1, OutsideSerial DEF Next
<1> QED
  BY <1>1, <1>2, <1>3 DEF SerialInv

\* One process at a time never makes the host create two threads for one
\* intent, whatever crashed, was retried or was answered late.
THEOREM OneThread ==
  ASSUME \A p, q \in Procs : p = q
  PROVE  Spec => []OneThreadPerIntent
<1>1. Init => (\A p \in Procs : Serial(p)) /\ OneThreadPerIntent
  BY DEF Init, Serial, Undecided, Persisting, QueueOpen, Unengaged, Unasked,
         Deciding, Relaying, Holding, Working, OneThreadPerIntent
<1>2. Init => SerialInv
  BY <1>1, InitIntent DEF SerialInv
<1>3. SerialInv /\ [Next]_vars => SerialInv'
  BY NextSerial
<1>4. SerialInv => OneThreadPerIntent
  BY DEF SerialInv
<1> QED
  BY <1>2, <1>3, <1>4, PTL DEF Spec

-----------------------------------------------------------------------------
(* The promise of module Intents *)

Open == {"none", "pending", "emitted"}

\* What the process knows when it calls the host and when it has its answer.
Sent(p) == /\ pc[p] = "invoke" => outbox[cur[p]] = "emitted"
           /\ pc[p] = "ingest" => host[cur[p]] = 1 /\ reply[p] \in Statuses

\* An answer is stored together with the acknowledgement of its row.
AnsweredSettled == \A k \in Keys : receipt[k] # "none" => outbox[k] \notin Open

KeptInv == SerialInv /\ AnsweredSettled /\ \A p \in Procs : Sent(p)

-----------------------------------------------------------------------------
(* The five things that happen to rows *)

Still == UNCHANGED <<outbox, receipt, host>>

Written(k) == /\ outbox[k] = "none"
              /\ outbox' = [outbox EXCEPT ![k] = "pending"]
              /\ UNCHANGED <<receipt, host>>

Emitted(k) == /\ outbox[k] = "pending"
              /\ outbox' = [outbox EXCEPT ![k] = "emitted"]
              /\ UNCHANGED <<receipt, host>>

Performed(k) == /\ outbox[k] = "emitted" /\ host[k] = 0
                /\ host' = [host EXCEPT ![k] = 1]
                /\ UNCHANGED <<outbox, receipt>>

Answered(k) == /\ host[k] = 1 /\ outbox[k] # "none"
               /\ \E s \in Statuses : receipt' = [receipt EXCEPT ![k] = s]
               /\ \E o \in OutboxStates \ Open : outbox' = [outbox EXCEPT ![k] = o]
               /\ UNCHANGED host

GivenUp(S) == /\ \A k \in S : outbox[k] # "none" /\ outbox'[k] \notin Open
              /\ \A k \in Keys \ S : outbox'[k] = outbox[k]
              /\ outbox' \in [Keys -> OutboxStates]
              /\ UNCHANGED <<receipt, host>>

RowStep == \/ Still
           \/ \E k \in Keys : \/ Written(k) \/ Emitted(k) \/ Performed(k)
                              \/ Answered(k)
           \/ \E S \in SUBSET Keys : GivenUp(S)

\* Handling a thread's receipt either stores it and acknowledges the row, or
\* leaves both.
LEMMA IngestRow ==
  ASSUME KeptInv, NEW k \in Keys, NEW s \in Statuses, NEW m,
         outbox[k] # "none", host[k] = 1, UNCHANGED host, IngestReceipt(k, s, m)
  PROVE  Still \/ Answered(k)
<1>1. CASE Progress(k, s, m)
  <2>1. /\ receipt' = [receipt EXCEPT ![k] = s]
        /\ outbox' = [outbox EXCEPT ![k] =
             IF outbox[k] \in {"pending", "emitted"} THEN "acknowledged" ELSE outbox[k]]
    BY <1>1 DEF IngestReceipt, stored
  <2>2. outbox[k] \in OutboxStates
    BY DEF KeptInv, SerialInv, IntentInv, TypeInv, TypeOK, StoredTypes
  <2>3. \E o \in OutboxStates \ Open : outbox' = [outbox EXCEPT ![k] = o]
    BY <2>1, <2>2 DEF OutboxStates, Open
  <2> QED
    BY <2>1, <2>3 DEF Answered
<1>2. CASE ~Progress(k, s, m)
  BY <1>2 DEF IngestReceipt, stored, Still
<1> QED
  BY <1>1, <1>2

LEMMA RelayRow ==
  ASSUME KeptInv, NEW p \in Procs, Relay(p)
  PROVE  RowStep
<1>0. /\ StoredTypes /\ MemoryTypes /\ WorldTypes /\ HasKey /\ CurKnown
      /\ QueueKnown /\ Serial(p) /\ Sent(p) /\ AnsweredSettled
  BY DEF KeptInv, SerialInv, IntentInv, TypeInv, TypeOK
<1>1. ASSUME RouteKnown(p) PROVE Still
  <2>1. PICK k \in queue[p] : receipt[k] # "none" /\ Repair(k) /\ UNCHANGED world
    BY <1>1 DEF RouteKnown
  <2>2. k \in Keys /\ outbox[k] \notin Open
    BY <1>0, <2>1 DEF MemoryTypes, KeySet, AnsweredSettled
  <2>3. outbox' = outbox /\ receipt' = receipt
    BY <1>0, <2>1, <2>2 DEF Repair, stored, Open, StoredTypes
  <2> QED
    BY <2>1, <2>3 DEF Still, world
<1>2. ASSUME Emit(p) PROVE Emitted(cur[p])
  BY <1>0, <1>2 DEF Emit, Serial, Unasked, Emitted, world
<1>3. ASSUME Invoke(p) \/ InvokeBlocked(p)
      PROVE  Performed(cur[p]) \/ Still
  <2>1. outbox[cur[p]] = "emitted" /\ host[cur[p]] = 0 /\ cur[p] \in Keys
    BY <1>0, <1>3 DEF Invoke, InvokeBlocked, Sent, Serial, Unasked, HasKey,
                      Working
  <2> QED
    BY <1>0, <1>3, <2>1 DEF Invoke, InvokeBlocked, Performed, Still, stored,
                            WorldTypes
<1>4. ASSUME Ingest(p) PROVE Still \/ Answered(cur[p])
  <2>1. /\ cur[p] \in Keys /\ outbox[cur[p]] # "none" /\ host[cur[p]] = 1
        /\ reply[p] \in Statuses
    BY <1>0, <1>4 DEF Ingest, Sent, CurKnown, HandlesKey, HasKey, Working
  <2>2. UNCHANGED host
    BY <1>4 DEF Ingest, world
  <2>3. PICK m \in Telemetry : IngestReceipt(cur[p], reply[p], m)
    BY <1>4 DEF Ingest
  <2> QED
    BY <2>1, <2>2, <2>3, IngestRow
<1>5. ASSUME Block(p) PROVE GivenUp({cur[p]})
  BY <1>0, <1>5 DEF Block, RecordBlocker, GivenUp, Open, CurKnown, HandlesKey,
                    HasKey, Working, StoredTypes, OutboxStates, world
<1>6. ASSUME Relay(p), ~RouteKnown(p), ~Emit(p), ~Invoke(p),
             ~InvokeBlocked(p), ~Ingest(p), ~Block(p)
      PROVE  Still
  BY <1>6 DEF Relay, RouteFound, RouteMissing, RouteNotEmitted,
     RouteUnavailable, RouteCreate, TickEnd, SyncEnd, CycleEnd, stored, world,
     Still
<1>7. pc[p] \in {"emit", "invoke", "ingest", "block"} => cur[p] \in Keys
  BY <1>0 DEF HasKey, Working
<1> QED
  BY <1>1, <1>2, <1>3, <1>4, <1>5, <1>6, <1>7 DEF RowStep, Emit, Invoke,
     InvokeBlocked, Ingest, Block

LEMMA EveryRow ==
  ASSUME KeptInv, [Next]_vars
  PROVE  RowStep
<1>0. StoredTypes /\ Born /\ HasKey /\ \A p \in Procs : Serial(p)
  BY DEF KeptInv, SerialInv, IntentInv, TypeInv, TypeOK
<1>1. ASSUME NEW p \in Procs, Schedule(p) PROVE RowStep
  <2>1. ASSUME Persist(p) PROVE cur[p] \in Keys /\ Written(cur[p])
    BY <1>0, <2>1 DEF Persist, Born, HasKey, Working, Written, world
  <2>2. ASSUME ~Persist(p) PROVE Still
    BY <1>1, <2>2 DEF Schedule, Guard, Recover, Snapshot, Allocate, Acquire,
       LeaseRefused, ResolutionRequired, PersistAgain, PersistRefused,
       Collect, stored, world, Still
  <2> QED
    BY <2>1, <2>2 DEF RowStep
<1>2. ASSUME NEW p \in Procs, ReadHandoffs(p) PROVE RowStep
  <2>1. ASSUME AcceptCompleted(p)
        PROVE  GivenUp({k \in Keys : /\ k[1] = cur[p][1]
                                     /\ outbox[k] \in {"pending", "emitted", "acknowledged"}})
    BY <1>0, <2>1 DEF AcceptCompleted, OutboxSettled, GivenUp, Open, world,
                      StoredTypes, OutboxStates
  <2>2. ASSUME ~AcceptCompleted(p) PROVE Still
    BY <1>2, <2>2 DEF ReadHandoffs, Monitor, ReadHandoff, MonitorEnd,
       AcceptRejected, AcceptBlocked, Accepted, Record, stored, world, Still
  <2> QED
    BY <2>1, <2>2 DEF RowStep
<1>3. ASSUME NEW p \in Procs,
             Command(p) \/ RetryEnd(p) \/ DriveBegin(p) \/ Crash(p)
      PROVE  Still
  BY <1>3 DEF Command, Pause, Resume, CancelRun, CancelTask, RetryBegin,
     IngestCommand, RetryEnd, DriveBegin, Crash, stored, world, Still
<1>4. ASSUME \/ \E t \in Tasks : ExpireLease(t)
             \/ \E k \in Keys : Finish(k)
             \/ UNCHANGED vars
      PROVE  Still
  BY <1>4 DEF ExpireLease, Finish, vars, stored, world, Still
<1> QED
  BY <1>1, <1>2, <1>3, <1>4, RelayRow DEF Next, Continue, RowStep

\* A row step is a step of the promise ...
LEMMA RowPromise ==
  ASSUME KeptInv, RowStep
  PROVE  [Promise!Next]_Promise!vars
<1> DEFINE intent == [k \in Keys |-> IntentOf(k)]
           answered == {k \in Keys : receipt[k] # "none"}
<1>0. StoredTypes /\ WorldTypes
  BY DEF KeptInv, SerialInv, IntentInv, TypeInv, TypeOK
<1>1. CASE Still
  <2>1. intent' = intent /\ answered' = answered /\ host' = host
    BY <1>1 DEF Still, IntentOf
  <2> QED
    BY <2>1 DEF Promise!vars
<1>2. ASSUME NEW k \in Keys, Written(k) PROVE Promise!Write(k)
  <2>1. intent[k] = "none" /\ answered' = answered /\ host' = host
    BY <1>2 DEF Written, IntentOf
  <2>2. intent' = [intent EXCEPT ![k] = "written"]
    BY <1>0, <1>2 DEF Written, IntentOf, StoredTypes
  <2> QED
    BY <2>1, <2>2 DEF Promise!Write
<1>3. ASSUME NEW k \in Keys, Emitted(k) PROVE Promise!Send(k)
  <2>1. intent[k] = "written" /\ answered' = answered /\ host' = host
    BY <1>3 DEF Emitted, IntentOf
  <2>2. intent' = [intent EXCEPT ![k] = "sent"]
    BY <1>0, <1>3 DEF Emitted, IntentOf, StoredTypes
  <2> QED
    BY <2>1, <2>2 DEF Promise!Send
<1>4. ASSUME NEW k \in Keys, Performed(k) PROVE Promise!Perform(k)
  <2>1. intent[k] = "sent" /\ answered' = answered /\ intent' = intent
    BY <1>4 DEF Performed, IntentOf
  <2> QED
    BY <1>4, <2>1 DEF Performed, Promise!Perform
<1>5. ASSUME NEW k \in Keys, Answered(k) PROVE Promise!Answer(k)
  <2>1. PICK s \in Statuses : receipt' = [receipt EXCEPT ![k] = s]
    BY <1>5 DEF Answered
  <2>2. PICK o \in OutboxStates \ Open : outbox' = [outbox EXCEPT ![k] = o]
    BY <1>5 DEF Answered
  <2>3. answered' = answered \union {k}
    BY <1>0, <2>1 DEF StoredTypes, Statuses, ThreadStatuses
  <2>4. intent' = [intent EXCEPT ![k] = "settled"]
    BY <1>0, <2>2 DEF StoredTypes, IntentOf, Open
  <2> QED
    BY <1>5, <2>3, <2>4 DEF Answered, Promise!Answer
<1>6. ASSUME NEW S \in SUBSET Keys, GivenUp(S) PROVE Promise!Settle(S)
  <2>1. \A k \in S : intent[k] # "none"
    BY <1>6 DEF GivenUp, IntentOf
  <2>2. intent' = [k \in Keys |-> IF k \in S THEN "settled" ELSE intent[k]]
    BY <1>6 DEF GivenUp, IntentOf, Open
  <2>3. answered' = answered /\ host' = host
    BY <1>6 DEF GivenUp
  <2> QED
    BY <2>1, <2>2, <2>3 DEF Promise!Settle
<1> QED
  BY <1>1, <1>2, <1>3, <1>4, <1>5, <1>6 DEF RowStep, Promise!Next

\* ... and keeps answers and settled rows together.
LEMMA AnswersKept ==
  ASSUME KeptInv, RowStep
  PROVE  AnsweredSettled'
<1>0. StoredTypes /\ AnsweredSettled
  BY DEF KeptInv, SerialInv, IntentInv, TypeInv, TypeOK
<1> QED
  BY <1>0 DEF RowStep, Still, Written, Emitted, Performed, Answered, GivenUp,
              AnsweredSettled, StoredTypes, Open

-----------------------------------------------------------------------------
(* What a process knows *)

LEMMA SentKept ==
  ASSUME KeptInv, NEW p \in Procs, [Next]_vars,
         \A q \in Procs : q = p
  PROVE  Sent(p)'
<1>0. /\ StoredTypes /\ MemoryTypes /\ WorldTypes /\ HasKey /\ Serial(p)
      /\ Sent(p) /\ OneThreadPerIntent
  BY DEF KeptInv, SerialInv, IntentInv, TypeInv, TypeOK
<1> USE DEF Sent, Goto, MemoryTypes
<1>1. ASSUME Relay(p) PROVE Sent(p)'
  <2>1. ASSUME Emit(p) PROVE Sent(p)'
    BY <1>0, <2>1 DEF Emit, StoredTypes, HasKey, Working, Serial, Unasked
  <2>2. ASSUME Invoke(p) PROVE Sent(p)'
    BY <1>0, <2>2 DEF Invoke, WorldTypes, HasKey, Working, Serial, Unasked
  <2>3. ASSUME RouteFound(p) PROVE Sent(p)'
    <3>1. PICK k \in queue[p], s \in HostStatuses :
            host[k] > 0 /\ Take(p, k) /\ reply' = [reply EXCEPT ![p] = s]
      BY <2>3 DEF RouteFound
    <3>2. k \in Keys /\ host[k] = 1 /\ s \in Statuses
      BY <1>0, <3>1, ConstantTypes DEF KeySet, OneThreadPerIntent, WorldTypes
    <3> QED
      BY <1>0, <2>3, <3>1, <3>2 DEF RouteFound, Take, world
  <2>4. ASSUME \/ RouteKnown(p) \/ RouteMissing(p) \/ RouteNotEmitted(p)
               \/ RouteUnavailable(p) \/ RouteCreate(p) \/ InvokeBlocked(p)
               \/ Ingest(p) \/ Block(p) \/ TickEnd(p) \/ SyncEnd(p)
               \/ CycleEnd(p)
        PROVE  pc'[p] \notin {"invoke", "ingest"}
    BY <1>0, <2>4 DEF RouteKnown, RouteMissing, RouteNotEmitted,
       RouteUnavailable, RouteCreate, InvokeBlocked, Ingest, Block, TickEnd,
       SyncEnd, CycleEnd, NextKey, Forget
  <2> QED
    BY <1>1, <2>1, <2>2, <2>3, <2>4 DEF Relay
<1>2. ASSUME NEW k \in Keys, IngestCommand(p, k) PROVE Sent(p)'
  BY <1>0, <1>2, ConstantTypes DEF IngestCommand, Take, OneThreadPerIntent,
     WorldTypes, world, Issue
<1>3. ASSUME Schedule(p) PROVE pc'[p] \notin {"invoke", "ingest"}
  BY <1>0, <1>3 DEF Schedule, Guard, Recover, Snapshot, Allocate, Acquire,
     LeaseRefused, ResolutionRequired, Persist, PersistAgain, PersistRefused,
     Collect, Forget
<1>4. ASSUME ReadHandoffs(p) PROVE pc'[p] \notin {"invoke", "ingest"}
  BY <1>0, <1>4 DEF ReadHandoffs, Monitor, ReadHandoff, MonitorEnd,
     AcceptCompleted, AcceptRejected, AcceptBlocked, Accepted, Record
<1>5. ASSUME \/ Pause(p) \/ Resume(p) \/ CancelRun(p)
             \/ \E t \in Tasks : CancelTask(p, t) \/ RetryBegin(p, t)
             \/ RetryEnd(p) \/ DriveBegin(p) \/ Crash(p)
      PROVE  pc'[p] \notin {"invoke", "ingest"}
  BY <1>0, <1>5 DEF Pause, Resume, CancelRun, CancelTask, RetryBegin, RetryEnd,
     DriveBegin, Crash, Forget, Issue, memory
<1>6. ASSUME \/ \E t \in Tasks : ExpireLease(t)
             \/ \E k \in Keys : Finish(k)
             \/ UNCHANGED vars
      PROVE  Sent(p)'
  BY <1>0, <1>6 DEF ExpireLease, Finish, vars, stored, world, memory
<1> QED
  BY <1>1, <1>2, <1>3, <1>4, <1>5, <1>6 DEF Next, Continue, Command

\* The invariant holds initially and no step breaks it.
LEMMA InitKept == Init => KeptInv
<1>1. ASSUME Init PROVE \A p \in Procs : Serial(p)
  BY <1>1 DEF Init, Serial, Undecided, Persisting, QueueOpen, Unengaged,
              Unasked, Deciding, Relaying, Holding, Working
<1>2. ASSUME Init
      PROVE  OneThreadPerIntent /\ AnsweredSettled /\ \A p \in Procs : Sent(p)
  BY <1>2 DEF Init, OneThreadPerIntent, AnsweredSettled, Sent
<1> QED
  BY <1>1, <1>2, InitIntent DEF KeptInv, SerialInv

LEMMA NextKept ==
  ASSUME \A p, q \in Procs : p = q, KeptInv, [Next]_vars
  PROVE  KeptInv'
<1>1. SerialInv'
  BY NextSerial DEF KeptInv
<1>2. AnsweredSettled'
  BY EveryRow, AnswersKept
<1>3. \A p \in Procs : Sent(p)'
  BY SentKept
<1> QED
  BY <1>1, <1>2, <1>3 DEF KeptInv

\* With one process at a time the outbox keeps the promise of Intents: an
\* intent is performed at most once, only while its row is marked as emitted,
\* and never after its answer, a blocker or a completion settled it.
THEOREM PromiseKept ==
  ASSUME \A p, q \in Procs : p = q
  PROVE  Spec => IntentsKept
<1>1. KeptInv /\ [Next]_vars => KeptInv'
  BY NextKept
<1>2. Init => Promise!Init
  BY DEF Init, Promise!Init, IntentOf
<1>3. KeptInv /\ [Next]_vars => [Promise!Next]_Promise!vars
  BY EveryRow, RowPromise
<1> QED
  BY InitKept, <1>1, <1>2, <1>3, PTL DEF Spec, IntentsKept, Promise!Spec
=============================================================================
