---------------------------- MODULE Settled_proofs ----------------------------
(***************************************************************************)
(* What one process at a time never takes back: a finished task stays      *)
(* finished and leaves no intent behind, an attempt only exists where the  *)
(* dependencies are met, and, while nothing is retried and no operator     *)
(* feeds in receipts, the claims stay within the budget and a completed    *)
(* run has nothing left to do.                                             *)
(***************************************************************************)
EXTENDS Serial_proofs, FiniteSetTheorems

OpenRow == {"pending", "emitted"}

-----------------------------------------------------------------------------
(* What a step does to task states and rows *)

\* A finished task keeps its state, and what was exported stays exported.
StatesKept ==
  /\ \A t \in Tasks : taskState[t] \in Terminal => taskState'[t] = taskState[t]
  /\ exported \subseteq exported'

\* retry acts on the task as it read it.
RetryRead(p) ==
  pc[p] = "retry" => /\ cur[p][1] \in Tasks
                     /\ memo[p] = taskState[cur[p][1]]

\* ingest_receipt and the repair of a projection only touch tasks at work.
LEMMA ReceiptStates ==
  ASSUME StoredTypes, NEW k \in Keys, NEW s, NEW m,
         IngestReceipt(k, s, m) \/ Repair(k) \/ RecordBlocker(k)
  PROVE  /\ StatesKept
         /\ \A t \in Tasks : taskState'[t] = "completed" =>
              taskState[t] = "completed"
  BY KeyTask DEF IngestReceipt, Repair, RecordBlocker, StatesKept, StoredTypes,
     stored, Terminal, Executing

\* Every step keeps the finished tasks; only accept_handoff completes one.
LEMMA StatesStep ==
  ASSUME TypeInv, \A p \in Procs : RetryRead(p), [Next]_vars
  PROVE  /\ StatesKept
         /\ \/ \E p \in Procs : AcceptCompleted(p)
            \/ \A t \in Tasks : taskState'[t] = "completed" =>
                 taskState[t] = "completed"
<1> DEFINE Uncompleted == \A t \in Tasks : taskState'[t] = "completed" =>
                            taskState[t] = "completed"
<1>0. StoredTypes /\ MemoryTypes /\ HasKey
  BY DEF TypeInv, TypeOK
<1>1. ASSUME UNCHANGED <<taskState, exported>> PROVE StatesKept /\ Uncompleted
  BY <1>1 DEF StatesKept
<1>2. ASSUME NEW p \in Procs, Schedule(p) PROVE StatesKept /\ Uncompleted
  <2>1. ASSUME Persist(p) PROVE StatesKept /\ Uncompleted
    BY <1>0, <2>1 DEF Persist, StatesKept, Terminal, StoredTypes
  <2>2. ASSUME ~Persist(p) PROVE UNCHANGED <<taskState, exported>>
    BY <1>2, <2>2 DEF Schedule, Guard, Recover, Snapshot, Allocate, Acquire,
       LeaseRefused, ResolutionRequired, PersistAgain, PersistRefused,
       Collect, stored
  <2> QED
    BY <1>1, <2>1, <2>2
<1>3. ASSUME NEW p \in Procs, Relay(p) PROVE StatesKept /\ Uncompleted
  <2>1. ASSUME RouteKnown(p) PROVE StatesKept /\ Uncompleted
    <3>1. PICK k \in queue[p] : Repair(k)
      BY <2>1 DEF RouteKnown
    <3>2. k \in Keys
      BY <1>0 DEF MemoryTypes, KeySet
    <3> QED
      BY <1>0, <3>1, <3>2, ReceiptStates
  <2>2. ASSUME Ingest(p) PROVE StatesKept /\ Uncompleted
    <3>1. PICK m \in Telemetry : IngestReceipt(cur[p], reply[p], m)
      BY <2>2 DEF Ingest
    <3>2. cur[p] \in Keys
      BY <1>0, <2>2 DEF Ingest, HasKey, Working
    <3> QED
      BY <1>0, <3>1, <3>2, ReceiptStates
  <2>3. ASSUME Block(p) PROVE StatesKept /\ Uncompleted
    <3>1. cur[p] \in Keys /\ RecordBlocker(cur[p])
      BY <1>0, <2>3 DEF Block, HasKey, Working
    <3> QED
      BY <1>0, <3>1, ReceiptStates
  <2>4. ASSUME ~RouteKnown(p), ~Ingest(p), ~Block(p)
        PROVE  UNCHANGED <<taskState, exported>>
    BY <1>3, <2>4 DEF Relay, RouteFound, RouteMissing, RouteNotEmitted,
       RouteUnavailable, RouteCreate, Emit, Invoke, InvokeBlocked, TickEnd,
       SyncEnd, CycleEnd, stored
  <2> QED
    BY <1>1, <2>1, <2>2, <2>3, <2>4
<1>4. ASSUME NEW p \in Procs, ReadHandoffs(p), ~AcceptCompleted(p)
      PROVE  StatesKept /\ Uncompleted
  <2>1. ASSUME AcceptBlocked(p) PROVE StatesKept /\ Uncompleted
    BY <1>0, <2>1 DEF AcceptBlocked, StatesKept, Terminal, StoredTypes
  <2>2. ASSUME ~AcceptBlocked(p) PROVE UNCHANGED <<taskState, exported>>
    BY <1>4, <2>2 DEF ReadHandoffs, Monitor, ReadHandoff, MonitorEnd,
       AcceptRejected, Accepted, Record, stored
  <2> QED
    BY <1>1, <2>1, <2>2
<1>5. ASSUME NEW p \in Procs, AcceptCompleted(p) PROVE StatesKept
  BY <1>0, <1>5 DEF AcceptCompleted, StatesKept, Terminal, StoredTypes
<1>6. ASSUME NEW p \in Procs, RetryEnd(p) PROVE StatesKept /\ Uncompleted
  BY <1>0, <1>6 DEF RetryEnd, RetryRead, StatesKept, Terminal, StoredTypes
<1>7. ASSUME NEW p \in Procs, NEW t \in Tasks, CancelTask(p, t)
      PROVE  StatesKept /\ Uncompleted
  BY <1>0, <1>7 DEF CancelTask, StatesKept, Terminal, StoredTypes
<1>8. ASSUME \/ \E p \in Procs :
                  \/ Pause(p) \/ Resume(p) \/ CancelRun(p) \/ DriveBegin(p)
                  \/ Crash(p) \/ \E t \in Tasks : RetryBegin(p, t)
                  \/ \E k \in Keys : IngestCommand(p, k)
             \/ \E t \in Tasks : ExpireLease(t)
             \/ \E k \in Keys : Finish(k)
             \/ UNCHANGED vars
      PROVE  UNCHANGED <<taskState, exported>>
  BY <1>8 DEF Pause, Resume, CancelRun, DriveBegin, Crash, RetryBegin,
     IngestCommand, ExpireLease, Finish, vars, stored
<1> QED
  BY <1>1, <1>2, <1>3, <1>4, <1>5, <1>6, <1>7, <1>8 DEF Next, Continue, Command

\* Only persist_dispatch_intent opens a row or starts an attempt.
LEMMA OpenedByPersist ==
  ASSUME IntentInv, [Next]_vars, NEW k \in Keys,
         \/ outbox'[k] \in OpenRow /\ outbox[k] \notin OpenRow
         \/ attempt'[k] # "none" /\ attempt[k] = "none"
  PROVE  \E p \in Procs : Persist(p) /\ cur[p] = k
<1> DEFINE Unopened == /\ outbox'[k] \in OpenRow => outbox[k] \in OpenRow
                       /\ attempt'[k] # "none" => attempt[k] # "none"
<1>0. /\ StoredTypes /\ MemoryTypes /\ HasKey /\ Born
      /\ QueueKnown /\ CurKnown
  BY DEF IntentInv, TypeInv, TypeOK
<1>1. ASSUME UNCHANGED <<attempt, outbox>> PROVE Unopened
  BY <1>1
<1>2. ASSUME NEW p \in Procs, Schedule(p), Unopened \/ ~Persist(p)
      PROVE  Unopened
  BY <1>1, <1>2 DEF Schedule, Guard, Recover, Snapshot, Allocate, Acquire,
     LeaseRefused, ResolutionRequired, PersistAgain, PersistRefused,
     Collect, stored
<1>3. ASSUME NEW p \in Procs, Persist(p), cur[p] # k PROVE Unopened
  BY <1>0, <1>3 DEF Persist, StoredTypes
<1>4. ASSUME NEW p \in Procs, Relay(p) PROVE Unopened
  <2>1. ASSUME RouteKnown(p) PROVE Unopened
    <3>1. PICK j \in queue[p] : Repair(j)
      BY <2>1 DEF RouteKnown
    <3>2. attempt[j] # "none" /\ j \in Keys
      BY <1>0 DEF MemoryTypes, KeySet, QueueKnown, Born
    <3> QED
      BY <1>0, <3>1, <3>2 DEF Repair, StoredTypes, stored, OpenRow
  <2>2. ASSUME Ingest(p) PROVE Unopened
    <3>1. PICK m \in Telemetry : IngestReceipt(cur[p], reply[p], m)
      BY <2>2 DEF Ingest
    <3>2. attempt[cur[p]] # "none" /\ cur[p] \in Keys
      BY <1>0, <2>2 DEF Ingest, HasKey, Working, CurKnown, HandlesKey, Born
    <3> QED
      BY <1>0, <3>1, <3>2 DEF IngestReceipt, StoredTypes, stored, OpenRow
  <2>3. ASSUME Block(p) PROVE Unopened
    BY <1>0, <2>3 DEF Block, RecordBlocker, StoredTypes, OpenRow, LiveAttempt
  <2>4. ASSUME Emit(p) PROVE Unopened
    BY <1>0, <2>4 DEF Emit, StoredTypes, OpenRow
  <2>5. ASSUME ~RouteKnown(p), ~Ingest(p), ~Block(p), ~Emit(p)
        PROVE  UNCHANGED <<attempt, outbox>>
    BY <1>4, <2>5 DEF Relay, RouteFound, RouteMissing, RouteNotEmitted,
       RouteUnavailable, RouteCreate, Invoke, InvokeBlocked, TickEnd,
       SyncEnd, CycleEnd, stored
  <2> QED
    BY <1>1, <2>1, <2>2, <2>3, <2>4, <2>5
<1>5. ASSUME NEW p \in Procs, ReadHandoffs(p) PROVE Unopened
  <2>1. ASSUME AcceptCompleted(p) PROVE Unopened
    BY <1>0, <2>1 DEF AcceptCompleted, AttemptsOf, OutboxSettled, OpenRow
  <2>2. ASSUME ~AcceptCompleted(p) PROVE UNCHANGED <<attempt, outbox>>
    BY <1>5, <2>2 DEF ReadHandoffs, Monitor, ReadHandoff, MonitorEnd,
       AcceptRejected, AcceptBlocked, Accepted, Record, stored
  <2> QED
    BY <1>1, <2>1, <2>2
<1>6. ASSUME NEW p \in Procs, NEW t \in Tasks, RetryBegin(p, t) PROVE Unopened
  BY <1>6 DEF RetryBegin, AttemptsOf
<1>7. ASSUME \/ \E p \in Procs :
                  \/ Pause(p) \/ Resume(p) \/ CancelRun(p) \/ DriveBegin(p)
                  \/ Crash(p) \/ RetryEnd(p)
                  \/ \E t \in Tasks : CancelTask(p, t)
                  \/ \E j \in Keys : IngestCommand(p, j)
             \/ \E t \in Tasks : ExpireLease(t)
             \/ \E j \in Keys : Finish(j)
             \/ UNCHANGED vars
      PROVE  UNCHANGED <<attempt, outbox>>
  BY <1>7 DEF Pause, Resume, CancelRun, DriveBegin, Crash, RetryEnd,
     CancelTask, IngestCommand, ExpireLease, Finish, vars, stored
<1>8. ~Unopened
  OBVIOUS
<1> QED
  BY <1>1, <1>2, <1>3, <1>4, <1>5, <1>6, <1>7, <1>8 DEF Next, Continue, Command

-----------------------------------------------------------------------------
(* What the scheduler chose.  Between its snapshot and the last intent it   *)
(* persists, one process at a time only works off what it chose.           *)

\* The tasks a process has chosen and not started yet.
Picked(p) == {k[1] : k \in batch[p]}
             \union IF pc[p] = "persist" THEN {cur[p][1]} ELSE {}

\* Choosing is the only step that adds to them, and it takes ready tasks.
LEMMA PickedStep ==
  ASSUME SerialInv, [Next]_vars, NEW p \in Procs, \A q \in Procs : q = p
  PROVE  \/ Picked(p)' \subseteq Picked(p)
         \/ /\ Picked(p)' \subseteq ReadyTasks
            /\ UNCHANGED <<taskState, exported, claims, attempt, outbox>>
<1>0. MemoryTypes /\ HasKey /\ Serial(p)
  BY DEF SerialInv, IntentInv, TypeInv, TypeOK
<1> USE DEF Picked, Goto
<1>1. ASSUME UNCHANGED <<batch, cur, pc>> PROVE Picked(p)' = Picked(p)
  BY <1>1
<1>2. ASSUME batch'[p] \subseteq batch[p], pc'[p] # "persist"
      PROVE  Picked(p)' \subseteq Picked(p)
  BY <1>2
<1>3. ASSUME Snapshot(p)
      PROVE  /\ Picked(p)' \subseteq ReadyTasks
             /\ UNCHANGED <<taskState, exported, claims, attempt, outbox>>
  <2>1. \A k \in batch'[p] : k[1] \in ReadyTasks
    BY <1>0, <1>3 DEF Snapshot, Kept, MemoryTypes
  <2>2. pc'[p] # "persist"
    BY <1>0, <1>3 DEF Snapshot, MemoryTypes
  <2> QED
    BY <1>3, <2>1, <2>2 DEF Snapshot, stored
<1>4. ASSUME Acquire(p) PROVE Picked(p)' \subseteq Picked(p)
  <2>1. PICK k \in batch[p], j \in Keys :
             /\ Numbered(k, j) /\ Take(p, j)
             /\ batch' = [batch EXCEPT ![p] = @ \ {k}]
    BY <1>4 DEF Acquire
  <2>2. cur'[p][1] = k[1] /\ batch'[p] \subseteq batch[p]
    BY <1>0, <2>1 DEF Take, Numbered, MemoryTypes
  <2> QED
    BY <2>2
<1>5. ASSUME Schedule(p), ~Snapshot(p), ~Acquire(p)
      PROVE  batch'[p] \subseteq batch[p] /\ pc'[p] # "persist"
  BY <1>0, <1>5 DEF Schedule, Guard, Recover, Allocate, LeaseRefused,
     ResolutionRequired, Persist, PersistAgain, PersistRefused, Collect,
     Forget, MemoryTypes
<1>6. ASSUME Relay(p) PROVE batch'[p] \subseteq batch[p] /\ pc'[p] # "persist"
  BY <1>0, <1>6 DEF Relay, RouteKnown, RouteFound, RouteMissing,
     RouteNotEmitted, RouteUnavailable, RouteCreate, Emit, Invoke,
     InvokeBlocked, Ingest, Block, TickEnd, SyncEnd, CycleEnd, NextKey,
     Forget, MemoryTypes
<1>7. ASSUME ReadHandoffs(p)
      PROVE  batch'[p] \subseteq batch[p] /\ pc'[p] # "persist"
  BY <1>0, <1>7 DEF ReadHandoffs, Monitor, ReadHandoff, MonitorEnd,
     AcceptCompleted, AcceptRejected, AcceptBlocked, Accepted, Record,
     MemoryTypes
<1>8. ASSUME \/ RetryEnd(p) \/ DriveBegin(p) \/ Crash(p)
             \/ \E t \in Tasks : RetryBegin(p, t)
             \/ \E k \in Keys : IngestCommand(p, k)
      PROVE  batch'[p] \subseteq batch[p] /\ pc'[p] # "persist"
  BY <1>0, <1>8 DEF RetryEnd, DriveBegin, Crash, RetryBegin, IngestCommand,
     Forget, MemoryTypes
<1>9. ASSUME \/ Pause(p) \/ Resume(p) \/ CancelRun(p)
             \/ \E t \in Tasks : CancelTask(p, t) \/ ExpireLease(t)
             \/ \E k \in Keys : Finish(k)
             \/ UNCHANGED vars
      PROVE  UNCHANGED <<batch, cur, pc>>
  BY <1>9 DEF Pause, Resume, CancelRun, CancelTask, ExpireLease, Finish, vars,
     memory
<1> QED
  BY <1>1, <1>2, <1>3, <1>4, <1>5, <1>6, <1>7, <1>8, <1>9
     DEF Next, Continue, Command

-----------------------------------------------------------------------------
(* Finished tasks and dependencies *)

\* What DependencyReady still means after the states went on.
DepsMet(t) ==
  \A d \in Deps[t] : /\ d[2] = "completed" => taskState[d[1]] = "completed"
                     /\ d[2] = "exports"   => d[1] \in exported

\* What the scheduler chose may start, and is not finished.
PickedReady(p) ==
  \A t \in Picked(p) : t \in Tasks /\ DepsMet(t) /\ taskState[t] # "completed"

FinalInv == /\ SerialInv
            /\ \A p \in Procs : RetryRead(p) /\ PickedReady(p)
            /\ StartedAfterDependencies
            /\ CompletedIsSettled

\* A dependency that is met stays met: finished tasks and exports stay.
LEMMA DepsStable ==
  ASSUME StatesKept, NEW t \in Tasks, DepsMet(t)
  PROVE  DepsMet(t)'
<1>1. \A d \in Deps[t] : d[1] \in Tasks
  BY ConstantTypes
<1> QED
  BY <1>1 DEF StatesKept, DepsMet, Terminal

LEMMA ReadyMet ==
  ASSUME NEW t \in ReadyTasks
  PROVE  t \in Tasks /\ DepsMet(t) /\ taskState[t] # "completed"
  BY DEF ReadyTasks, DependencyReady, DepsMet

\* Nobody else writes task states while a retry is under way.
LEMMA RetryReadStep ==
  ASSUME TypeInv, [Next]_vars, NEW p \in Procs, \A q \in Procs : q = p,
         RetryRead(p)
  PROVE  RetryRead(p)'
<1>0. MemoryTypes
  BY DEF TypeInv, TypeOK
<1> USE DEF RetryRead, Goto
<1>1. ASSUME NEW t \in Tasks, RetryBegin(p, t) PROVE RetryRead(p)'
  BY <1>0, <1>1 DEF RetryBegin, Take, MemoryTypes
<1>2. ASSUME \/ Schedule(p) \/ Relay(p)
      PROVE  pc'[p] # "retry"
  BY <1>0, <1>2 DEF Schedule, Guard, Recover, Snapshot, Allocate, Acquire,
     LeaseRefused, ResolutionRequired, Persist, PersistAgain, PersistRefused,
     Collect, Relay, RouteKnown, RouteFound, RouteMissing, RouteNotEmitted,
     RouteUnavailable, RouteCreate, Emit, Invoke, InvokeBlocked, Ingest,
     Block, TickEnd, SyncEnd, CycleEnd, NextKey, Forget, MemoryTypes
<1>3. ASSUME \/ ReadHandoffs(p) \/ RetryEnd(p) \/ DriveBegin(p) \/ Crash(p)
             \/ \E k \in Keys : IngestCommand(p, k)
      PROVE  pc'[p] # "retry"
  BY <1>0, <1>3 DEF ReadHandoffs, Monitor, ReadHandoff, MonitorEnd,
     AcceptCompleted, AcceptRejected, AcceptBlocked, Accepted, Record,
     RetryEnd, DriveBegin, Crash, IngestCommand, Forget, MemoryTypes
<1>4. ASSUME \/ Pause(p) \/ Resume(p) \/ CancelRun(p)
             \/ \E t \in Tasks : CancelTask(p, t)
      PROVE  pc'[p] # "retry"
  BY <1>0, <1>4 DEF Pause, Resume, CancelRun, CancelTask, Issue, memory
<1>5. ASSUME \/ \E t \in Tasks : ExpireLease(t)
             \/ \E k \in Keys : Finish(k)
             \/ UNCHANGED vars
      PROVE  UNCHANGED <<pc, cur, memo, taskState>>
  BY <1>5 DEF ExpireLease, Finish, vars, memory, stored
<1>6. UNCHANGED <<pc, cur, memo, taskState>> => RetryRead(p)'
  OBVIOUS
<1> QED
  BY <1>1, <1>2, <1>3, <1>4, <1>5, <1>6 DEF Next, Continue, Command

LEMMA PickedReadyStep ==
  ASSUME FinalInv, [Next]_vars, NEW p \in Procs, \A q \in Procs : q = p
  PROVE  PickedReady(p)'
<1>1. StatesKept /\ (\/ AcceptCompleted(p)
                   \/ \A t \in Tasks : taskState'[t] = "completed" =>
                        taskState[t] = "completed")
  BY StatesStep DEF FinalInv, SerialInv, IntentInv
<1>2. CASE Picked(p)' \subseteq Picked(p) /\ ~AcceptCompleted(p)
  BY <1>1, <1>2, DepsStable DEF FinalInv, PickedReady
<1>3. CASE AcceptCompleted(p)
  <2>1. batch[p] = {} /\ batch' = batch
    BY <1>3 DEF AcceptCompleted, FinalInv, SerialInv, Serial, Undecided,
                Deciding
  <2>2. pc'[p] # "persist"
    BY <1>3 DEF AcceptCompleted, Goto, FinalInv, SerialInv, IntentInv, TypeInv,
                TypeOK, MemoryTypes
  <2> QED
    BY <2>1, <2>2 DEF PickedReady, Picked
<1>4. CASE /\ Picked(p)' \subseteq ReadyTasks
           /\ UNCHANGED <<taskState, exported, claims, attempt, outbox>>
  BY <1>1, <1>4, ReadyMet, DepsStable DEF PickedReady
<1> QED
  BY <1>2, <1>3, <1>4, PickedStep DEF FinalInv

\* An attempt begins with the dependencies met, and they stay met.
LEMMA StartedStep ==
  ASSUME FinalInv, [Next]_vars
  PROVE  StartedAfterDependencies'
<1> SUFFICES ASSUME NEW k \in Keys, attempt'[k] # "none"
             PROVE  DepsMet(k[1])'
  BY DEF StartedAfterDependencies, DepsMet
<1>1. StatesKept /\ k[1] \in Tasks
  BY StatesStep, KeyTask DEF FinalInv, SerialInv, IntentInv
<1>2. DepsMet(k[1])
  <2>1. CASE attempt[k] # "none"
    BY <2>1 DEF FinalInv, StartedAfterDependencies, DepsMet
  <2>2. CASE attempt[k] = "none"
    <3>1. PICK p \in Procs : Persist(p) /\ cur[p] = k
      BY <2>2, OpenedByPersist DEF FinalInv, SerialInv
    <3> QED
      BY <3>1 DEF Persist, FinalInv, PickedReady, Picked
  <2> QED
    BY <2>1, <2>2
<1> QED
  BY <1>1, <1>2, DepsStable

\* Completing a task settles its rows; no row of a completed task opens.
LEMMA SettledStep ==
  ASSUME FinalInv, [Next]_vars
  PROVE  CompletedIsSettled'
<1> SUFFICES ASSUME NEW k \in Keys, taskState'[k[1]] = "completed",
                    outbox'[k] \in OpenRow
             PROVE  FALSE
  BY DEF CompletedIsSettled, OpenRow
<1>0. StoredTypes /\ k[1] \in Tasks
  BY KeyTask DEF FinalInv, SerialInv, IntentInv, TypeInv, TypeOK
<1>1. CASE taskState[k[1]] = "completed"
  <2>1. outbox[k] \notin OpenRow
    BY <1>1 DEF FinalInv, CompletedIsSettled, OpenRow
  <2>2. PICK p \in Procs : Persist(p) /\ cur[p] = k
    BY <2>1, OpenedByPersist DEF FinalInv, SerialInv
  <2> QED
    BY <1>1, <2>2 DEF Persist, FinalInv, PickedReady, Picked
<1>2. CASE taskState[k[1]] # "completed"
  <2>1. PICK p \in Procs : AcceptCompleted(p)
    BY <1>0, <1>2, StatesStep DEF FinalInv, SerialInv, IntentInv
  <2>2. k[1] = cur[p][1]
    BY <1>0, <1>2, <2>1 DEF AcceptCompleted, StoredTypes
  <2> QED
    BY <2>1, <2>2 DEF AcceptCompleted, OutboxSettled, OpenRow
<1> QED
  BY <1>1, <1>2

LEMMA InitFinal == Init => FinalInv
<1>1. ASSUME Init
      PROVE  /\ StartedAfterDependencies /\ CompletedIsSettled
             /\ \A p \in Procs : RetryRead(p) /\ PickedReady(p)
  BY <1>1, KeyTask DEF Init, StartedAfterDependencies, CompletedIsSettled,
     RetryRead, PickedReady, Picked
<1> QED
  BY <1>1, InitKept DEF FinalInv, KeptInv

LEMMA NextFinal ==
  ASSUME \A p, q \in Procs : p = q, FinalInv, [Next]_vars
  PROVE  FinalInv'
<1>1. SerialInv'
  BY NextSerial DEF FinalInv
<1>2. ASSUME NEW p \in Procs PROVE RetryRead(p)'
  BY RetryReadStep DEF FinalInv, SerialInv, IntentInv
<1>3. ASSUME NEW p \in Procs PROVE PickedReady(p)'
  BY PickedReadyStep
<1> QED
  BY <1>1, <1>2, <1>3, StartedStep, SettledStep DEF FinalInv

\* One process at a time never reopens a completed task: not by a retry that
\* read it before, not by a blocker, a repair or a receipt that arrives late.
THEOREM CompletionIsFinal ==
  ASSUME \A p, q \in Procs : p = q
  PROVE  Spec => CompletedIsFinal
<1>1. FinalInv /\ [Next]_vars => FinalInv'
  BY NextFinal
<1>2. FinalInv /\ [Next]_vars =>
        [\A t \in Tasks : taskState[t] = "completed" =>
           taskState'[t] = "completed"]_vars
  <2> SUFFICES ASSUME FinalInv, [Next]_vars
               PROVE  \A t \in Tasks : taskState[t] = "completed" =>
                        taskState'[t] = "completed"
    OBVIOUS
  <2>1. StatesKept
    BY StatesStep DEF FinalInv, SerialInv, IntentInv
  <2> QED
    BY <2>1 DEF StatesKept, Terminal
<1> QED
  BY InitFinal, <1>1, <1>2, PTL DEF Spec, CompletedIsFinal

\* No attempt exists for a task whose dependencies are not met: what the
\* scheduler saw on its snapshot still holds of every intent it persisted.
THEOREM DependenciesFirst ==
  ASSUME \A p, q \in Procs : p = q
  PROVE  Spec => []StartedAfterDependencies
<1>1. FinalInv /\ [Next]_vars => FinalInv'
  BY NextFinal
<1>2. FinalInv => StartedAfterDependencies
  BY DEF FinalInv
<1> QED
  BY InitFinal, <1>1, <1>2, PTL DEF Spec

\* A completed task has no row that a later cycle would dispatch, not even one
\* of an attempt that was retried before it was dispatched.
THEOREM CompletionSettles ==
  ASSUME \A p, q \in Procs : p = q
  PROVE  Spec => []CompletedIsSettled
<1>1. FinalInv /\ [Next]_vars => FinalInv'
  BY NextFinal
<1>2. FinalInv => CompletedIsSettled
  BY DEF FinalInv
<1> QED
  BY InitFinal, <1>1, <1>2, PTL DEF Spec

-----------------------------------------------------------------------------
(* Without retries and without receipts fed in by an operator a task has one *)
(* attempt, and an open row means that the task waits to be dispatched.      *)

Quiet == {"retry", "ingest-receipt"} \intersect Commands = {}

Fresh == {"proposed", "ready"}

\* A task with an attempt is not fresh any more, and it has no second one.
Once ==
  \A k \in Keys : attempt[k] # "none" =>
    /\ taskState[k[1]] \notin Fresh
    /\ \A j \in Keys : j[1] = k[1] /\ attempt[j] # "none" => j = k

OpenWaits ==
  \A k \in Keys : outbox[k] \in OpenRow =>
    attempt[k] = "dispatched" /\ taskState[k[1]] = "dispatching"

\* What is handed to the host, or just was, has an open row.
Offering(p) ==
  pc[p] \in {"emit", "invoke", "ingest"} => outbox[cur[p]] \in OpenRow

\* What was chosen is still fresh; the row that was read is the row there is.
PickedFresh(p) ==
  /\ \A t \in Picked(p) : t \in Tasks /\ taskState[t] \in Fresh
  /\ pc[p] = "persist" => memo[p] = taskState[cur[p][1]]

QuietInv == /\ KeptInv /\ Once /\ OpenWaits
            /\ \A p \in Procs : /\ Offering(p) /\ PickedFresh(p)
                                /\ pc[p] # "retry"

\* No row that is waiting has an answer, so none is repaired.
LEMMA NoRepair ==
  ASSUME KeptInv, NEW p \in Procs
  PROVE  ~RouteKnown(p)
<1> SUFFICES ASSUME RouteKnown(p) PROVE FALSE
  OBVIOUS
<1>1. PICK k \in queue[p] : receipt[k] # "none"
  BY DEF RouteKnown
<1>2. k \in Keys /\ pc[p] = "route" /\ Serial(p) /\ NoKey \notin Keys
  BY ConstantTypes DEF RouteKnown, KeptInv, SerialInv, IntentInv, TypeInv,
     TypeOK, MemoryTypes, KeySet, Keys
<1>3. outbox[k] \in OpenRow
  BY <1>2 DEF Serial, QueueOpen, Unengaged, Relaying, Working, OpenRow
<1> QED
  BY <1>1, <1>2, <1>3 DEF KeptInv, AnsweredSettled, Open, OpenRow

\* The steps that are left when nothing is retried or fed in.
LEMMA QuietSteps ==
  ASSUME Quiet, QuietInv, [Next]_vars
  PROVE  /\ \A p \in Procs : ~RetryEnd(p) /\ ~RouteKnown(p)
         /\ \A p \in Procs, t \in Tasks : ~RetryBegin(p, t)
         /\ \A p \in Procs, k \in Keys : ~IngestCommand(p, k)
  BY NoRepair DEF QuietInv, Quiet, RetryEnd, RetryBegin, IngestCommand, Issue

\* The key a process relays has the task's one attempt, and that was not
\* there when the task was chosen.
LEMMA RelayedKey ==
  ASSUME QuietInv, NEW p \in Procs, pc[p] \in HandlesKey
  PROVE  /\ cur[p] \in Keys /\ attempt[cur[p]] # "none"
         /\ \A k \in Keys : attempt[k] # "none" /\ k[1] = cur[p][1] =>
              k = cur[p]
  BY DEF QuietInv, KeptInv, SerialInv, IntentInv, TypeInv, HasKey, Working,
         HandlesKey, CurKnown, Born, Once

\* No task becomes fresh again, and of those chosen only the one that is
\* persisted changes its state.
LEMMA FreshGone ==
  ASSUME Quiet, QuietInv, [Next]_vars, NEW t \in Tasks, taskState[t] \notin Fresh
  PROVE  taskState'[t] \notin Fresh
<1>0. StoredTypes /\ MemoryTypes /\ HasKey
  BY DEF QuietInv, KeptInv, SerialInv, IntentInv, TypeInv, TypeOK
<1> USE <1>0 DEF StoredTypes, Fresh
<1>1. ASSUME NEW p \in Procs, Schedule(p) PROVE taskState'[t] \notin Fresh
  <2>1. ASSUME Persist(p) \/ PersistAgain(p) \/ PersistRefused(p) PROVE taskState'[t] \notin Fresh
    BY <2>1 DEF Persist, PersistAgain, PersistRefused, stored
  <2>2. ASSUME Guard(p) \/ Recover(p) \/ Snapshot(p) \/ Allocate(p) \/ Acquire(p)
        PROVE  taskState'[t] \notin Fresh
    BY <2>2 DEF Guard, Recover, Snapshot, Allocate, Acquire, stored
  <2>3. ASSUME LeaseRefused(p) \/ ResolutionRequired(p) \/ Collect(p)
        PROVE  taskState'[t] \notin Fresh
    BY <2>3 DEF LeaseRefused, ResolutionRequired, Collect, stored
  <2> QED
    BY <1>1, <2>1, <2>2, <2>3 DEF Schedule
<1>2. ASSUME NEW p \in Procs, Relay(p) PROVE taskState'[t] \notin Fresh
  <2>1. ASSUME Block(p) PROVE taskState'[t] \notin Fresh
    BY <2>1 DEF Block, RecordBlocker
  <2>2. ASSUME Ingest(p) PROVE taskState'[t] \notin Fresh
    <3>1. PICK m : IngestReceipt(cur[p], reply[p], m)
      BY <2>2 DEF Ingest
    <3> DEFINE u == cur[p][1]
    <3>2. \/ taskState' = taskState
          \/ \E s \in {"active", "verifying", taskState[u]} :
               taskState' = [taskState EXCEPT ![u] = s]
      BY <3>1 DEF IngestReceipt, stored
    <3> HIDE DEF u
    <3> QED
      BY <3>2
  <2>3. ASSUME RouteFound(p) \/ RouteMissing(p) \/ RouteNotEmitted(p)
               \/ RouteUnavailable(p) \/ RouteCreate(p)
        PROVE  taskState'[t] \notin Fresh
    BY <2>3 DEF RouteFound, RouteMissing, RouteNotEmitted, RouteUnavailable,
       RouteCreate, stored
  <2>4. ASSUME Emit(p) \/ Invoke(p) \/ InvokeBlocked(p) \/ TickEnd(p)
               \/ SyncEnd(p) \/ CycleEnd(p)
        PROVE  taskState'[t] \notin Fresh
    BY <2>4 DEF Emit, Invoke, InvokeBlocked, TickEnd, SyncEnd, CycleEnd, stored
  <2> QED
    BY <1>2, <2>1, <2>2, <2>3, <2>4, QuietSteps DEF Relay
<1>3. ASSUME NEW p \in Procs, ReadHandoffs(p) PROVE taskState'[t] \notin Fresh
  BY <1>3 DEF ReadHandoffs, Monitor, ReadHandoff, MonitorEnd, AcceptCompleted,
     AcceptRejected, AcceptBlocked, Accepted, Record, stored
<1>4. ASSUME \/ \E p \in Procs :
                  \/ Pause(p) \/ Resume(p) \/ CancelRun(p) \/ DriveBegin(p)
                  \/ Crash(p) \/ \E u \in Tasks : CancelTask(p, u)
             \/ \E u \in Tasks : ExpireLease(u)
             \/ \E k \in Keys : Finish(k)
             \/ UNCHANGED vars
      PROVE  taskState'[t] \notin Fresh
  BY <1>4 DEF Pause, Resume, CancelRun, DriveBegin, Crash, CancelTask,
     ExpireLease, Finish, vars, stored
<1> QED
  BY <1>1, <1>2, <1>3, <1>4, QuietSteps DEF Next, Continue, Command

\* A process that has chosen tasks is deciding, and persists a fresh task.
LEMMA PersistFresh ==
  ASSUME QuietInv, NEW p \in Procs, Persist(p)
  PROVE  /\ cur[p] \in Keys /\ taskState[cur[p][1]] \in Fresh
         /\ taskState' = [taskState EXCEPT ![cur[p][1]] = "dispatching"]
  BY DEF QuietInv, PickedFresh, Picked, Persist, KeptInv, SerialInv, IntentInv,
         TypeInv, HasKey, Working, Fresh

\* A waiting row keeps its attempt and its task while it is open.
LEMMA WaitingStep ==
  ASSUME Quiet, QuietInv, [Next]_vars, NEW k \in Keys,
         outbox[k] \in OpenRow, outbox'[k] \in OpenRow
  PROVE  attempt'[k] = attempt[k] /\ taskState'[k[1]] = taskState[k[1]]
<1>0. /\ StoredTypes /\ MemoryTypes /\ HasKey /\ Born /\ k[1] \in Tasks
      /\ attempt[k] = "dispatched" /\ taskState[k[1]] = "dispatching"
  BY KeyTask DEF QuietInv, KeptInv, SerialInv, IntentInv, TypeInv, TypeOK,
     OpenWaits
<1> DEFINE Waits == attempt'[k] = attempt[k] /\ taskState'[k[1]] = taskState[k[1]]
<1>1. ASSUME UNCHANGED <<attempt, taskState>> PROVE Waits
  BY <1>1
<1>2. ASSUME NEW p \in Procs, Schedule(p) PROVE Waits
  <2>1. ASSUME Persist(p) PROVE Waits
    <3>1. cur[p][1] # k[1]
      BY <1>0, <2>1, PersistFresh DEF Fresh
    <3> QED
      BY <1>0, <2>1, <3>1, PersistFresh DEF Persist, StoredTypes
  <2>2. ASSUME ~Persist(p) PROVE UNCHANGED <<attempt, taskState>>
    BY <1>2, <2>2 DEF Schedule, Guard, Recover, Snapshot, Allocate, Acquire,
       LeaseRefused, ResolutionRequired, PersistAgain, PersistRefused,
       Collect, stored
  <2> QED
    BY <1>1, <2>1, <2>2
<1>3. ASSUME NEW p \in Procs, Relay(p) PROVE Waits
  <2>1. ASSUME Ingest(p) PROVE Waits
    <3>1. PICK m \in Telemetry : IngestReceipt(cur[p], reply[p], m)
      BY <2>1 DEF Ingest
    <3>2. /\ cur[p] \in Keys /\ attempt[cur[p]] # "none"
          /\ k[1] = cur[p][1] => k = cur[p]
      BY <1>0, <2>1, RelayedKey DEF Ingest, HandlesKey
    <3>3. CASE k = cur[p]
      BY <1>0, <3>1, <3>2, <3>3 DEF IngestReceipt, stored, StoredTypes, OpenRow
    <3>4. CASE k[1] # cur[p][1]
      BY <1>0, <3>1, <3>2, <3>4 DEF IngestReceipt, stored, StoredTypes
    <3> QED
      BY <3>2, <3>3, <3>4
  <2>2. ASSUME Block(p) PROVE Waits
    <3>1. /\ cur[p] \in Keys
          /\ k[1] = cur[p][1] => k = cur[p]
      BY <1>0, <2>2, RelayedKey DEF Block, HandlesKey
    <3> QED
      BY <1>0, <2>2, <3>1 DEF Block, RecordBlocker, StoredTypes, OpenRow
  <2>3. ASSUME ~Ingest(p), ~Block(p) PROVE UNCHANGED <<attempt, taskState>>
    BY <1>3, <2>3, QuietSteps DEF Relay, RouteFound, RouteMissing,
       RouteNotEmitted, RouteUnavailable, RouteCreate, Emit, Invoke,
       InvokeBlocked, TickEnd, SyncEnd, CycleEnd, stored
  <2> QED
    BY <1>1, <2>1, <2>2, <2>3
<1>4. ASSUME NEW p \in Procs, ReadHandoffs(p) PROVE Waits
  <2>1. ASSUME AcceptCompleted(p) PROVE Waits
    BY <1>0, <2>1 DEF AcceptCompleted, AttemptsOf, OutboxSettled, StoredTypes,
                      OpenRow
  <2>2. ASSUME AcceptBlocked(p) PROVE Waits
    BY <1>0, <2>2 DEF AcceptBlocked, StoredTypes
  <2>3. ASSUME ~AcceptCompleted(p), ~AcceptBlocked(p)
        PROVE  UNCHANGED <<attempt, taskState>>
    BY <1>4, <2>3 DEF ReadHandoffs, Monitor, ReadHandoff, MonitorEnd,
       AcceptRejected, Accepted, Record, stored
  <2> QED
    BY <1>1, <2>1, <2>2, <2>3
<1>5. ASSUME NEW p \in Procs, NEW t \in Tasks, CancelTask(p, t) PROVE Waits
  BY <1>0, <1>5 DEF CancelTask, StoredTypes
<1>6. ASSUME \/ \E p \in Procs :
                  \/ Pause(p) \/ Resume(p) \/ CancelRun(p) \/ DriveBegin(p)
                  \/ Crash(p)
             \/ \E t \in Tasks : ExpireLease(t)
             \/ \E j \in Keys : Finish(j)
             \/ UNCHANGED vars
      PROVE  UNCHANGED <<attempt, taskState>>
  BY <1>6 DEF Pause, Resume, CancelRun, DriveBegin, Crash, ExpireLease,
     Finish, vars, stored
<1> QED
  BY <1>1, <1>2, <1>3, <1>4, <1>5, <1>6, QuietSteps DEF Next, Continue, Command

LEMMA OpenWaitsStep ==
  ASSUME Quiet, QuietInv, [Next]_vars
  PROVE  OpenWaits'
<1> SUFFICES ASSUME NEW k \in Keys, outbox'[k] \in OpenRow
             PROVE  attempt'[k] = "dispatched" /\ taskState'[k[1]] = "dispatching"
  BY DEF OpenWaits
<1>1. CASE outbox[k] \in OpenRow
  BY <1>1, WaitingStep DEF QuietInv, OpenWaits
<1>2. CASE outbox[k] \notin OpenRow
  <2>1. PICK p \in Procs : Persist(p) /\ cur[p] = k
    BY <1>2, OpenedByPersist DEF QuietInv, KeptInv, SerialInv
  <2>2. StoredTypes /\ k[1] \in Tasks
    BY KeyTask DEF QuietInv, KeptInv, SerialInv, IntentInv, TypeInv, TypeOK
  <2> QED
    BY <2>1, <2>2, PersistFresh DEF Persist, StoredTypes
<1> QED
  BY <1>1, <1>2

\* Only the attempt of a fresh task begins, and the task is not fresh then.
LEMMA OnceStep ==
  ASSUME Quiet, QuietInv, [Next]_vars
  PROVE  Once'
<1>0. StoredTypes /\ IntentInv
  BY DEF QuietInv, KeptInv, SerialInv, IntentInv, TypeInv, TypeOK
<1>1. ASSUME NEW k \in Keys, attempt'[k] # "none", attempt[k] = "none"
      PROVE  /\ taskState'[k[1]] \notin Fresh
             /\ taskState[k[1]] \in Fresh
             /\ \A j \in Keys : attempt'[j] # "none" /\ attempt[j] = "none" =>
                  j = k \/ j[1] # k[1]
  <2>1. PICK p \in Procs : Persist(p) /\ cur[p] = k
    BY <1>0, <1>1, OpenedByPersist
  <2>2. \A j \in Keys : j # k => attempt'[j] = attempt[j]
    BY <1>0, <2>1 DEF Persist, StoredTypes
  <2> QED
    BY <1>0, <2>1, <2>2, PersistFresh, KeyTask DEF Fresh, StoredTypes
<1>2. ASSUME NEW k \in Keys, attempt'[k] # "none", attempt[k] # "none"
      PROVE  taskState'[k[1]] \notin Fresh /\ taskState[k[1]] \notin Fresh
  BY <1>2, FreshGone, KeyTask DEF QuietInv, Once
<1> QED
  BY <1>1, <1>2 DEF Once, QuietInv

\* The host is only offered rows that are open.
LEMMA OfferingStep ==
  ASSUME Quiet, QuietInv, [Next]_vars, NEW p \in Procs, \A q \in Procs : q = p
  PROVE  Offering(p)'
<1>0. /\ StoredTypes /\ MemoryTypes /\ HasKey /\ Serial(p) /\ Offering(p)
      /\ NoKey \notin Keys /\ pc[p] # "retry"
  BY ConstantTypes DEF QuietInv, KeptInv, SerialInv, IntentInv, TypeInv, TypeOK,
                       Keys
<1> USE DEF Offering, Goto
<1>1. ASSUME RouteFound(p) PROVE Offering(p)'
  BY <1>0, <1>1 DEF RouteFound, Take, MemoryTypes, stored, OpenRow
<1>2. ASSUME RouteCreate(p) PROVE Offering(p)'
  <2>1. PICK k \in queue[p] : Take(p, k)
    BY <1>2 DEF RouteCreate
  <2>2. outbox[k] \in OpenRow
    BY <1>0, <1>2 DEF RouteCreate, Serial, QueueOpen, Unengaged, Relaying,
       Working, MemoryTypes, KeySet, OpenRow
  <2> QED
    BY <1>0, <1>2, <2>1, <2>2 DEF RouteCreate, Take, MemoryTypes, stored
<1>3. ASSUME Emit(p) PROVE Offering(p)'
  BY <1>0, <1>3 DEF Emit, HasKey, Working, MemoryTypes, StoredTypes, OpenRow
<1>4. ASSUME Invoke(p) PROVE Offering(p)'
  BY <1>0, <1>4 DEF Invoke, MemoryTypes, stored
<1>5. ASSUME Relay(p), ~RouteFound(p), ~RouteCreate(p), ~Emit(p), ~Invoke(p)
      PROVE  pc'[p] \notin {"emit", "invoke", "ingest"}
  BY <1>0, <1>5, QuietSteps DEF Relay, RouteMissing, RouteNotEmitted,
     RouteUnavailable, InvokeBlocked, Ingest, Block, TickEnd, SyncEnd,
     CycleEnd, NextKey, Forget, MemoryTypes
<1>6. ASSUME Schedule(p) PROVE pc'[p] \notin {"emit", "invoke", "ingest"}
  BY <1>0, <1>6 DEF Schedule, Guard, Recover, Snapshot, Allocate, Acquire,
     LeaseRefused, ResolutionRequired, Persist, PersistAgain, PersistRefused,
     Collect, Forget, MemoryTypes
<1>7. ASSUME ReadHandoffs(p) PROVE pc'[p] \notin {"emit", "invoke", "ingest"}
  BY <1>0, <1>7 DEF ReadHandoffs, Monitor, ReadHandoff, MonitorEnd,
     AcceptCompleted, AcceptRejected, AcceptBlocked, Accepted, Record,
     MemoryTypes
<1>8. ASSUME \/ Pause(p) \/ Resume(p) \/ CancelRun(p) \/ DriveBegin(p)
             \/ Crash(p) \/ \E t \in Tasks : CancelTask(p, t)
      PROVE  pc'[p] \notin {"emit", "invoke", "ingest"}
  BY <1>0, <1>8 DEF Pause, Resume, CancelRun, DriveBegin, Crash, CancelTask,
     Issue, Forget, MemoryTypes, memory
<1>9. ASSUME \/ \E t \in Tasks : ExpireLease(t)
             \/ \E k \in Keys : Finish(k)
             \/ UNCHANGED vars
      PROVE  UNCHANGED <<pc, cur, outbox>>
  BY <1>9 DEF ExpireLease, Finish, vars, memory, stored
<1> QED
  BY <1>0, <1>1, <1>2, <1>3, <1>4, <1>5, <1>6, <1>7, <1>8, <1>9, QuietSteps
     DEF Next, Continue, Command

\* Nothing but the intent that is persisted touches what was chosen.
LEMMA PickedFreshStep ==
  ASSUME Quiet, QuietInv, [Next]_vars, NEW p \in Procs, \A q \in Procs : q = p
  PROVE  PickedFresh(p)' /\ pc'[p] # "retry"
<1>0. /\ StoredTypes /\ MemoryTypes /\ HasKey /\ Serial(p) /\ PickedFresh(p)
      /\ pc[p] # "retry" /\ SerialInv
  BY DEF QuietInv, KeptInv, SerialInv, IntentInv, TypeInv, TypeOK
<1>1. ASSUME Persist(p) PROVE PickedFresh(p)'
  <2>1. pc'[p] = "acquire" /\ batch' = batch
    BY <1>0, <1>1 DEF Persist, Goto, MemoryTypes
  <2>2. /\ cur[p] \in Keys /\ IsNext(cur[p]) /\ cur[p] \notin batch[p]
        /\ \A k \in batch[p] : k \in Keys /\ IsNext(k)
    BY <1>0, <1>1 DEF Persist, Serial, Persisting, Undecided, Deciding, HasKey,
                      Working, MemoryTypes, KeySet
  <2>3. \A k \in batch[p] : k[1] # cur[p][1]
    BY <2>2, NextUnique
  <2> QED
    BY <1>0, <1>1, <2>1, <2>2, <2>3, PersistFresh, KeyTask
       DEF PickedFresh, Picked, StoredTypes
<1>2. ASSUME UNCHANGED taskState, pc'[p] # "persist" PROVE PickedFresh(p)'
  BY <1>0, <1>2, PickedStep DEF PickedFresh, ReadyTasks, Fresh
<1>3. ASSUME Acquire(p) PROVE PickedFresh(p)'
  <2>1. UNCHANGED taskState /\ memo'[p] = taskState[cur'[p][1]]
    BY <1>0, <1>3 DEF Acquire, Take, Numbered, MemoryTypes
  <2> QED
    BY <1>0, <2>1, PickedStep DEF PickedFresh, ReadyTasks, Fresh
<1>4. ASSUME Schedule(p), ~Persist(p), ~Acquire(p)
      PROVE  UNCHANGED taskState /\ pc'[p] # "persist"
  BY <1>0, <1>4 DEF Schedule, Guard, Recover, Snapshot, Allocate,
     LeaseRefused, ResolutionRequired, PersistAgain, PersistRefused,
     Collect, Goto, Forget, MemoryTypes, stored
<1>5. ASSUME batch'[p] = {}, pc'[p] # "persist" PROVE PickedFresh(p)'
  BY <1>5 DEF PickedFresh, Picked
<1>6. ASSUME Relay(p) PROVE batch'[p] = {} /\ pc'[p] # "persist"
  BY <1>0, <1>6 DEF Relay, RouteKnown, RouteFound, RouteMissing,
     RouteNotEmitted, RouteUnavailable, RouteCreate, Emit, Invoke,
     InvokeBlocked, Ingest, Block, TickEnd, SyncEnd, CycleEnd, NextKey, Goto,
     Forget, MemoryTypes, Serial, Undecided, Deciding
<1>7. ASSUME ReadHandoffs(p) PROVE batch'[p] = {} /\ pc'[p] # "persist"
  BY <1>0, <1>7 DEF ReadHandoffs, Monitor, ReadHandoff, MonitorEnd,
     AcceptCompleted, AcceptRejected, AcceptBlocked, Accepted, Record, Goto,
     MemoryTypes, Serial, Undecided, Deciding
<1>8. ASSUME \/ Pause(p) \/ Resume(p) \/ CancelRun(p) \/ DriveBegin(p)
             \/ Crash(p) \/ \E t \in Tasks : CancelTask(p, t)
      PROVE  batch'[p] = {} /\ pc'[p] # "persist"
  BY <1>0, <1>8 DEF Pause, Resume, CancelRun, DriveBegin, Crash, CancelTask,
     Issue, Forget, Goto, MemoryTypes, memory, Serial, Undecided, Deciding
<1>9. ASSUME \/ \E t \in Tasks : ExpireLease(t)
             \/ \E k \in Keys : Finish(k)
             \/ UNCHANGED vars
      PROVE  UNCHANGED <<pc, cur, batch, memo, taskState>>
  BY <1>9 DEF ExpireLease, Finish, vars, memory, stored
<1>10. ASSUME UNCHANGED <<pc, cur, batch, memo, taskState>> PROVE PickedFresh(p)'
  BY <1>0, <1>10 DEF PickedFresh, Picked
<1>11. pc'[p] # "retry"
  <2>1. Schedule(p) \/ Relay(p) => pc'[p] # "retry"
    BY <1>0 DEF Schedule, Guard, Recover, Snapshot, Allocate, Acquire,
       LeaseRefused, ResolutionRequired, Persist, PersistAgain,
       PersistRefused, Collect, Relay, RouteKnown, RouteFound, RouteMissing,
       RouteNotEmitted, RouteUnavailable, RouteCreate, Emit, Invoke,
       InvokeBlocked, Ingest, Block, TickEnd, SyncEnd, CycleEnd, NextKey,
       Goto, Forget, MemoryTypes
  <2>2. ReadHandoffs(p) \/ DriveBegin(p) \/ Crash(p) => pc'[p] # "retry"
    BY <1>0 DEF ReadHandoffs, Monitor, ReadHandoff, MonitorEnd,
       AcceptCompleted, AcceptRejected, AcceptBlocked, Accepted, Record,
       DriveBegin, Crash, Goto, Forget, MemoryTypes
  <2>3. Pause(p) \/ Resume(p) \/ CancelRun(p)
        \/ (\E t \in Tasks : CancelTask(p, t)) => pc'[p] # "retry"
    BY <1>0 DEF Pause, Resume, CancelRun, CancelTask, memory
  <2> QED
    BY <1>0, <1>9, <2>1, <2>2, <2>3, QuietSteps DEF Next, Continue, Command
<1> QED
  BY <1>1, <1>2, <1>3, <1>4, <1>5, <1>6, <1>7, <1>8, <1>9, <1>10, <1>11,
     QuietSteps DEF Next, Continue, Command

LEMMA InitQuiet == Init => QuietInv
<1>1. ASSUME Init
      PROVE  /\ Once /\ OpenWaits
             /\ \A p \in Procs : /\ Offering(p) /\ PickedFresh(p)
                                 /\ pc[p] # "retry"
  BY <1>1 DEF Init, Once, OpenWaits, OpenRow, Offering, PickedFresh, Picked
<1> QED
  BY <1>1, InitKept DEF QuietInv

LEMMA NextQuiet ==
  ASSUME \A p, q \in Procs : p = q, Quiet, QuietInv, [Next]_vars
  PROVE  QuietInv'
<1>1. KeptInv'
  BY NextKept DEF QuietInv
<1>2. ASSUME NEW p \in Procs
      PROVE  Offering(p)' /\ PickedFresh(p)' /\ pc'[p] # "retry"
  BY OfferingStep, PickedFreshStep
<1> QED
  BY <1>1, <1>2, OnceStep, OpenWaitsStep DEF QuietInv

-----------------------------------------------------------------------------
(* A completed run, and what the host is asked for *)

AllDone == /\ \A t \in Tasks : taskState[t] \in Terminal
           /\ \A t \in Required : taskState[t] = "completed"

DoneInv == QuietInv /\ (runState = "completed" => AllDone)

\* A run completes where everything is done; afterwards nothing is undone.
LEMMA DoneStep ==
  ASSUME DoneInv, [Next]_vars, runState' = "completed"
  PROVE  AllDone'
<1>0. TypeInv /\ Required \subseteq Tasks
  BY ConstantTypes DEF DoneInv, QuietInv, KeptInv, SerialInv, IntentInv
<1>1. StatesKept
  BY <1>0, StatesStep DEF DoneInv, QuietInv, RetryRead
<1>2. CASE runState = "completed"
  BY <1>0, <1>1, <1>2 DEF DoneInv, AllDone, StatesKept, Terminal
<1>3. CASE runState # "completed"
  <2>1. ASSUME NEW p \in Procs, Collect(p) \/ TickEnd(p) \/ Accepted(p)
        PROVE  CompleteRunIfReady /\ UNCHANGED taskState
    BY <1>3, <2>1 DEF Collect, TickEnd, Accepted
  <2>2. ASSUME CompleteRunIfReady, UNCHANGED taskState PROVE AllDone'
    BY <1>3, <2>2 DEF CompleteRunIfReady, RunIsDone, AllDone
  <2>3. ASSUME NEW p \in Procs, Schedule(p), ~Collect(p)
        PROVE  runState' # "completed"
    BY <1>3, <2>3 DEF Schedule, Guard, Recover, Snapshot, Allocate, Acquire,
       LeaseRefused, ResolutionRequired, Persist, PersistAgain,
       PersistRefused, stored
  <2>4. ASSUME NEW p \in Procs, Relay(p), ~TickEnd(p) PROVE UNCHANGED runState
    BY <2>4 DEF Relay, RouteKnown, RouteFound, RouteMissing, RouteNotEmitted,
       RouteUnavailable, RouteCreate, Emit, Invoke, InvokeBlocked, Ingest,
       Block, SyncEnd, CycleEnd, Repair, IngestReceipt, RecordBlocker, stored
  <2>5. ASSUME NEW p \in Procs, ReadHandoffs(p), ~Accepted(p)
        PROVE  UNCHANGED runState
    BY <2>5 DEF ReadHandoffs, Monitor, ReadHandoff, MonitorEnd,
       AcceptCompleted, AcceptRejected, AcceptBlocked, Record, stored
  <2>6. ASSUME NEW p \in Procs,
               RetryEnd(p) \/ DriveBegin(p) \/ Command(p) \/ Crash(p)
        PROVE  runState' # "completed"
    BY <1>3, <2>6 DEF RetryEnd, DriveBegin, Command, Pause, Resume, CancelRun,
       CancelTask, RetryBegin, IngestCommand, Crash, stored
  <2>7. ASSUME \/ \E t \in Tasks : ExpireLease(t)
               \/ \E k \in Keys : Finish(k)
               \/ UNCHANGED vars
        PROVE  UNCHANGED runState
    BY <2>7 DEF ExpireLease, Finish, vars, stored
  <2> QED
    BY <1>3, <2>1, <2>2, <2>3, <2>4, <2>5, <2>6, <2>7 DEF Next, Continue
<1> QED
  BY <1>2, <1>3

\* While nothing is retried and no operator feeds in receipts, a run that
\* completed has nothing left: every task is finished, every required one is
\* completed, and no intent waits to be dispatched.
THEOREM CompletedRun ==
  ASSUME \A p, q \in Procs : p = q, Quiet
  PROVE  Spec => []CompletedRunIsDone
<1>1. Init => DoneInv
  <2>1. Init => runState # "completed"
    BY DEF Init
  <2> QED
    BY <2>1, InitQuiet DEF DoneInv
<1>2. DoneInv /\ [Next]_vars => DoneInv'
  BY NextQuiet, DoneStep DEF DoneInv
<1>3. DoneInv => CompletedRunIsDone
  <2> SUFFICES ASSUME DoneInv, runState = "completed"
               PROVE  AllDone /\ Pending = {}
    BY DEF CompletedRunIsDone, AllDone
  <2>1. AllDone
    BY DEF DoneInv
  <2>2. \A k \in Keys : outbox[k] \notin OpenRow
    BY <2>1, KeyTask DEF DoneInv, QuietInv, OpenWaits, AllDone, Terminal
  <2> QED
    BY <2>1, <2>2 DEF Pending, OpenRow
<1> QED
  BY <1>1, <1>2, <1>3, PTL DEF Spec

\* Under the same conditions the host is only asked to create threads for
\* attempts that are live.
THEOREM CreatedLive ==
  ASSUME \A p, q \in Procs : p = q, Quiet
  PROVE  Spec => CreateOnlyLive
<1>1. QuietInv /\ [Next]_vars => QuietInv'
  BY NextQuiet
<1>2. QuietInv /\ [Next]_vars =>
        [\A k \in Keys : host'[k] > host[k] => attempt[k] \in LiveAttempt]_vars
  <2> SUFFICES ASSUME QuietInv, [Next]_vars, NEW k \in Keys, host'[k] > host[k]
               PROVE  attempt[k] \in LiveAttempt
    OBVIOUS
  <2>1. host[k] \in Nat
    BY DEF QuietInv, KeptInv, SerialInv, IntentInv, TypeInv, TypeOK, WorldTypes
  <2>2. ~ Still /\ ~ \E j \in Keys : Written(j) \/ Emitted(j) \/ Answered(j)
    BY <2>1 DEF Still, Written, Emitted, Answered
  <2>3. ~ \E S \in SUBSET Keys : GivenUp(S)
    BY <2>1 DEF GivenUp
  <2>4. PICK j \in Keys : Performed(j)
    BY <2>2, <2>3, EveryRow DEF QuietInv, RowStep
  <2>5. j = k /\ outbox[k] = "emitted"
    BY <2>1, <2>4 DEF Performed, QuietInv, KeptInv, SerialInv, IntentInv,
       TypeInv, TypeOK, WorldTypes
  <2> QED
    BY <2>5 DEF QuietInv, OpenWaits, OpenRow, LiveAttempt
<1> QED
  BY InitQuiet, <1>1, <1>2, PTL DEF Spec, CreateOnlyLive

-----------------------------------------------------------------------------
(* The budget.  Claims alone are not bounded by an invariant: recovery       *)
(* rebuilds them from the facts that justify a slot.  What is bounded is the *)
(* claims together with the tasks those facts support.                       *)

Backed == {t \in Tasks : Supported(t)}

\* From recovery to the allocation every supported task is claimed; after it
\* every chosen task is.
Covered(p) ==
  /\ pc[p] \in {"snapshot", "allocate"} => Backed \subseteq claims
  /\ pc[p] \in {"acquire", "persist"} => Picked(p) \subseteq claims

HeldInBudget == Cardinality(claims \union Backed) <= Budget

BudgetInv == QuietInv /\ HeldInBudget /\ \A p \in Procs : Covered(p)

\* A task is supported because it was, or because it was claimed.
BackedStep == Backed' \subseteq Backed \union claims

LEMMA PersistBacked ==
  ASSUME BudgetInv, NEW p \in Procs, Persist(p)
  PROVE  BackedStep
<1>0. StoredTypes /\ cur[p] \in Keys /\ cur[p][1] \in claims
  BY DEF BudgetInv, QuietInv, KeptInv, SerialInv, IntentInv, TypeInv, TypeOK,
         HasKey, Working, Covered, Picked, Persist
<1>1. ASSUME NEW t \in Tasks, t # cur[p][1]
      PROVE  /\ taskState'[t] = taskState[t] /\ lease' = lease
             /\ \A k \in KeysOf(t) : attempt'[k] = attempt[k] /\ outbox'[k] = outbox[k]
  BY <1>0, <1>1 DEF Persist, StoredTypes, KeysOf
<1> QED
  BY <1>0, <1>1 DEF BackedStep, Backed, Supported

\* A receipt only moves the task and the attempt of a row that was open.
LEMMA IngestBacked ==
  ASSUME QuietInv, NEW p \in Procs, Ingest(p)
  PROVE  Backed' \subseteq Backed
<1>1. PICK m \in Telemetry : IngestReceipt(cur[p], reply[p], m)
  BY DEF Ingest
<1>2. /\ StoredTypes /\ cur[p] \in KeysOf(cur[p][1]) /\ cur[p] \in Keys
      /\ outbox[cur[p]] \in OpenRow
  BY DEF Ingest, QuietInv, Offering, KeptInv, SerialInv, IntentInv, TypeInv,
         TypeOK, HasKey, Working, KeysOf
<1>3. Supported(cur[p][1])
  BY <1>2 DEF Supported, OpenRow
<1>4. ASSUME NEW t \in Tasks, t # cur[p][1]
      PROVE  /\ taskState'[t] = taskState[t] /\ lease' = lease
             /\ \A k \in KeysOf(t) : attempt'[k] = attempt[k] /\ outbox'[k] = outbox[k]
  BY <1>1, <1>2, <1>4 DEF IngestReceipt, StoredTypes, KeysOf, stored
<1> QED
  BY <1>3, <1>4 DEF Backed, Supported

LEMMA BlockBacked ==
  ASSUME QuietInv, NEW p \in Procs, Block(p)
  PROVE  Backed' \subseteq Backed
<1>1. StoredTypes /\ cur[p] \in Keys /\ RecordBlocker(cur[p])
  BY DEF Block, QuietInv, KeptInv, SerialInv, IntentInv, TypeInv, TypeOK,
         HasKey, Working
<1>2. ASSUME NEW t \in Tasks
      PROVE  /\ taskState'[t] \in Executing => taskState[t] \in Executing
             /\ \A k \in KeysOf(t) :
                  /\ attempt'[k] \in LiveAttempt => attempt[k] \in LiveAttempt
                  /\ outbox'[k] \in OpenRow => outbox[k] \in OpenRow
             /\ lease' \subseteq lease
  BY <1>1 DEF RecordBlocker, StoredTypes, KeysOf, Executing, LiveAttempt, OpenRow
<1> QED
  BY <1>2 DEF Backed, Supported, OpenRow

LEMMA AcceptBacked ==
  ASSUME QuietInv, NEW p \in Procs, AcceptCompleted(p) \/ AcceptBlocked(p)
  PROVE  Backed' \subseteq Backed
<1>1. StoredTypes
  BY DEF QuietInv, KeptInv, SerialInv, IntentInv, TypeInv, TypeOK
<1>2. ASSUME NEW t \in Tasks
      PROVE  /\ taskState'[t] \in Executing => taskState[t] \in Executing
             /\ \A k \in KeysOf(t) :
                  /\ attempt'[k] \in LiveAttempt => attempt[k] \in LiveAttempt
                  /\ outbox'[k] \in OpenRow => outbox[k] \in OpenRow
             /\ lease' \subseteq lease
  <2>1. CASE AcceptCompleted(p)
    BY <1>1, <2>1 DEF AcceptCompleted, AttemptsOf, OutboxSettled, StoredTypes,
                      KeysOf, Executing, LiveAttempt, OpenRow
  <2>2. CASE AcceptBlocked(p)
    BY <1>1, <2>2 DEF AcceptBlocked, StoredTypes, Executing
  <2> QED
    BY <2>1, <2>2
<1> QED
  BY <1>2 DEF Backed, Supported, OpenRow

\* Every step: support only grows within the claims, and only Acquire and
\* Persist make it grow at all.
LEMMA BackedKept ==
  ASSUME Quiet, BudgetInv, [Next]_vars
  PROVE  /\ BackedStep
         /\ (\A p \in Procs : ~Acquire(p) /\ ~Persist(p)) => Backed' \subseteq Backed
<1> DEFINE Same == UNCHANGED <<taskState, attempt, outbox, lease>>
<1>0. QuietInv /\ StoredTypes
  BY DEF BudgetInv, QuietInv, KeptInv, SerialInv, IntentInv, TypeInv, TypeOK
<1>1. ASSUME Same PROVE Backed' \subseteq Backed
  BY <1>1 DEF Backed, Supported
<1>2. ASSUME NEW p \in Procs, Acquire(p) PROVE BackedStep
  <2>1. PICK k \in batch[p] : lease' = lease \union {k[1]}
    BY <1>2 DEF Acquire
  <2>2. k[1] \in claims
    BY <1>2 DEF Acquire, BudgetInv, Covered, Picked
  <2>3. UNCHANGED <<taskState, attempt, outbox>>
    BY <1>2 DEF Acquire
  <2> QED
    BY <2>1, <2>2, <2>3 DEF BackedStep, Backed, Supported
<1>3. ASSUME NEW p \in Procs, Schedule(p), ~Acquire(p), ~Persist(p) PROVE Same
  BY <1>3 DEF Schedule, Guard, Recover, Snapshot, Allocate, LeaseRefused,
     ResolutionRequired, PersistAgain, PersistRefused, Collect, stored
<1>4. ASSUME NEW p \in Procs, Relay(p) PROVE Backed' \subseteq Backed
  <2>1. ASSUME Emit(p) PROVE Backed' \subseteq Backed
    <3>1. /\ UNCHANGED <<taskState, attempt, lease>>
          /\ \A k \in Keys : outbox'[k] \in OpenRow => outbox[k] \in OpenRow
      BY <1>0, <2>1 DEF Emit, StoredTypes, OpenRow
    <3> QED
      BY <3>1 DEF Backed, Supported, KeysOf, OpenRow
  <2>2. ASSUME ~Emit(p), ~Ingest(p), ~Block(p) PROVE Same
    BY <1>0, <1>4, <2>2, QuietSteps DEF Relay, RouteFound, RouteMissing,
       RouteNotEmitted, RouteUnavailable, RouteCreate, Invoke,
       InvokeBlocked, TickEnd, SyncEnd, CycleEnd, stored
  <2> QED
    BY <1>0, <1>1, <2>1, <2>2, IngestBacked, BlockBacked
<1>5. ASSUME NEW p \in Procs, ReadHandoffs(p) PROVE Backed' \subseteq Backed
  <2>1. ASSUME ~AcceptCompleted(p), ~AcceptBlocked(p) PROVE Same
    BY <1>5, <2>1 DEF ReadHandoffs, Monitor, ReadHandoff, MonitorEnd,
       AcceptRejected, Accepted, Record, stored
  <2> QED
    BY <1>0, <1>1, <2>1, AcceptBacked
<1>6. ASSUME NEW p \in Procs, NEW t \in Tasks, CancelTask(p, t)
      PROVE  Backed' \subseteq Backed
  <2>1. /\ UNCHANGED <<attempt, outbox, lease>>
        /\ \A u \in Tasks : taskState'[u] \in Executing => taskState[u] \in Executing
    BY <1>0, <1>6 DEF CancelTask, StoredTypes, Executing
  <2> QED
    BY <2>1 DEF Backed, Supported
<1>7. ASSUME NEW t \in Tasks, ExpireLease(t) PROVE Backed' \subseteq Backed
  <2>1. UNCHANGED <<taskState, attempt, outbox>> /\ lease' \subseteq lease
    BY <1>7 DEF ExpireLease
  <2> QED
    BY <2>1 DEF Backed, Supported
<1>8. ASSUME \/ \E p \in Procs :
                  \/ Pause(p) \/ Resume(p) \/ CancelRun(p) \/ DriveBegin(p)
                  \/ Crash(p)
             \/ \E j \in Keys : Finish(j)
             \/ UNCHANGED vars
      PROVE  Same
  BY <1>8 DEF Pause, Resume, CancelRun, DriveBegin, Crash, Finish, vars, stored
<1>9. Backed' \subseteq Backed => BackedStep
  BY DEF BackedStep
<1>10. ASSUME NEW p \in Procs, Acquire(p) \/ Persist(p) PROVE BackedStep
  BY <1>2, <1>10, PersistBacked
<1>11. ASSUME \A p \in Procs : ~Acquire(p) /\ ~Persist(p)
       PROVE  Backed' \subseteq Backed
  BY <1>0, <1>1, <1>3, <1>4, <1>5, <1>6, <1>7, <1>8, <1>11, QuietSteps
     DEF Next, Continue, Command
<1> QED
  BY <1>9, <1>10, <1>11

\* Only the allocation claims a task that nothing supports.
LEMMA ClaimsStep ==
  ASSUME Quiet, BudgetInv, [Next]_vars, \A p \in Procs : ~Allocate(p)
  PROVE  claims' \subseteq claims \union Backed
<1>0. QuietInv
  BY DEF BudgetInv
<1>1. ASSUME NEW p \in Procs, Schedule(p) PROVE claims' \subseteq claims \union Backed
  BY <1>1 DEF Schedule, Guard, Recover, RecoverClaims, Snapshot, Acquire,
     LeaseRefused, ResolutionRequired, Persist, PersistAgain, PersistRefused,
     Collect, stored, Backed
<1>2. ASSUME NEW p \in Procs, Relay(p) PROVE claims' \subseteq claims
  BY <1>0, <1>2, QuietSteps DEF Relay, RouteFound, RouteMissing,
     RouteNotEmitted, RouteUnavailable, RouteCreate, Emit, Invoke,
     InvokeBlocked, Ingest, Block, TickEnd, SyncEnd, CycleEnd, IngestReceipt,
     RecordBlocker, stored
<1>3. ASSUME NEW p \in Procs, ReadHandoffs(p) PROVE claims' \subseteq claims
  BY <1>3 DEF ReadHandoffs, Monitor, ReadHandoff, MonitorEnd, AcceptCompleted,
     AcceptRejected, AcceptBlocked, Accepted, Record, stored
<1>4. ASSUME \/ \E p \in Procs :
                  \/ Pause(p) \/ Resume(p) \/ CancelRun(p) \/ DriveBegin(p)
                  \/ Crash(p) \/ \E t \in Tasks : CancelTask(p, t)
             \/ \E t \in Tasks : ExpireLease(t)
             \/ \E k \in Keys : Finish(k)
             \/ UNCHANGED vars
      PROVE  claims' \subseteq claims
  BY <1>4 DEF Pause, Resume, CancelRun, DriveBegin, Crash, CancelTask,
     ExpireLease, Finish, vars, stored
<1> QED
  BY <1>0, <1>1, <1>2, <1>3, <1>4, QuietSteps DEF Next, Continue, Command

\* Giving a task back leaves the other chosen tasks claimed: a task is chosen
\* once.
LEMMA RefusedCovered ==
  ASSUME BudgetInv, NEW p \in Procs, LeaseRefused(p)
  PROVE  Picked(p)' \subseteq claims'
<1>1. PICK k \in batch[p] :
        claims' = claims \ {k[1]} /\ batch' = [batch EXCEPT ![p] = @ \ {k}]
  BY DEF LeaseRefused
<1>2. /\ pc[p] = "acquire" /\ pc' = pc
      /\ Picked(p) \subseteq claims /\ batch \in [Procs -> KeySet]
      /\ \A j \in batch[p] : j \in Keys /\ IsNext(j)
  BY DEF LeaseRefused, BudgetInv, Covered, QuietInv, KeptInv, SerialInv, Serial,
         Undecided, Deciding, IntentInv, TypeInv, TypeOK, MemoryTypes, KeySet
<1>3. \A j \in batch[p] : j # k => j[1] # k[1]
  BY <1>2, NextUnique
<1> QED
  BY <1>1, <1>2, <1>3 DEF Picked

LEMMA CoveredStep ==
  ASSUME Quiet, BudgetInv, [Next]_vars, NEW p \in Procs, \A q \in Procs : q = p
  PROVE  Covered(p)'
<1>0. QuietInv /\ StoredTypes /\ MemoryTypes /\ Covered(p) /\ SerialInv
  BY DEF BudgetInv, QuietInv, KeptInv, SerialInv, IntentInv, TypeInv, TypeOK
<1> USE DEF Covered, Goto
<1>1. ASSUME Recover(p) PROVE Covered(p)'
  <2>1. claims' = Backed /\ Backed' = Backed /\ pc'[p] = "snapshot"
    BY <1>0, <1>1 DEF Recover, RecoverClaims, Backed, Supported, MemoryTypes
  <2> QED
    BY <2>1
<1>2. ASSUME Snapshot(p) PROVE Covered(p)'
  <2>1. claims' = claims /\ Backed' = Backed /\ pc'[p] = "allocate"
    BY <1>0, <1>2 DEF Snapshot, stored, Backed, Supported, MemoryTypes
  <2> QED
    BY <1>0, <1>2, <2>1 DEF Snapshot
<1>3. ASSUME Allocate(p) PROVE Covered(p)'
  BY <1>0, <1>3 DEF Allocate, Picked, MemoryTypes
<1>4. ASSUME LeaseRefused(p) PROVE Covered(p)'
  BY <1>0, <1>4, RefusedCovered DEF LeaseRefused
<1>5. ASSUME ResolutionRequired(p) PROVE Covered(p)'
  BY <1>0, <1>5 DEF ResolutionRequired, Picked, MemoryTypes
<1>6. ASSUME Acquire(p) \/ Persist(p) PROVE Covered(p)'
  <2>1. /\ claims' = claims /\ pc'[p] \in {"acquire", "persist"}
        /\ pc[p] \in {"acquire", "persist"} /\ ~Snapshot(p)
    BY <1>0, <1>6 DEF Acquire, Persist, Snapshot, MemoryTypes
  <2>2. Picked(p)' \subseteq Picked(p)
    <3>1. CASE Acquire(p)
      <4>1. PICK k \in batch[p], j \in Keys :
                 /\ Numbered(k, j) /\ Take(p, j)
                 /\ batch' = [batch EXCEPT ![p] = @ \ {k}]
        BY <3>1 DEF Acquire
      <4>2. cur'[p][1] = k[1] /\ batch'[p] \subseteq batch[p]
        BY <1>0, <4>1 DEF Take, Numbered, MemoryTypes
      <4> QED
        BY <4>2 DEF Picked
    <3>2. CASE Persist(p)
      BY <1>0, <3>2 DEF Persist, Picked, MemoryTypes
    <3> QED
      BY <1>6, <3>1, <3>2
  <2> QED
    BY <1>0, <2>1, <2>2
<1>7. ASSUME Schedule(p), ~Recover(p), ~Snapshot(p), ~Allocate(p), ~Acquire(p),
             ~LeaseRefused(p), ~ResolutionRequired(p), ~Persist(p)
      PROVE  pc'[p] \notin {"snapshot", "allocate", "acquire", "persist"}
  <2>1. ~PersistAgain(p)
    BY <1>0, NextUnborn DEF PersistAgain, SerialInv, Serial, Persisting,
       IntentInv, TypeInv, HasKey, Working
  <2> QED
    BY <1>0, <1>7, <2>1 DEF Schedule, Guard, PersistRefused, Collect, Forget,
       MemoryTypes
<1>8. ASSUME Relay(p)
      PROVE  pc'[p] \notin {"snapshot", "allocate", "acquire", "persist"}
  BY <1>0, <1>8, QuietSteps DEF Relay, RouteFound, RouteMissing,
     RouteNotEmitted, RouteUnavailable, RouteCreate, Emit, Invoke,
     InvokeBlocked, Ingest, Block, TickEnd, SyncEnd, CycleEnd, NextKey,
     Forget, MemoryTypes
<1>9. ASSUME \/ ReadHandoffs(p) \/ DriveBegin(p) \/ Crash(p)
             \/ Pause(p) \/ Resume(p) \/ CancelRun(p)
             \/ \E t \in Tasks : CancelTask(p, t)
      PROVE  pc'[p] \notin {"snapshot", "allocate", "acquire", "persist"}
  BY <1>0, <1>9 DEF ReadHandoffs, Monitor, ReadHandoff, MonitorEnd,
     AcceptCompleted, AcceptRejected, AcceptBlocked, Accepted, Record,
     DriveBegin, Crash, Pause, Resume, CancelRun, CancelTask, Issue, Forget,
     MemoryTypes, memory
<1>10. ASSUME \/ \E t \in Tasks : ExpireLease(t)
              \/ \E k \in Keys : Finish(k)
              \/ UNCHANGED vars
       PROVE  Covered(p)'
  <2>1. UNCHANGED <<pc, cur, batch, claims, taskState, attempt, outbox>>
        /\ lease' \subseteq lease
    BY <1>10 DEF ExpireLease, Finish, vars, memory, stored
  <2>2. Backed' \subseteq Backed /\ Picked(p)' = Picked(p)
    BY <2>1 DEF Backed, Supported, Picked
  <2> QED
    BY <1>0, <2>1, <2>2
<1>11. pc'[p] \notin {"snapshot", "allocate", "acquire", "persist"} => Covered(p)'
  OBVIOUS
<1> QED
  BY <1>0, <1>1, <1>2, <1>3, <1>4, <1>5, <1>6, <1>7, <1>8, <1>9, <1>10, <1>11,
     QuietSteps DEF Next, Continue, Command

\* As many tasks as keys get a claim, or fewer.
LEMMA TasksOfKeys ==
  ASSUME NEW G, IsFiniteSet(G)
  PROVE  /\ IsFiniteSet({k[1] : k \in G})
         /\ Cardinality({k[1] : k \in G}) <= Cardinality(G)
<1> DEFINE T == {k[1] : k \in G}
           f == [k \in G |-> k[1]]
<1>1. f \in [G -> T] /\ \A t \in T : \E k \in G : f[k] = t
  OBVIOUS
<1>2. f \in Surjection(G, T)
  BY <1>1 DEF Surjection
<1> HIDE DEF T, f
<1>3. IsFiniteSet(T) /\ Cardinality(T) <= Cardinality(G)
  BY <1>2, FS_Surjection
<1> QED
  BY <1>3 DEF T

\* The allocation starts from claims that cover every supported task, and
\* adds no more than the budget leaves.
LEMMA AllocateHeld ==
  ASSUME BudgetInv, NEW p \in Procs, Allocate(p)
  PROVE  HeldInBudget'
<1>0. /\ StoredTypes /\ MemoryTypes /\ Backed \subseteq claims
      /\ Cardinality(claims \union Backed) <= Budget /\ Budget \in Nat
  BY ConstantTypes DEF BudgetInv, HeldInBudget, Covered, Allocate, QuietInv,
     KeptInv, SerialInv, IntentInv, TypeInv, TypeOK
<1>1. claims \union Backed = claims /\ Backed' = Backed
  BY <1>0 DEF Allocate, Backed, Supported
<1>2. PICK G \in SUBSET batch[p] :
        /\ Cardinality(G) <= Room
        /\ claims' = claims \union {k[1] : k \in G}
  BY DEF Allocate
<1> DEFINE T == {k[1] : k \in G}
<1>3. IsFiniteSet(claims) /\ Cardinality(claims) \in Nat
  BY <1>0, TasksAreFinite, FS_Subset, FS_CardinalityType DEF StoredTypes
<1>4. IsFiniteSet(G)
  <2>1. IsFiniteSet(1 .. MaxAttempts)
    BY FS_Interval, ConstantTypes
  <2>2. IsFiniteSet(Keys)
    BY <2>1, TasksAreFinite, FS_Product DEF Keys
  <2>3. G \subseteq Keys
    BY <1>0 DEF MemoryTypes, KeySet
  <2> QED
    BY <2>2, <2>3, FS_Subset
<1>5. IsFiniteSet(T) /\ Cardinality(T) <= Cardinality(G)
  BY <1>4, TasksOfKeys
<1> HIDE DEF T
<1>6. /\ Cardinality(T) \in Nat /\ Cardinality(G) \in Nat
      /\ Cardinality(claims \intersect T) \in Nat
  BY <1>3, <1>4, <1>5, FS_CardinalityType, FS_Intersection
<1>7. Cardinality(claims \union T)
        = Cardinality(claims) + Cardinality(T) - Cardinality(claims \intersect T)
  BY <1>3, <1>5, FS_Union
<1>8. Cardinality(claims) <= Budget /\ Room = Budget - Cardinality(claims)
  BY <1>0, <1>1, <1>3 DEF Room
<1>9. Cardinality(claims \union T) <= Budget
  BY <1>0, <1>2, <1>3, <1>5, <1>6, <1>7, <1>8
<1>10. claims' \union Backed' = claims \union T
  BY <1>0, <1>1, <1>2 DEF T
<1> QED
  BY <1>9, <1>10 DEF HeldInBudget

LEMMA HeldStep ==
  ASSUME Quiet, BudgetInv, [Next]_vars
  PROVE  HeldInBudget'
<1>1. CASE \A p \in Procs : ~Allocate(p)
  <2> DEFINE H == claims \union Backed
             I == claims' \union Backed'
  <2>1. I \subseteq H
    BY <1>1, ClaimsStep, BackedKept DEF BackedStep
  <2>2. H \subseteq Tasks
    BY DEF Backed, BudgetInv, QuietInv, KeptInv, SerialInv, IntentInv, TypeInv,
           TypeOK, StoredTypes
  <2>3. Cardinality(H) <= Budget
    BY DEF BudgetInv, HeldInBudget
  <2> HIDE DEF H, I
  <2>4. IsFiniteSet(H) /\ IsFiniteSet(I) /\ Cardinality(I) <= Cardinality(H)
    BY <2>1, <2>2, TasksAreFinite, FS_Subset
  <2>5. Cardinality(H) \in Nat /\ Cardinality(I) \in Nat /\ Budget \in Nat
    BY <2>4, FS_CardinalityType, ConstantTypes
  <2>6. Cardinality(I) <= Budget
    BY <2>3, <2>4, <2>5
  <2> QED
    BY <2>6 DEF I, HeldInBudget
<1> QED
  BY <1>1, AllocateHeld

\* While nothing is retried and no operator feeds in receipts, no more
\* top-level claims are active than the budget of the run allows, through every
\* recovery that rebuilds them, every crash and every lease that runs out.
THEOREM BudgetHeld ==
  ASSUME \A p, q \in Procs : p = q, Quiet
  PROVE  Spec => []ClaimsWithinBudget
<1>1. Init => BudgetInv
  <2>1. ASSUME Init
        PROVE  claims \union Backed = {} /\ \A p \in Procs : Covered(p)
    BY <2>1 DEF Init, Backed, Supported, KeysOf, Executing, LiveAttempt, Covered
  <2>2. Cardinality({}) <= Budget
    BY FS_EmptySet, ConstantTypes
  <2> QED
    BY <2>1, <2>2, InitQuiet DEF BudgetInv, HeldInBudget
<1>2. BudgetInv /\ [Next]_vars => BudgetInv'
  <2> SUFFICES ASSUME BudgetInv, [Next]_vars PROVE BudgetInv'
    OBVIOUS
  <2>1. \A p \in Procs : Covered(p)'
    BY CoveredStep
  <2> QED
    BY <2>1, NextQuiet, HeldStep DEF BudgetInv
<1>3. BudgetInv => ClaimsWithinBudget
  <2> SUFFICES ASSUME BudgetInv PROVE ClaimsWithinBudget
    OBVIOUS
  <2> DEFINE H == claims \union Backed
  <2>1. claims \subseteq H /\ H \subseteq Tasks
    BY DEF Backed, BudgetInv, QuietInv, KeptInv, SerialInv, IntentInv, TypeInv,
           TypeOK, StoredTypes
  <2>2. Cardinality(H) <= Budget
    BY DEF BudgetInv, HeldInBudget
  <2> HIDE DEF H
  <2>3. IsFiniteSet(H) /\ IsFiniteSet(claims)
        /\ Cardinality(claims) <= Cardinality(H)
    BY <2>1, TasksAreFinite, FS_Subset
  <2>4. Cardinality(H) \in Nat /\ Cardinality(claims) \in Nat /\ Budget \in Nat
    BY <2>3, FS_CardinalityType, ConstantTypes
  <2>5. Cardinality(claims) <= Budget
    BY <2>2, <2>3, <2>4
  <2> QED
    BY <2>5 DEF ClaimsWithinBudget
<1> QED
  BY <1>1, <1>2, <1>3, PTL DEF Spec

=============================================================================
