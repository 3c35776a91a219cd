------------------------------ MODULE Dispatch ------------------------------
(***************************************************************************)
(* One run of All in Luna, from a ready task to its accepted handoff.      *)
(*                                                                         *)
(* The SQLite store is the only authority: runs, tasks, task_attempts,     *)
(* dispatch_outbox, host_receipts, leases, resource_claims, task_exports   *)
(* and driver_handoffs are the variables of "stored".  Every CLI command   *)
(* or driver is a process with a connection of its own; what it holds in   *)
(* Python objects is "memory" and dies with it.  Each action is one        *)
(* BEGIN IMMEDIATE transaction (or one read), so processes interleave      *)
(* exactly where the code lets them.                                       *)
(*                                                                         *)
(* The process "drive" cycle is CoordinatorDriver.tick: it runs the engine *)
(* tick (recover claims, schedule, dispatch), reads handoffs, reconciles   *)
(* the outbox and schedules and dispatches once more.                      *)
(***************************************************************************)
EXTENDS Naturals, FiniteSets

CONSTANTS
  Tasks,          \* top-level tasks of the run
  Procs,          \* processes that share the database
  Deps,           \* Deps[t]: pairs <<upstream, kind of condition>>
  Owns,           \* Owns[t]: the declared write paths of t
  Overlaps,       \* pairs of paths whose globs overlap (policy.overlaps)
  RowOverlaps,    \* pairs of paths whose rendered task_ownership rows overlap
  Wildcards,      \* declared paths that are a bare wildcard
  Required,       \* tasks whose completion the run requires
  Unroutable,     \* tasks whose project or model does not resolve
  Budget,         \* ResourceBroker.top_level_budget
  MaxBacklog,     \* policy max_outbox_backlog
  Commands,       \* operator commands that may be issued
  HostReplies,    \* what creating a host thread may answer
  HostStatuses,   \* statuses the host may report about a created thread
  HostLooksUp,    \* whether the host can be asked for a thread it has: the
                  \* HostAdapter protocol has no such method, and neither
                  \* CodexAppHost nor NativeSubagentHost provides one
  HandoffStatuses,\* statuses of the handoff a thread may publish
  Verdicts,       \* possible outcomes of HandoffProcessor.verify
  Assurances,     \* possible outcomes of ResourceBroker.assess_route
  Telemetry,      \* whether a receipt may carry resolved resource telemetry
  MaxAttempts,    \* bound: attempts per task
  MaxCrashes,     \* bound: process crashes
  NoKey           \* "no dispatch key", a model value

DepKinds == {"completed", "exports", "any_export"}

RunStates == {"created", "active", "paused", "blocked", "completed",
              "cancelled", "aborted"}

TaskStates == {"proposed", "ready", "dispatching", "active", "waiting",
               "verifying", "blocked", "completed", "superseded",
               "cancelled"}

AttemptStates == {"none", "created", "dispatched", "acknowledged", "active",
                  "handoff_ready", "closed", "failed", "lost"}

OutboxStates == {"none", "pending", "emitted", "acknowledged",
                 "reconciled", "failed"}

\* A receipt without a thread id is normalised to "pending" (the host named a
\* client id) or "unresolved"; every other status comes with a thread id.
ThreadStatuses == {"active", "handoff_ready", "closed", "failed", "lost"}
Statuses == {"pending", "unresolved"} \union ThreadStatuses

\* A dispatch key digests the task and the attempt number.
Keys == Tasks \X (1 .. MaxAttempts)

ASSUME ConstantTypes ==
  /\ Deps \in [Tasks -> SUBSET (Tasks \X DepKinds)]
  /\ Required \subseteq Tasks /\ Unroutable \subseteq Tasks
  /\ Budget \in Nat /\ MaxBacklog \in Nat
  /\ HostReplies \subseteq Statuses \union {"none", "bad"}
  /\ HostStatuses \subseteq Statuses \ {"unresolved"}
  /\ HostLooksUp \in BOOLEAN
  /\ HandoffStatuses \subseteq {"completed", "blocked", "failed"}
  /\ Verdicts \subseteq BOOLEAN /\ Assurances \subseteq BOOLEAN
  /\ Telemetry \subseteq BOOLEAN
  /\ MaxAttempts \in Nat /\ MaxCrashes \in Nat
  /\ NoKey \notin Tasks \X Nat

\* The tasks of a run are rows of one database.
ASSUME TasksAreFinite == IsFiniteSet(Tasks)

VARIABLES
  runState, taskState, attempt, outbox, receipt, measured, thread, lease,
  claims, exported, recorded,           \* the database
  host, finished,               \* the host: threads created, their handoffs
  pc, stage, batch, queue, cur, reply, memo,   \* each process
  crashes

stored == <<runState, taskState, attempt, outbox, receipt, measured, thread,
            lease, claims, exported, recorded>>
world  == <<host, finished>>
memory == <<pc, stage, batch, queue, cur, reply, memo>>
vars   == <<stored, world, memory, crashes>>

-----------------------------------------------------------------------------
(* Store helpers *)

LiveAttempt == {"created", "dispatched", "acknowledged", "active",
                "handoff_ready"}
Executing   == {"dispatching", "active", "waiting", "verifying"}

\* Mutant: a completed task counts as unfinished.
CalledOff == {"cancelled", "superseded"}
Terminal  == {"completed", "cancelled", "superseded"}

KeysOf(t) == {k \in Keys : k[1] = t}

\* Mutant: a failed row is handed out again.
PendingOrFailed == {k \in Keys : outbox[k] \in {"pending", "emitted", "failed"}}
\* Mutant: only rows that were emitted are handed out.
PendingEmitted == {k \in Keys : outbox[k] = "emitted"}

\* pending_outbox: the durable actions the host has not acknowledged.
Pending == {k \in Keys : outbox[k] \in {"pending", "emitted"}}

\* k carries the number SELECT MAX(attempt_no) + 1 yields for its task.
IsNext(k) ==
  /\ \A j \in KeysOf(k[1]) : attempt[j] # "none" => j[2] < k[2]
  /\ k[2] > 1 => attempt[<<k[1], k[2] - 1>>] # "none"

\* The lease test: two write sets have a string in common.
SamePath(t, u) == Owns[t] \intersect Owns[u] # {}

\* What the write sets mean: a file that both declare.
Conflict(t, u) ==
  SamePath(t, u) \/ \E x \in Owns[t], y \in Owns[u] : <<x, y>> \in Overlaps

\* The scheduler's filter compares whole ownership rows, {path, access, source}
\* rendered as a string, and not their paths: with each other for two ready
\* tasks, and with the plain path of an active lease, which a row overlaps only
\* when that path matches any text.
RowConflict(t, u) == \E x \in Owns[t], y \in Owns[u] : <<x, y>> \in RowOverlaps
LeaseConflict(t, u) == Owns[t] # {} /\ Owns[u] \intersect Wildcards # {}

\* Facts that justify holding a top-level slot.
Supported(t) ==
  \/ taskState[t] \in Executing
  \/ \E k \in KeysOf(t) : attempt[k] \in LiveAttempt
  \/ \E k \in KeysOf(t) : outbox[k] \in {"pending", "emitted"}
  \/ t \in lease

\* Mutant: a consumer starts as soon as its producer runs.
DependencyStarted(d) == taskState[d[1]] \in Executing \union {"completed"}

DependencyReady(d) ==
  LET up == d[1] IN
  \/ d[2] = "completed"  /\ taskState[up] = "completed"
  \/ d[2] = "exports"    /\ taskState[up] \in {"verifying", "completed"}
                         /\ up \in exported
  \/ d[2] = "any_export" /\ taskState[up] \in {"verifying", "completed"}

ReadyTasks == {t \in Tasks : /\ taskState[t] \in {"proposed", "ready"}
                             /\ \A d \in Deps[t] : DependencyReady(d)}

\* The states of t's attempts in "from" become "to".
AttemptsOf(t, from, to) ==
  [k \in Keys |-> IF k[1] = t /\ attempt[k] \in from THEN to ELSE attempt[k]]

Goto(p, label) == pc' = [pc EXCEPT ![p] = label]

\* The process drops everything it remembered and is idle again.
Forget(p) ==
  /\ Goto(p, "idle")
  /\ stage' = [stage EXCEPT ![p] = "tick"]
  /\ batch' = [batch EXCEPT ![p] = {}]
  /\ queue' = [queue EXCEPT ![p] = {}]
  /\ cur'   = [cur EXCEPT ![p] = NoKey]
  /\ reply' = [reply EXCEPT ![p] = "none"]
  /\ memo'  = [memo EXCEPT ![p] = "proposed"]

\* The current dispatch key is dealt with; on to the next of the queue.
NextKey(p) ==
  /\ Goto(p, "route")
  /\ queue' = [queue EXCEPT ![p] = @ \ {cur[p]}]
  /\ cur'   = [cur EXCEPT ![p] = NoKey]
  /\ reply' = [reply EXCEPT ![p] = "none"]
  /\ UNCHANGED <<stage, batch, memo>>

Take(p, k) == cur' = [cur EXCEPT ![p] = k]

-----------------------------------------------------------------------------
(* Store transactions that several handlers share *)

\* ingest_receipt keeps the row it has unless the new status is progress, the
\* new receipt is the first to name the thread, or the first with telemetry.
Progress(k, s, m) ==
  \/ receipt[k] = "none"
  \/ receipt[k] = "pending" /\ s # "pending"
  \/ receipt[k] = "active" /\ s \in ThreadStatuses \ {"active"}
  \/ s \in ThreadStatuses /\ k \notin thread
  \/ m /\ k \notin measured

\* Mutant: the receipt status itself is stored.
ProjectedVerbatim(s, current) == s

\* The attempt state a stored receipt status stands for.
Projected(s, current) ==
  CASE s = "pending"                    -> current
    [] s \in ThreadStatuses \ {"active"} -> s
    [] OTHER -> IF current \in {"created", "dispatched", "acknowledged"}
                THEN "active" ELSE current

IngestReceipt(k, s, m) ==
  LET t  == k[1]
      to == Projected(s, attempt[k]) IN
  \/ /\ ~Progress(k, s, m)
     /\ UNCHANGED stored
  \/ /\ Progress(k, s, m)
     /\ receipt'  = [receipt EXCEPT ![k] = s]
     /\ measured' = IF m THEN measured \union {k} ELSE measured
     /\ thread'   = IF s \in ThreadStatuses THEN thread \union {k} ELSE thread
     /\ attempt'  = [attempt EXCEPT ![k] = to]
     /\ claims'   = IF to \in {"closed", "failed", "lost"}
                    THEN claims \ {t} ELSE claims
     /\ taskState' = [taskState EXCEPT ![t] =
          IF to = "active" /\ @ \in {"dispatching", "ready", "proposed"}
          THEN "active"
          ELSE IF /\ to = "handoff_ready"
                  /\ @ \in {"dispatching", "active", "waiting"}
               THEN "verifying" ELSE @]
     /\ outbox' = [outbox EXCEPT ![k] =
          IF @ \in {"pending", "emitted"} THEN "acknowledged" ELSE @]
     /\ UNCHANGED <<runState, lease, exported, recorded>>

\* _repair_receipt_projection: the stored receipt is replayed over the attempt
\* whatever state that attempt is in by now.
Repair(k) ==
  LET t == k[1] IN
  \/ /\ receipt[k] \in {"pending", "unresolved"}
     /\ UNCHANGED stored
  \/ /\ receipt[k] \in ThreadStatuses
     /\ attempt' = [attempt EXCEPT ![k] = receipt[k]]
     /\ taskState' = [taskState EXCEPT ![t] =
          IF @ = "dispatching" /\ receipt[k] = "active" THEN "active"
          ELSE IF @ = "dispatching" /\ receipt[k] = "handoff_ready"
               THEN "verifying" ELSE @]
     /\ outbox' = [outbox EXCEPT ![k] =
          IF @ \in {"pending", "emitted"} THEN "acknowledged" ELSE @]
     /\ UNCHANGED <<runState, receipt, measured, thread, lease, claims,
                    exported, recorded>>

\* _record_top_level_blocker
RecordBlocker(k) ==
  LET t == k[1] IN
  /\ attempt' = [attempt EXCEPT ![k] =
       IF @ \in LiveAttempt THEN "failed" ELSE @]
  /\ taskState' = [taskState EXCEPT ![t] =
       IF @ \in Executing \union {"ready", "proposed"} THEN "blocked" ELSE @]
  /\ outbox' = [outbox EXCEPT ![k] = "failed"]
  /\ lease'  = lease \ {t}
  /\ claims' = claims \ {t}
  /\ UNCHANGED <<runState, receipt, measured, thread, exported, recorded>>

\* reconcile_resource_claims: claims are exactly the supported tasks again.
RecoverClaims == claims' = {t \in Tasks : Supported(t)}

\* Mutant: tasks the run does not require are not waited for.
RunIsDoneEarly ==
  /\ runState \in {"active", "paused", "blocked"}
  /\ \A t \in Required : taskState[t] = "completed"

RunIsDone ==
  /\ Tasks # {}
  /\ runState \in {"active", "paused", "blocked"}
  /\ \A t \in Tasks : taskState[t] \in Terminal
  /\ \A t \in Required : taskState[t] = "completed"

CompleteRunIfReady == runState' = IF RunIsDone THEN "completed" ELSE runState

-----------------------------------------------------------------------------
Init ==
  /\ runState = "created"
  /\ taskState = [t \in Tasks |-> "proposed"]
  /\ attempt = [k \in Keys |-> "none"]
  /\ outbox  = [k \in Keys |-> "none"]
  /\ receipt = [k \in Keys |-> "none"]
  /\ measured = {} /\ thread = {} /\ lease = {} /\ claims = {}
  /\ exported = {} /\ recorded = {}
  /\ host     = [k \in Keys |-> 0]
  /\ finished = [k \in Keys |-> "none"]
  /\ pc    = [p \in Procs |-> "idle"]
  /\ stage = [p \in Procs |-> "tick"]
  /\ batch = [p \in Procs |-> {}]
  /\ queue = [p \in Procs |-> {}]
  /\ cur   = [p \in Procs |-> NoKey]
  /\ reply = [p \in Procs |-> "none"]
  /\ memo  = [p \in Procs |-> "proposed"]
  /\ crashes = 0

-----------------------------------------------------------------------------
(* CoordinatorDriver.tick and CoordinatorEngine.tick *)

\* A boundary stops the drive; a paused run is not one.
AtBoundary ==
  \/ runState \in {"completed", "cancelled", "blocked", "aborted"}
  \/ /\ \A t \in Tasks : taskState[t] \notin Executing \union {"ready"}
     /\ ReadyTasks = {}
     /\ \E t \in Tasks : taskState[t] = "blocked"

DriveBegin(p) ==
  /\ pc[p] = "idle"
  /\ ~AtBoundary
  /\ Goto(p, "guard")
  /\ UNCHANGED <<stored, world, crashes, stage, batch, queue, cur, reply, memo>>

\* engine.tick recovers the claims, then returns early unless the run is on.
Guard(p) ==
  /\ pc[p] = "guard"
  /\ RecoverClaims
  /\ Goto(p, IF runState \in {"paused", "cancelled", "aborted", "completed"}
             THEN "monitor" ELSE "recover")
  /\ UNCHANGED <<runState, taskState, attempt, outbox, receipt, measured,
                 thread, lease, exported, recorded, world, crashes,
                 stage, batch, queue, cur, reply, memo>>

-----------------------------------------------------------------------------
(* GlobalScheduler.step *)

Recover(p) ==
  /\ pc[p] = "recover"
  /\ RecoverClaims
  /\ runState' = IF runState = "created" THEN "active" ELSE runState
  /\ Goto(p, "snapshot")
  /\ UNCHANGED <<taskState, attempt, outbox, receipt, measured, thread, lease,
                 exported, recorded, world, crashes,
                 stage, batch, queue, cur, reply, memo>>

\* filter_ownership_conflicts keeps, in score order, every ready task that
\* conflicts neither with an active lease nor with a task kept before it: some
\* maximal conflict-free set.
Kept(S) ==
  LET Free == {t \in ReadyTasks : \A u \in lease : ~LeaseConflict(t, u)} IN
  /\ S \subseteq Free
  /\ \A t, u \in S : t # u => ~RowConflict(t, u)
  /\ \A t \in Free \ S : \E u \in S : RowConflict(t, u)

\* The step's view of the store; an outbox backlog at its limit empties it.
Snapshot(p) ==
  /\ pc[p] = "snapshot"
  /\ \E S \in SUBSET Tasks :
       /\ Kept(S)
       /\ batch' = [batch EXCEPT ![p] =
            IF Cardinality(Pending) >= MaxBacklog THEN {}
            ELSE {k \in Keys : k[1] \in S /\ IsNext(k)}]
  /\ Goto(p, "allocate")
  /\ UNCHANGED <<stored, world, crashes, stage, queue, cur, reply, memo>>

\* Mutant: the claims that are already active are not counted.
RoomUncounted == Budget

Room == IF Budget > Cardinality(claims) THEN Budget - Cardinality(claims) ELSE 0

\* claim_resources: a candidate that holds a claim already gets none; the
\* others get one, in order, while the budget lasts.
Allocate(p) ==
  LET fresh == {k \in batch[p] : k[1] \notin claims} IN
  /\ pc[p] = "allocate"
  /\ \E G \in SUBSET fresh :
       /\ Cardinality(G) <= Room
       /\ Cardinality(G) = Room \/ G = fresh
       /\ batch'  = [batch EXCEPT ![p] = G]
       /\ claims' = claims \union {k[1] : k \in G}
  /\ Goto(p, "acquire")
  /\ UNCHANGED <<runState, taskState, attempt, outbox, receipt, measured,
                 thread, lease, exported, recorded, world, crashes,
                 stage, queue, cur, reply, memo>>

\* Mutant: nobody looks at the other leases.
LeaseUnchecked(t) == TRUE

LeaseFree(t) == \A u \in lease : ~SamePath(t, u)

\* The attempt number comes from the snapshot; a task that had no attempt there
\* is looked up again when its action is built.
Numbered(k, j) == j[1] = k[1] /\ IF k[2] = 1 THEN IsNext(j) ELSE j = k

\* acquire_lease; the task row persist_dispatch_intent relies on is read now,
\* before that transaction begins.
Acquire(p) ==
  /\ pc[p] = "acquire"
  /\ \E k \in batch[p], j \in Keys :
       /\ LeaseFree(k[1])
       /\ k[1] \notin Unroutable
       /\ Numbered(k, j)
       /\ lease' = lease \union {k[1]}
       /\ memo'  = [memo EXCEPT ![p] = taskState[k[1]]]
       /\ batch' = [batch EXCEPT ![p] = @ \ {k}]
       /\ Take(p, j)
  /\ Goto(p, "persist")
  /\ UNCHANGED <<runState, taskState, attempt, outbox, receipt, measured,
                 thread, claims, exported, recorded, world, crashes,
                 stage, queue, reply>>

LeaseRefused(p) ==
  /\ pc[p] = "acquire"
  /\ \E k \in batch[p] :
       /\ ~LeaseFree(k[1])
       /\ claims' = claims \ {k[1]}
       /\ batch'  = [batch EXCEPT ![p] = @ \ {k}]
  /\ UNCHANGED <<runState, taskState, attempt, outbox, receipt, measured,
                 thread, lease, exported, recorded, world, crashes,
                 pc, stage, queue, cur, reply, memo>>

\* The action factory answers with a resolution request: lease and claim are
\* given back and the loop is left, the other allocations keep their claims.
ResolutionRequired(p) ==
  /\ pc[p] = "acquire"
  /\ \E k \in batch[p] :
       /\ LeaseFree(k[1])
       /\ k[1] \in Unroutable
       /\ claims' = claims \ {k[1]}
  /\ batch' = [batch EXCEPT ![p] = {}]
  /\ UNCHANGED <<runState, taskState, attempt, outbox, receipt, measured,
                 thread, lease, exported, recorded, world, crashes,
                 pc, stage, queue, cur, reply, memo>>

\* persist_dispatch_intent on the task row read before the transaction.
Persist(p) ==
  LET k == cur[p]
      t == k[1]
      from == {"ready", "dispatching"}
              \union IF memo[p] = "proposed" THEN {"proposed"} ELSE {} IN
  /\ pc[p] = "persist"
  /\ attempt[k] = "none"
  /\ memo[p] \in {"proposed", "ready"}
  /\ attempt' = [attempt EXCEPT ![k] = "dispatched"]
  /\ outbox'  = [outbox EXCEPT ![k] = "pending"]
  /\ taskState' = [taskState EXCEPT ![t] =
       IF @ \in from THEN "dispatching" ELSE @]
  /\ queue' = [queue EXCEPT ![p] = @ \union {k}]
  /\ Take(p, NoKey)
  /\ Goto(p, "acquire")
  /\ UNCHANGED <<runState, receipt, measured, thread, lease, claims, exported,
                 recorded, world, crashes, stage, batch, reply, memo>>

\* The key exists already: the call is idempotent and the action goes on.
PersistAgain(p) ==
  /\ pc[p] = "persist"
  /\ attempt[cur[p]] # "none"
  /\ queue' = [queue EXCEPT ![p] = @ \union {cur[p]}]
  /\ Take(p, NoKey)
  /\ Goto(p, "acquire")
  /\ UNCHANGED <<stored, world, crashes, stage, batch, reply, memo>>

\* The transition is refused and the exception ends the whole cycle.
PersistRefused(p) ==
  /\ pc[p] = "persist"
  /\ attempt[cur[p]] = "none"
  /\ memo[p] \notin {"proposed", "ready"}
  /\ Forget(p)
  /\ UNCHANGED <<stored, world, crashes>>

\* The step also returns every durable action not acknowledged yet.
\* engine.reconcile completes the run here, before its actions are dispatched.
Collect(p) ==
  /\ pc[p] = "acquire"
  /\ batch[p] = {}
  /\ queue' = [queue EXCEPT ![p] = @ \union Pending]
  /\ IF stage[p] = "redo" THEN CompleteRunIfReady ELSE UNCHANGED runState
  /\ Goto(p, "route")
  /\ UNCHANGED <<taskState, attempt, outbox, receipt, measured, thread, lease,
                 claims, exported, recorded, world, crashes,
                 stage, batch, cur, reply, memo>>

-----------------------------------------------------------------------------
(* ActionBridge.dispatch and, in the "sync" stage, ActionBridge.reconcile *)

\* A durable receipt exists: only its projection is repaired.
RouteKnown(p) ==
  /\ pc[p] = "route"
  /\ \E k \in queue[p] :
       /\ receipt[k] # "none"
       /\ Repair(k)
       /\ queue' = [queue EXCEPT ![p] = @ \ {k}]
  /\ UNCHANGED <<world, crashes, pc, stage, batch, cur, reply, memo>>

\* An emitted intent may have crossed the host boundary: a host that has a
\* lookup is asked for the thread it has, and asked for nothing new.
RouteFound(p) ==
  /\ pc[p] = "route"
  /\ HostLooksUp
  /\ \E k \in queue[p], s \in HostStatuses :
       /\ receipt[k] = "none"
       /\ outbox[k] = "emitted"
       /\ host[k] > 0
       /\ Take(p, k)
       /\ reply' = [reply EXCEPT ![p] = s]
  /\ Goto(p, "ingest")
  /\ UNCHANGED <<stored, world, crashes, stage, batch, queue, memo>>

\* The host knows no thread, shows nothing, or has none of the three lookups:
\* the row is reported as unresolved and stays as it is.
RouteMissing(p) ==
  /\ pc[p] = "route"
  /\ \E k \in queue[p] :
       /\ receipt[k] = "none"
       /\ outbox[k] = "emitted"
       /\ host[k] = 0 \/ "none" \in HostReplies \/ ~HostLooksUp
       /\ queue' = [queue EXCEPT ![p] = @ \ {k}]
  /\ UNCHANGED <<stored, world, crashes, pc, stage, batch, cur, reply, memo>>

\* reconcile alone leaves an intent that was never emitted.
RouteNotEmitted(p) ==
  /\ pc[p] = "route"
  /\ stage[p] = "sync"
  /\ \E k \in queue[p] :
       /\ receipt[k] = "none"
       /\ outbox[k] # "emitted"
       /\ queue' = [queue EXCEPT ![p] = @ \ {k}]
  /\ UNCHANGED <<stored, world, crashes, pc, stage, batch, cur, reply, memo>>

\* The host does not offer the exact tool the action names.
RouteUnavailable(p) ==
  /\ pc[p] = "route"
  /\ stage[p] # "sync"
  /\ "none" \in HostReplies
  /\ \E k \in queue[p] : receipt[k] = "none" /\ Take(p, k)
  /\ Goto(p, "block")
  /\ UNCHANGED <<stored, world, crashes, stage, batch, queue, reply, memo>>

RouteCreate(p) ==
  /\ pc[p] = "route"
  /\ stage[p] # "sync"
  /\ \E k \in queue[p] :
       /\ receipt[k] = "none"
       /\ outbox[k] # "emitted"
       /\ Take(p, k)
  /\ Goto(p, "emit")
  /\ UNCHANGED <<stored, world, crashes, stage, batch, queue, reply, memo>>

\* Mutant: the host is called before the row is marked.
EmitUnmarked(p) ==
  /\ pc[p] = "emit"
  /\ Goto(p, "invoke")
  /\ UNCHANGED <<stored, world, crashes, stage, batch, queue, cur, reply, memo>>

\* mark_outbox_emitted
Emit(p) ==
  /\ pc[p] = "emit"
  /\ outbox' = [outbox EXCEPT ![cur[p]] =
       IF @ \in {"pending", "emitted"} THEN "emitted" ELSE @]
  /\ Goto(p, "invoke")
  /\ UNCHANGED <<runState, taskState, attempt, receipt, measured, thread, lease,
                 claims, exported, recorded, world, crashes,
                 stage, batch, queue, cur, reply, memo>>

\* The host creates a thread and answers with a receipt ...
Invoke(p) ==
  /\ pc[p] = "invoke"
  /\ host' = [host EXCEPT ![cur[p]] = @ + 1]
  /\ \E r \in HostReplies \intersect Statuses :
       reply' = [reply EXCEPT ![p] = r]
  /\ Goto(p, "ingest")
  /\ UNCHANGED <<stored, finished, crashes, stage, batch, queue, cur, memo>>

\* ... or answers with one that breaks the action's contract ("bad"), or shows
\* no receipt at all ("none"), whether or not it made a thread.
InvokeBlocked(p) ==
  /\ pc[p] = "invoke"
  /\ \/ /\ HostReplies \intersect {"none", "bad"} # {}
        /\ host' = [host EXCEPT ![cur[p]] = @ + 1]
     \/ /\ "none" \in HostReplies
        /\ UNCHANGED host
  /\ Goto(p, "block")
  /\ UNCHANGED <<stored, finished, crashes,
                 stage, batch, queue, cur, reply, memo>>

\* ingest_receipt; the key is done with if the route assurance is met.
Ingest(p) ==
  /\ pc[p] = "ingest"
  /\ \E m \in Telemetry : IngestReceipt(cur[p], reply[p], m)
  /\ \/ /\ TRUE \in Assurances
        /\ NextKey(p)
     \/ /\ FALSE \in Assurances
        /\ Goto(p, "block")
        /\ UNCHANGED <<stage, batch, queue, cur, reply, memo>>
  /\ UNCHANGED <<world, crashes>>

Block(p) ==
  /\ pc[p] = "block"
  /\ RecordBlocker(cur[p])
  /\ NextKey(p)
  /\ UNCHANGED <<world, crashes>>

\* The queue is empty: after engine.tick the handoffs are read, after the
\* reconciliation the scheduler steps again, after that the cycle is over.
TickEnd(p) ==
  /\ pc[p] = "route" /\ queue[p] = {} /\ stage[p] = "tick"
  /\ CompleteRunIfReady
  /\ Goto(p, "monitor")
  /\ UNCHANGED <<taskState, attempt, outbox, receipt, measured, thread, lease,
                 claims, exported, recorded, world, crashes,
                 stage, batch, queue, cur, reply, memo>>

SyncEnd(p) ==
  /\ pc[p] = "route" /\ queue[p] = {} /\ stage[p] = "sync"
  /\ stage' = [stage EXCEPT ![p] = "redo"]
  /\ Goto(p, "recover")
  /\ UNCHANGED <<stored, world, crashes, batch, queue, cur, reply, memo>>

CycleEnd(p) ==
  /\ pc[p] = "route" /\ queue[p] = {} /\ stage[p] \in {"redo", "command"}
  /\ Forget(p)
  /\ UNCHANGED <<stored, world, crashes>>

-----------------------------------------------------------------------------
(* CoordinatorDriver: reading and accepting lane handoffs *)

\* Mutant: only threads whose receipt announced the handoff are read.
ObservedReady(k) ==
  attempt[k] = "handoff_ready" /\ finished[k] # "none" /\ k \notin recorded

\* A published handoff of a thread the driver watches and has not recorded.
Observed(k) ==
  /\ attempt[k] \in {"active", "handoff_ready"}
  /\ k \in thread
  /\ finished[k] # "none"
  /\ k \notin recorded

\* All threads are read before the first handoff is ingested.
Monitor(p) ==
  /\ pc[p] = "monitor"
  /\ queue' = [queue EXCEPT ![p] = {k \in Keys : Observed(k)}]
  /\ Goto(p, "handoffs")
  /\ UNCHANGED <<stored, world, crashes, stage, batch, cur, reply, memo>>

\* The handoff of a task that is completed by now is only recorded, one that
\* is recorded by now is skipped.
ReadHandoff(p) ==
  /\ pc[p] = "handoffs"
  /\ \E k \in queue[p] \ recorded :
       /\ queue' = [queue EXCEPT ![p] = @ \ {k}]
       /\ Take(p, k)
       /\ Goto(p, IF taskState[k[1]] = "completed" THEN "record" ELSE "accept")
  /\ UNCHANGED <<stored, world, crashes, stage, batch, reply, memo>>

\* Nothing (more) to ingest: engine.reconcile takes the durable actions.
MonitorEnd(p) ==
  /\ pc[p] = "handoffs"
  /\ queue[p] \subseteq recorded
  /\ stage' = [stage EXCEPT ![p] = "sync"]
  /\ queue' = [queue EXCEPT ![p] = Pending]
  /\ Goto(p, "route")
  /\ UNCHANGED <<stored, world, crashes, batch, cur, reply, memo>>

\* Mutant: only the acknowledged rows of a completed task are settled.
AcknowledgedSettled(t) ==
  [k \in Keys |-> IF k[1] = t /\ outbox[k] = "acknowledged"
                  THEN "reconciled" ELSE outbox[k]]

\* The rows of a completed task, those of its earlier attempts included.
OutboxSettled(t) ==
  [k \in Keys |->
     IF k[1] = t /\ outbox[k] \in {"pending", "emitted", "acknowledged"}
     THEN "reconciled" ELSE outbox[k]]

\* accept_handoff of a verified completion: one transaction.
AcceptCompleted(p) ==
  LET t == cur[p][1] IN
  /\ pc[p] = "accept"
  /\ finished[cur[p]] = "completed"
  /\ TRUE \in Verdicts
  /\ taskState[t] \in {"active", "verifying"}
  /\ taskState' = [taskState EXCEPT ![t] = "completed"]
  /\ exported' = exported \union {t}
  /\ attempt' = AttemptsOf(t, {"active", "handoff_ready", "acknowledged"},
                           "closed")
  /\ outbox' = OutboxSettled(t)
  /\ claims' = claims \ {t}
  /\ Goto(p, "accepted")
  /\ UNCHANGED <<runState, receipt, measured, thread, lease, recorded, world,
                 crashes, stage, batch, queue, cur, reply, memo>>

\* Verification fails or the task is in no state to complete: the exception is
\* caught by the driver, which records the handoff as rejected.
AcceptRejected(p) ==
  /\ pc[p] = "accept"
  /\ finished[cur[p]] = "completed"
  /\ \/ FALSE \in Verdicts
     \/ taskState[cur[p][1]] \notin {"active", "verifying"}
  /\ Goto(p, "record")
  /\ UNCHANGED <<stored, world, crashes, stage, batch, queue, cur, reply, memo>>

\* A blocked handoff blocks a running task; a failed one changes no state.
AcceptBlocked(p) ==
  LET t == cur[p][1] IN
  /\ pc[p] = "accept"
  /\ finished[cur[p]] \in {"blocked", "failed"}
  /\ taskState' = [taskState EXCEPT ![t] =
       IF /\ finished[cur[p]] = "blocked"
          /\ @ \in {"active", "waiting", "verifying"}
       THEN "blocked" ELSE @]
  /\ claims' = IF taskState'[t] = taskState[t] THEN claims ELSE claims \ {t}
  /\ Goto(p, "accepted")
  /\ UNCHANGED <<runState, attempt, outbox, receipt, measured, thread, lease,
                 exported, recorded, world, crashes,
                 stage, batch, queue, cur, reply, memo>>

\* The broker's release of the slot comes last, whatever the handoff said.
Accepted(p) ==
  /\ pc[p] = "accepted"
  /\ claims' = claims \ {cur[p][1]}
  /\ CompleteRunIfReady
  /\ Goto(p, "record")
  /\ UNCHANGED <<taskState, attempt, outbox, receipt, measured, thread, lease,
                 exported, recorded, world, crashes,
                 stage, batch, queue, cur, reply, memo>>

\* record_driver_handoff
Record(p) ==
  /\ pc[p] = "record"
  /\ recorded' = recorded \union {cur[p]}
  /\ Take(p, NoKey)
  /\ Goto(p, "handoffs")
  /\ UNCHANGED <<runState, taskState, attempt, outbox, receipt, measured,
                 thread, lease, claims, exported, world, crashes,
                 stage, batch, queue, reply, memo>>

-----------------------------------------------------------------------------
(* Operator commands *)

Issue(p, command) == pc[p] = "idle" /\ command \in Commands

Pause(p) ==
  /\ Issue(p, "pause") /\ runState = "active"
  /\ runState' = "paused"
  /\ UNCHANGED <<taskState, attempt, outbox, receipt, measured, thread, lease,
                 claims, exported, recorded, world, crashes, memory>>

Resume(p) ==
  /\ Issue(p, "resume") /\ runState \in {"created", "paused", "blocked"}
  /\ runState' = "active"
  /\ UNCHANGED <<taskState, attempt, outbox, receipt, measured, thread, lease,
                 claims, exported, recorded, world, crashes, memory>>

CancelRun(p) ==
  /\ Issue(p, "cancel") /\ runState \in {"active", "paused", "blocked"}
  /\ runState' = "cancelled"
  /\ UNCHANGED <<taskState, attempt, outbox, receipt, measured, thread, lease,
                 claims, exported, recorded, world, crashes, memory>>

CancelTask(p, t) ==
  /\ Issue(p, "cancel-task")
  /\ taskState[t] \in {"proposed", "ready", "blocked"}
  /\ taskState' = [taskState EXCEPT ![t] = "cancelled"]
  /\ claims' = claims \ {t}
  /\ UNCHANGED <<runState, attempt, outbox, receipt, measured, thread, lease,
                 exported, recorded, world, crashes, memory>>

\* retry reads the task, fails its attempts, and then, in a transaction of its
\* own, makes it ready again if it was not finished when it was read.
RetryBegin(p, t) ==
  /\ Issue(p, "retry")
  /\ \E k \in KeysOf(t) : IsNext(k)    \* the bound MaxAttempts
  /\ memo' = [memo EXCEPT ![p] = taskState[t]]
  /\ attempt' = AttemptsOf(t, {"dispatched", "acknowledged", "active"},
                           "failed")
  /\ Take(p, <<t, 0>>)
  /\ Goto(p, "retry")
  /\ UNCHANGED <<runState, taskState, outbox, receipt, measured, thread, lease,
                 claims, exported, recorded, world, crashes,
                 stage, batch, queue, reply>>

RetryEnd(p) ==
  LET t == cur[p][1] IN
  /\ pc[p] = "retry"
  /\ taskState' = [taskState EXCEPT ![t] =
       IF memo[p] \in Terminal THEN @ ELSE "ready"]
  /\ claims' = claims \ {t}
  /\ Forget(p)
  /\ UNCHANGED <<runState, attempt, outbox, receipt, measured, thread, lease,
                 exported, recorded, world, crashes>>

\* ingest-receipt of any observation of a thread the host created: late,
\* repeated or out of order.
IngestCommand(p, k) ==
  /\ Issue(p, "ingest-receipt")
  /\ attempt[k] # "none" /\ host[k] > 0
  /\ \E s \in HostStatuses : reply' = [reply EXCEPT ![p] = s]
  /\ stage' = [stage EXCEPT ![p] = "command"]
  /\ Take(p, k)
  /\ Goto(p, "ingest")
  /\ UNCHANGED <<stored, world, crashes, batch, queue, memo>>

-----------------------------------------------------------------------------
(* Crashes, time and the host *)

Crash(p) ==
  /\ pc[p] # "idle" /\ crashes < MaxCrashes
  /\ crashes' = crashes + 1
  /\ Forget(p)
  /\ UNCHANGED <<stored, world>>

\* A lease lives 300 seconds; nothing in the code renews one.
ExpireLease(t) ==
  /\ t \in lease
  /\ lease' = lease \ {t}
  /\ UNCHANGED <<runState, taskState, attempt, outbox, receipt, measured,
                 thread, claims, exported, recorded, world, crashes, memory>>

\* A host thread publishes its handoff.
Finish(k) ==
  /\ host[k] > 0 /\ finished[k] = "none"
  /\ \E h \in HandoffStatuses : finished' = [finished EXCEPT ![k] = h]
  /\ UNCHANGED <<stored, host, crashes, memory>>

-----------------------------------------------------------------------------
\* What a process does next once a cycle or command has begun.
Schedule(p) ==
  \/ Guard(p) \/ Recover(p) \/ Snapshot(p) \/ Allocate(p)
  \/ Acquire(p) \/ LeaseRefused(p) \/ ResolutionRequired(p)
  \/ Persist(p) \/ PersistAgain(p) \/ PersistRefused(p) \/ Collect(p)

Relay(p) ==
  \/ RouteKnown(p) \/ RouteFound(p) \/ RouteMissing(p) \/ RouteNotEmitted(p)
  \/ RouteUnavailable(p) \/ RouteCreate(p)
  \/ Emit(p) \/ Invoke(p) \/ InvokeBlocked(p) \/ Ingest(p) \/ Block(p)
  \/ TickEnd(p) \/ SyncEnd(p) \/ CycleEnd(p)

ReadHandoffs(p) ==
  \/ Monitor(p) \/ ReadHandoff(p) \/ MonitorEnd(p)
  \/ AcceptCompleted(p) \/ AcceptRejected(p) \/ AcceptBlocked(p)
  \/ Accepted(p) \/ Record(p)

Continue(p) == Schedule(p) \/ Relay(p) \/ ReadHandoffs(p) \/ RetryEnd(p)

Command(p) ==
  \/ Pause(p) \/ Resume(p) \/ CancelRun(p)
  \/ \E t \in Tasks : CancelTask(p, t) \/ RetryBegin(p, t)
  \/ \E k \in Keys : IngestCommand(p, k)

Next ==
  \/ \E p \in Procs : DriveBegin(p) \/ Continue(p) \/ Command(p) \/ Crash(p)
  \/ \E t \in Tasks : ExpireLease(t)
  \/ \E k \in Keys : Finish(k)

Spec == Init /\ [][Next]_vars

\* A process that has begun a cycle runs on, somebody keeps driving the run,
\* leases run out by the clock, and every thread that was created answers.
Fairness ==
  /\ \A p \in Procs : WF_vars(DriveBegin(p)) /\ WF_vars(Continue(p))
  /\ \A t \in Tasks : WF_vars(ExpireLease(t))
  /\ \A k \in Keys : WF_vars(Finish(k))

LiveSpec == Spec /\ Fairness

-----------------------------------------------------------------------------
(* Properties *)

KeySet == SUBSET Keys

Labels == {"idle", "guard", "recover", "snapshot", "allocate", "acquire",
           "persist", "route", "emit", "invoke", "ingest", "block",
           "monitor", "handoffs", "accept", "accepted", "record", "retry"}

StoredTypes ==
  /\ runState \in RunStates
  /\ taskState \in [Tasks -> TaskStates]
  /\ attempt \in [Keys -> AttemptStates]
  /\ outbox \in [Keys -> OutboxStates]
  /\ receipt \in [Keys -> Statuses \union {"none"}]
  /\ measured \subseteq Keys /\ thread \subseteq Keys
  /\ lease \subseteq Tasks /\ claims \subseteq Tasks
  /\ exported \subseteq Tasks /\ recorded \subseteq Keys

WorldTypes ==
  /\ host \in [Keys -> Nat]
  /\ finished \in [Keys -> {"none", "completed", "blocked", "failed"}]

MemoryTypes ==
  /\ pc \in [Procs -> Labels]
  /\ stage \in [Procs -> {"tick", "sync", "redo", "command"}]
  /\ batch \in [Procs -> KeySet]
  /\ queue \in [Procs -> KeySet]
  /\ cur \in [Procs -> Keys \union (Tasks \X {0}) \union {NoKey}]
  /\ reply \in [Procs -> Statuses \union {"none"}]
  /\ memo \in [Procs -> TaskStates]

\* Every column keeps to the values its CHECK constraint lists, every claim and
\* lease names a task, and a process only remembers keys of this run.
TypeOK == StoredTypes /\ WorldTypes /\ MemoryTypes /\ crashes \in Nat

\* One process at a time never makes the host create two threads for the same
\* persisted intent, wherever it crashed and whatever was retried: the emitted
\* row is written before the call and a restart reconciles it.
OneThreadPerIntent == \A k \in Keys : host[k] <= 1

\* No attempt exists for a task whose dependencies are not met: what the
\* scheduler decided on a snapshot still holds whenever the intent is there.
StartedAfterDependencies ==
  \A k \in Keys : attempt[k] # "none" =>
    \A d \in Deps[k[1]] :
      /\ d[2] = "completed" => taskState[d[1]] = "completed"
      /\ d[2] = "exports"   => d[1] \in exported

\* A completed task stays completed: retries, blockers, repairs and receipts
\* that arrive late all write task rows without the transition table.
CompletedIsFinal ==
  [][\A t \in Tasks :
       taskState[t] = "completed" => taskState'[t] = "completed"]_vars

\* A completed task leaves no intent behind that a later cycle would dispatch,
\* not even one of an attempt that was retried before it was dispatched.
CompletedIsSettled ==
  \A k \in Keys : taskState[k[1]] = "completed" =>
    outbox[k] \notin {"pending", "emitted"}

\* Leases that share a declared path never coexist, however many drivers race.
LeasesDisjoint ==
  \A t, u \in lease : t # u => ~SamePath(t, u)

\* Leases whose globs overlap never coexist: "one canonical path policy for
\* ownership, leases, and workspace evidence" (core/policy.py:1).
LeasedGlobsDisjoint ==
  \A t, u \in lease : t # u => ~Conflict(t, u)

\* No more active top-level claims than the run's budget, through crashes and
\* the recovery that makes a claim again for every supported task.  It is a
\* promise about the automatic work of one driver at a time: an operator's retry
\* takes the claim of a task away while its thread may still run, a late receipt
\* brings a task without a claim back, and a second driver's recovery drops the
\* claim of a task that the first has not leased yet.  Recovery then finds more
\* tasks than the budget has slots.
ClaimsWithinBudget ==
  Commands \intersect {"retry", "ingest-receipt"} = {} =>
    Cardinality(claims) <= Budget

\* Whatever thread the host has, its intent was durable and marked as emitted
\* before the host was asked: a restart always finds what may have happened.
IntentBeforeThread ==
  \A k \in Keys : host[k] > 0 => outbox[k] \notin {"none", "pending"}

\* The host is only asked to create threads for attempts that are live.
CreateOnlyLive ==
  [][\A k \in Keys : host'[k] > host[k] => attempt[k] \in LiveAttempt]_vars

\* An attempt counts as active only with a real host thread behind it.
ActiveHasThread == \A k \in Keys : attempt[k] = "active" => k \in thread

\* A run that completed has no work left: everything required is completed and
\* nothing is running or waiting to be dispatched.
CompletedRunIsDone ==
  runState = "completed" =>
    /\ \A t \in Tasks : taskState[t] \in Terminal
    /\ \A t \in Required : taskState[t] = "completed"
    /\ Pending = {}

\* A durable intent is eventually handed to the host or given up.
PendingIsDispatched ==
  \A k \in Keys : outbox[k] = "pending" ~> outbox[k] # "pending"

\* The run finishes, unless a crash fell between marking an intent as emitted
\* and storing the receipt of its thread, and the host cannot be asked for that
\* thread or never made it: then nothing ever moves the row again.
Stranded ==
  /\ crashes > 0
  /\ \E k \in Keys : /\ outbox[k] = "emitted" /\ receipt[k] = "none"
                     /\ host[k] = 0 \/ ~HostLooksUp
FinishesOrStranded == <>(runState = "completed") \/ <>[]Stranded

\* How far the outbox row of a key has come, in the words of Intents.
IntentOf(k) ==
  CASE outbox[k] = "none"    -> "none"
    [] outbox[k] = "pending" -> "written"
    [] outbox[k] = "emitted" -> "sent"
    [] OTHER                 -> "settled"

Promise == INSTANCE Intents WITH
  Key      <- Keys,
  intent   <- [k \in Keys |-> IntentOf(k)],
  work     <- host,
  answered <- {k \in Keys : receipt[k] # "none"}

\* The outbox keeps the promise of module Intents through crashes, retries,
\* blockers and late receipts: what is performed was sent, an answer and the
\* acknowledgement of its row are one step, and no settled row is performed.
IntentsKept == Promise!Spec

=============================================================================
