# All in Luna: TLA+ models, checks and proofs

All in Luna runs a large goal as a graph of *Tasks*. A coordinator decides
which task may start, asks an agent host (a desktop application) to create a
thread for it, watches the thread and verifies its handoff; inside the thread a
*lane* does the same with *work units*. Everything the program knows lives in
one SQLite database; every command and every driver is a process of its own
that may die at any statement. This directory holds the TLA+ models of that
program, the TLC configurations that check them and the theorems TLAPS proves
about them.

Paths below are relative to
`src/plugins/allinluna/runtime/allinluna_runtime/` unless they begin with
`src/`.

    tlasany M.tla                        parse a module
    tlc -workers 2 -config X.cfg M       check a configuration of module M
    tlapm M.tla                          check the proofs of module M

## 1. Inventory

### 1.1 The run, from a ready task to its accepted handoff

| Component | State it keeps | Operations | What makes it correct | Module |
|---|---|---|---|---|
| `GlobalScheduler` (`scheduler/global_scheduler.py`, `scheduler/conflicts.py`) | none; a snapshot during a step | `step`, `reconcile`, `accept_handoff`, `preview`, `ready_tasks` | a task starts only after its dependencies; overlapping write sets never run at once; no unbounded backlog | `Dispatch` |
| Dispatch store (`store_dispatch.py`) | `task_attempts`, `work_unit_attempts`, `dispatch_outbox`, `host_receipts` | `persist_dispatch_intent`, `mark_outbox_emitted`, `ingest_receipt` | idempotent by key; late and repeated receipts harmless; only a thread makes an attempt active | `Dispatch`, `LaneWork`, `Intents` |
| `ActionBridge` (`engine/action_bridge.py`) | the outbox rows | `dispatch`, `reconcile`, `ingest_receipt`, two blockers, repair of projections | never two threads for one intent; nothing crosses to the host before it is durable and marked | `Dispatch`, `LaneWork`, `Permissions`, `Routes` |
| `CoordinatorEngine`, `CoordinatorDriver` (`engine/coordinator*.py`) | run status, `driver_handoffs`, checkpoints | `tick`, `drive`, `pause`, `resume`, `cancel`, `retry`, `ingest_handoff`, promotions | a finished task stays finished; a finished run has nothing left | `Dispatch`, `Boundaries` |
| Resource claims (`store_resources.py`, `resource.py`) | `resource_claims` | `claim_resources`, `release`, `reconcile_resource_claims` | never more active claims than the budget; no claim leaks | `Dispatch`, `LaneWork` |
| Leases (`scheduler/leases.py`, `store_services.py`) | `leases` | `acquire_lease`, `release`, `expire_leases` | leases with a common path exclude each other | `Dispatch`, `LaneWork` |
| Repositories, state machines (`store_repositories.py`, `core/state.py`) | `runs`, `tasks`, `task_exports`, `contracts` | `update_run_status`, `update_task_status`, `install_task_exports`, `put_contract` | only transitions of the table | `Dispatch`, `Contracts` |
| Host adapters (`adapters/host/*`) | receipts in memory; the host's threads | create, read, wait, reconcile, export | a receipt describes exactly the action asked for; a named thread is not asked for again | `HostThreads`, `ThreadStream` |
| Command line (`cli.py`), observability | none | one command per process | every command is safe to repeat | `Dispatch` |

`CoordinatorDriver.tick` calls `CoordinatorEngine.tick`, which recovers the
claims, lets the scheduler step and hands every action to the bridge. The bridge
calls the host and stores the receipt. The driver then reads the watched
threads, has their handoffs verified and accepted, reconciles the outbox, steps
the scheduler again and dispatches what it returns. Components share the
database only; each call is a transaction, or several.

### 1.2 Inside a lane

| Component | State | Operations | What makes it correct | Module |
|---|---|---|---|---|
| `LocalScheduler`, `LaneEngine`, `LaneDriver` | `work_units`, `work_unit_attempts`, direct plans, results, lane claims | step, persist and resume actions, complete, retry, cancel, replay | a unit completes only with evidence and stays completed; a durable result reaches its unit | `LaneWork` |
| Corrections, lane handoff (`engine/lane.py`) | `corrections`, the handoff | `correct`, `process_corrections`, `synthesize_handoff` | unresolved work keeps the handoff from completing | `Boundaries` |
| Promotions (`engine/coordinator.py`) | `promotion_requests` | request, decide, accept, reject | decided once; one task per request | `Boundaries` |
| Permissions (`store_services.py`, `engine/action_bridge.py`) | `permission_intents`, `decisions` | request, decide, check | nothing crosses unasked | `Permissions` |
| Evidence (`evidence.py`, `handoff.py`, `check_trust.py`, `adapters/workspace/*`, `verification_planner.py`) | receipts of checks, artifacts | plan, run, collect, verify | accepted work was checked and touches only what it owns | `Evidence`, `CheckTrust` |

### 1.3 Data services and packs

| Component | State | Operations | What makes it correct | Module |
|---|---|---|---|---|
| Signal journal (`journal.py`) | `signals`, run status, callbacks | append, set status, transaction, follow | a follower misses nothing; no lock cycle | `Journal` |
| Context and artifacts (`context.py`) | snapshots, input rows | build, derive, promote, compact, rebuild, invalidate | a reference keeps its meaning; an invalidation reaches what was made from its subject | `Snapshots` |
| Resource policy (`resource_policy.py`, `resource_observation.py`) | a capability profile | resolve, assess, observe | locked work runs as asked or is blocked | `Routes` |
| Contracts (`contracts.py`) | revisions, applied keys | draft, apply, put | a delta applies once, to the version its author read | `Contracts` |
| Task and work graphs (`domain.py`) | nodes, edges | add, connect, expand, mark | no sequence of calls leaves an unsound graph | `GraphBuild` |
| Migrations (`migrations.py`) | the schema's two version records | open | a store that opened is whole | `Migrations` |
| Goal compiler, GSD pack (`packs/*`) | the graph in memory | compile, configure, expand | the stated order is kept; phases are gated | `Goals`, `Phases` |
| Capability registry (`adapters/capability/*`) | declarations | register, resolve, invoke | nothing runs ungranted | `Capability` |
| Research Routes (`src/plugins/research-routes/`) | a pack of records and decisions | record, decide, authorize, promote, rewind, open | a canonical route is backed by decisions | `ResearchRuntime` |

### 1.4 What is hard here

* **Crashes between transactions.** Claim, lease, intent, mark, host call and
  receipt are six steps; a process may die after any of them.
* **Two processes.** A driver, a second driver and commands share the
  database; decisions are made on rows read before the transaction that uses
  them.
* **A host that answers late, twice, out of order or not at all**, and that may
  have made a thread although it did not say so.
* **Retry** ends attempts whose intent, receipt or handoff is still under way.
* **Bounded resources** that are released by five different handlers and
  re-created by recovery.
* **A worktree nobody locks**, read by several git commands while the worker
  commits.
* **Two locks** in the journal, and sequence numbers that are reused after a
  rollback.
* **Checks before a call and use after it**: permissions, capabilities, trust
  of commands, migrations.

`PROJECT.json` lists these hazards one by one with the line where each bites
and the property that covers it, or why none does.

## 2. Modules, and how they compose

| Module | Content | Checked by | Proofs |
|---|---|---|---|
| `Dispatch` | section 1.1, the whole path of a task with every process, crashes, commands | `MCDispatch`, seven runs | `Dispatch_proofs`, `Serial_proofs`, `Settled_proofs` |
| `Intents` | abstract specification of the outbox | as a property of `recovery` and `lane` | `Serial_proofs`, `Lane_proofs` |
| `LaneWork` | one lane with its units, workers, plans, results, commands, crashes | `MCLane`, one run | `Lane_proofs` |
| `Boundaries` | promotions between coordinators; corrections and the lane's handoff | `MCServices` | `Handoff_proofs` |
| `Evidence`, `CheckTrust` | what a handoff is verified against, and which commands may run for it | `MCServices` | `Handoff_proofs` |
| `Permissions`, `HostThreads`, `Capability`, `ThreadStream` | what may cross to a host, what it is asked for, and what it tells of a turn | `MCServices` | `Crossing_proofs` |
| `Contracts`, `ResearchRuntime`, `GraphBuild`, `Goals`, `Phases` | contract revisions, the state of a Research Pack, the two graphs, the compilation of a goal, the GSD pack's phases | `MCServices` | `Domain_proofs` |
| `Migrations`, `Routes`, `Journal`, `Snapshots` | the store's schema, resolved routes, signals, context | `MCServices` | `Store_proofs` |

`Dispatch` composes scheduler, store, bridge, coordinator, claims and leases:
they share tables, and every interleaving of their transactions matters.
`LaneWork` composes the same store, bridge and claims with the lane's scheduler
and driver. `Evidence` extends `CheckTrust`. The other components keep state of
their own that the rest of the program only reads through them, so each is a
specification of its own.

## 3. The dispatch core: `Dispatch` and `Intents`

### 3.1 State

| Variable | Code |
|---|---|
| `runState`, `taskState` | `runs.status`, `tasks.state` |
| `attempt[k]` | `task_attempts.state` of the attempt with dispatch key `k`; a key is a task and an attempt number, what the code digests |
| `outbox[k]` | `dispatch_outbox.state` |
| `receipt[k]`, `thread`, `measured` | `host_receipts.status`, whether the receipt names a thread, whether it carries resolved telemetry |
| `lease`, `claims`, `exported`, `recorded` | active task leases, active top-level claims, tasks with installed exports, `driver_handoffs` |
| `host[k]`, `finished[k]` | threads the host made for `k`, the status of the handoff a thread published |
| `pc`, `stage`, `batch`, `queue`, `cur`, `reply`, `memo` | what a process holds in Python: where it is, which part of the cycle, the allocated tasks, the actions or handoffs to handle, the current key, the host's answer, the task row it read |

The database survives `Crash`; a process's memory does not.

### 3.2 Actions

One action is one transaction, or one read on which something is decided later.
A cycle of `drive` is

    DriveBegin, Guard                                engine.tick begins
    Recover, Snapshot, Allocate                      scheduler.step
    ( Acquire, Persist | LeaseRefused | ResolutionRequired )*
    Collect                                          durable actions join in
    ( Route.. | RouteCreate, Emit, Invoke, Ingest | .. Block )*   bridge.dispatch
    TickEnd, Monitor
    ( ReadHandoff, Accept.., Accepted, Record )*     handoffs
    MonitorEnd, ( Route.. )*, SyncEnd                bridge.reconcile
    Recover .. Collect, ( Route.. )*, CycleEnd       second step and dispatch

A paused or ended run goes from `Guard` to `Monitor`, as the code does. The
commands `Pause`, `Resume`, `CancelRun`, `CancelTask`, `RetryBegin`/`RetryEnd`
and `IngestCommand` are processes of their own; the latter shares `Ingest`.
`ExpireLease` is the clock, `Finish` a host thread that publishes its handoff,
`Crash` ends a process anywhere.

`IngestReceipt`, `Repair`, `RecordBlocker`, `RecoverClaims` and
`CompleteRunIfReady` are the transactions several handlers share.

### 3.3 What is abstracted

* Scores and critical paths: the ownership filter keeps *some* maximal set
  without conflicts, allocation takes *some* of it up to the budget.
* The ownership filter is modelled by what it does: it compares rendered rows
  (`RowOverlaps`) with each other and with the plain paths of leases
  (`LeaseConflict`). `Overlaps` is what the globs mean and is used by one
  property only.
* `HostLooksUp` says whether the host can be asked for a thread it has
  (`reconcile_dispatch`, `lookup_receipt` or `get_receipt` of its adapter). The
  `HostAdapter` protocol has no such method and neither shipped host provides
  one; the bridge uses one where it finds it, so both are modelled.
* `Verdicts` and `Assurances` stand for handoff verification and route
  assessment. Telemetry and assurance vary independently, which allows more
  than the code does.
* A receipt is its lifecycle status, whether it names a thread and whether it
  carries telemetry. A creation answer may also break the contract ("bad") or
  be missing ("none"), with or without a thread behind it.
* Merged steps. Reads that follow each other with no write in between are one
  read: the run row and the claim recovery of `tick`, the selects of a
  snapshot, the attempt number and the task row read at the end of `Acquire`,
  the two checks of `ReadHandoff`. Writes that are separate statements in the
  code but only release a claim are taken together: claim recovery with the
  activation of the run, the broker's release with run completion, the two
  writes of `RetryEnd`. A lease and a resolution request are acquired and given
  back in one step.
* A lease row expires when its time passes and not when it is looked at; all
  rows of one task are one flag. A thread publishes one handoff.
* The limit of 256 rows of `pending_outbox` is not modelled.

Not modelled in this component: the relay mode of the command line for
top-level tasks (no host bound), the best-effort cancellation of a rejected
thread, the rejection of untrusted receipts, handoffs with status `cancelled`
and policy changes. Permissions, promotion requests and route assessment have
modules of their own (section 5).

### 3.4 `Intents`, the abstract specification

`Intents` says what the outbox promises of one durable intent, with three
variables: how far it has come (`none`, `written`, `sent`, `settled`), how often
the host performed it, and which answers are stored. An intent is written once,
sent once, performed at most once and only while it is sent, answered only if it
was performed, and never moves again once it is settled. `Dispatch` instantiates
it (`Promise`) with `outbox`, the number of threads of each key and the keys
with a receipt, `LaneWork` with its own outbox and workers. `IntentsKept` is
`Promise!Spec` in both; `recovery` and `lane` check it, `Serial_proofs` proves
it for `Dispatch` with one driver process and `Lane_proofs` for `LaneWork` with
one driver and any number of callers. With two drivers it is false (run
`duplicate`).

## 4. The lane: `LaneWork`

State: `unit`, `attempt`, `link` (the receipt an attempt was linked to), `outbox`,
`plan` (a spawn or a lane-direct plan), `result` (durable direct results),
`attached` (handoffs of units), `receipt`, `lease`, `slot` (lane claims),
`recorded` are the database; `worker` (spawned threads), `published` and `done`
(what workers published, what embedded executors or callers did) are the world;
`pc`, `todo`, `batch`, `cur`, `ho`, `back` are what one process holds.

A tick of the driver is: expand the graph, replay durable results, read and
verify them, resume unresolved attempts, scan the ready units, then for each
one claim, lease and insert, make it ready if the snapshot showed it as
proposed, look at it again, delegate and mark it (each a transaction of its
own, and each transition the table refuses ends the tick), and dispatch it as a
spawn, an embedded execution or a plan for the caller; at last the handoffs of linked
workers. A spawn's answer is a receipt with or without a thread, an error, or
none; the thread is linked to the attempt when its receipt is projected. A row
whose receipt is stored and whose attempt still waits is repaired from that
receipt (`Repair`), and `MarkActive` links the attempt that is newest then.
Callers bring a result, retry, cancel, recover the claims or bring a
receipt. A process may die anywhere, and whatever a tick raises ends that tick.

What is abstracted: the ranking of ready units and the texts of prompts and
plans; verification of a claimed completion yields a member of `Verdicts`; the
paths of a unit are a set; one lane, so that the shared budget of several lanes
is left out.

## 5. Services

Each of these modules is a small state machine with its own processes; a line
tells what is nondeterministic in it and what its properties are about.

* `Journal`: writers with transactions, nested or not, through a
  `SignalJournal` or through the Store's own `append_signal`, statuses set with
  a signal or alone (`SetStatus`), and followers that read batches of rows in
  order on a connection of their own or on a writer's. Sequence numbers are
  given out at insert and reused after a rollback.
  `FollowersMissNothing`, `StatusHasItsSignal`, and, refuted,
  `NoSignalIsSkipped`, `NobodyIsStuck`. The last is the order of the journal's
  lock and the Store's.
* `Snapshots`: kernels that read, insert, add input rows and set the
  replacement one statement at a time, and die in between. What an invalidation
  finds (`Dependents`, `Affected`) is written as the least set closed under the
  rule the code's loops apply until nothing changes.
  `ReferencesKeepMeaning`, `InvalidationReaches`.
* `ThreadStream`: any sequence of exported events, of known and unknown methods,
  folded by the assembler and read again by the evidence check. `CompletedTellsTheStream`.
* `HostThreads`: normalisation of an action and the adapter's memory, with a
  host that answers with a thread, a client id, nothing or an exception.
  `NamedThreadsAreNotAskedAgain`.
* `Boundaries`: coordinators each working through a list of requests they read
  once, lanes that send corrections and synthesize the handoff in three reads.
  `PromotionDecidedOnce`, `CompletedHandoffLeavesNothingOpen`.
* `Permissions`: dispatchers that check and later cross, users that decide and
  decide again. `NothingCrossesUnasked`.
* `CheckTrust`, `Evidence`: the choice of procedures, the evaluator before each
  subprocess, the collection of evidence while the worker edits, commits or
  resets, and the second verification. `AcceptedWorkWasChecked`,
  `NothingRunsUnapproved`, `VerifiedWorkIsOwned`, `HonestWorkIsValid`.
* `Contracts`: several repositories, outer transactions, keys remembered in
  memory only. `DeltasAreAppliedOnce`.
* `GraphBuild`: calls that add, connect, expand and mark, each with its refusals
  and what a refusal undoes. `CallsKeepGraphsSound`.
* `Migrations`: processes with older and newer code opening one store.
  `SchemaIsWhole`.
* `Routes`: resolution from task, host profile and run; a receipt stored and
  then judged. `LockedWorkRunsAsAsked` for locks on a whole route, and, refuted,
  `LockedFieldsAreKept` for every lock.
* `ResearchRuntime`: records, decisions, authorizations, promotion, rewind,
  downgrade to any state or route, and reopening from a snapshot. `CanonicalIsBacked`.
* `Capability`: an invocation whose declaration may be replaced between its
  steps, which may end at the fallback of its binding, and whose permission may
  state scopes of its own. `NothingRunsUngranted`.
* `Phases`, `Goals`: the compilation of outcomes into gated phases, to which
  callers add children below any unit or to a whole domain, with dependencies of
  their own or without; and of clauses into ordered outcomes. `PhasesAreGated`, `StatedOrderIsKept`.

`MCServices` puts them into one run. They share no variable, so a behaviour
picks one part at first and only that part moves; the others stay as one of
their first states. This checks each alone, not their product, which would show
nothing more.

## 6. Runs

| Run | Instance | Question and answer |
|---|---|---|
| `recovery` | one process, two tasks in an export chain that write the same path, two attempts each, one crash, retry and ingest-receipt | Does any mixture of crash, retry and late receipt give an intent a second thread, start a consumer early, reopen a completed task, leave a dispatchable row behind it or break the promise of `Intents`? It does not. |
| `ownership` | one process, three tasks (one unroutable, one behind `any_export`), backlog limit 1, all host answers, both verdicts, pause and cancellation, one crash | Are claims within the budget, does a completed run have nothing left, are only live attempts handed to the host? Yes, in the absence of retries and late receipts. |
| `drivers` | two drivers, two tasks on one path, two attempts, one crash | Do leases exclude each other and does every thread have a marked intent under every interleaving? Yes. |
| `liveness` | one process, a chain of two tasks, one crash, a host without lookup, under fairness | Is every intent dispatched and does the run complete? Yes, unless the crash fell between the mark and the stored receipt: with a host that cannot be asked for a thread, as the shipped ones, nobody finds the intent again, whether its thread was made or not (`Stranded`). |
| `lane` | a driver and a caller, unit `b` proposed late and behind `a`, both on one path, a lane limit of 1, two attempts of `b`, one fault, receipts that call a worker active, closed or failed, or are bad or missing | Does work start before its dependency, complete without evidence, reopen, or a stored result never reach its unit? No. Does the lane keep the promise of `Intents`? Yes. Deadlock is checked. |
| `services` | every module of section 5 on its own instance | Do their properties hold? Yes. |
| `unresolved` | one task | Can an attempt be active without a thread? It can (finding). |
| `globs` | two tasks, `src/**` and a file below it | Do leases with overlapping globs coexist? They do (finding). |
| `duplicate` | two drivers, one task | Can one intent get two threads? With two drivers it can (finding). |
| `missed` | the journal alone, all threads on one connection | Is a follower given every committed signal? Not on the connection of a writer that appends through the Store (finding). |
| `stuck` | the journal alone, one `SignalJournal` for all threads | Do threads ever wait for each other's lock? Those that come by the two orders do (finding). |
| `locked` | the routes alone, a run locked on a model and no reasoning level | Does locked work keep the model that was locked? It does not (finding). |

`CHECK_DEADLOCK FALSE` stands in the configurations of `MCDispatch`, where a run
that has reached a boundary really stops and nothing drives it again, and in
`services`, whose parts end when their bounds are used up.

Three promises are checked twice, once where they are kept and once where they
are not: `OneThreadPerIntent` with one driver and with two, what a follower is
given with and without a connection or a journal of the writers' own
(`FollowersMissNothing`, `NoSignalIsSkipped`), and locked routes with a lock on
a whole route and on a part of one (`LockedWorkRunsAsAsked`,
`LockedFieldsAreKept`).

### 6.1 Bounds

* *Tasks* (1 to 3), *units* (2): a conflict or a dependency needs two; the third
  task lets one be unroutable while the others compete for two slots.
* *Processes* (1 or 2): races in this code are between two readers of one row.
* *`MaxAttempts`* (1 or 2): with two attempts an old intent, receipt or result
  meets a new one.
* *`MaxCrashes`, `MaxFaults`* (0 or 1): recovery after one crash begins from a
  state with empty memory, from which a second crash is a new first one. The
  theorems hold for any number.
* *`Budget`*, *`MaxBacklog`*, *`LaneLimit`*: small enough to be reached.
* *Journal*: one writer with its follower in one process, in another a writer
  that opens the Store first and a thread that only sets statuses; three
  signals, two levels of transactions, batches of one signal, so that a reused
  number, a rollback and a cursor between them occur. The runs `missed` and
  `stuck` put the same threads on one connection, and on one journal too.
* *Snapshots*: a mortal kernel and an invalidator; three snapshots when one
  works alone, two with both, enough for a chain and a replacement.
* *ThreadStream*: four events of twelve, two turns and two threads.
  *HostThreads*: two calls per key, which is what a repeated dispatch needs.
* *Boundaries*: two coordinators and two requests that may need each other; one
  lane that may die, one correction delivered at most twice.
* *Permissions*: two dispatchers, two subjects, three decisions (allow, deny,
  allow again).
* *Evidence*: one command, three commits, two edits and every kind of collector
  in one part; seven contracts with explicit, found and trusted procedures in
  the other.
* *Contracts*: two repositories, two deltas, three revisions, three drafts.
  *GraphBuild*: three tasks and three units, the smallest graph with a cycle
  that no single edge shows. *Migrations*: three processes, one with older code.
* *Routes*: two tasks with different assurance, two brokers with a receipt each
  or one with two. *ResearchRuntime*: five operations. *Capability*: one
  invocation with one replacement, granted with all scopes, one or none.
* *Phases*: seven policies over four phases and two outcomes; two children that
  callers add to the first of them, one after the other or together, with the
  dependencies they are given or with none (`OwnWaitsHere`). *Goals*: up to
  three of nine clauses, one of which names two outcomes with one reference and
  one an outcome with an article; four listings, two repository trees.

### 6.2 Fairness

`Dispatch.LiveSpec` assumes weak fairness of `DriveBegin` and `Continue` of each
process (the loop of `drive`, called again by an operator or a scheduler after
every crash: the code has no other source of progress), of `ExpireLease` (the
clock), and of `Finish` (threads answer eventually). The host's answers and the
choice among alternatives are not fair, nor is any command.

`LaneWork.LiveSpec` assumes that the driver of a lane is called again (weak
fairness of its tick) and that a process that began a command or a tick and does
not die goes on. No command is fair, so neither a result nor a recovery is
assumed to come. The services have safety properties only.

## 7. Proofs

Every theorem is about all values of the constants that satisfy the named
assumptions. "One process" is the hypothesis `\A p, q \in Procs : p = q`.

| Theorem | States | Under |
|---|---|---|
| `Dispatch_proofs!TypeCorrect` | `[]TypeOK` | |
| `Dispatch_proofs!LeasesNeverOverlap` | `[]LeasesDisjoint` | |
| `Dispatch_proofs!IntentPrecedesThread` | `[]IntentBeforeThread` | |
| `Serial_proofs!OneThread` | `[]OneThreadPerIntent` | one process |
| `Serial_proofs!PromiseKept` | `IntentsKept`, the refinement of `Intents` | one process |
| `Settled_proofs!CompletionIsFinal` | `CompletedIsFinal` | one process |
| `Settled_proofs!DependenciesFirst` | `[]StartedAfterDependencies` | one process |
| `Settled_proofs!CompletionSettles` | `[]CompletedIsSettled` | one process |
| `Settled_proofs!CompletedRun` | `[]CompletedRunIsDone` | one process, `Quiet` |
| `Settled_proofs!CreatedLive` | `CreateOnlyLive` | one process, `Quiet` |
| `Settled_proofs!BudgetHeld` | `[]ClaimsWithinBudget` | one process, `Quiet` |
| `Lane_proofs!LaneTypes` | `[]TypeOK` of `LaneWork` | |
| `Lane_proofs!CompletionIsBacked` | `[]CompletedIsBacked` | one caller |
| `Lane_proofs!CompletedIsNeverReopened` | `CompletedStays` | |
| `Lane_proofs!UnitsStartInOrder` | `[]StartedAfterDependencies` of `LaneWork` | |
| `Lane_proofs!LanePromiseKept` | `IntentsKept` of `LaneWork` | one driver |
| `Handoff_proofs!CompletedIsClosed` | `CompletedHandoffLeavesNothingOpen` | |
| `Handoff_proofs!DecidedOnce` | `PromotionDecidedOnce` | |
| `Handoff_proofs!OwnedWork` | `[]VerifiedWorkIsOwned` | |
| `Handoff_proofs!HonestWork` | `[]HonestWorkIsValid` | |
| `Handoff_proofs!CheckedWork` | `[]AcceptedWorkWasChecked` | |
| `Handoff_proofs!ApprovedFirst` | `[]NothingRunsUnapproved` | |
| `Crossing_proofs!NothingCrosses` | `[]NothingCrossesUnasked` | |
| `Crossing_proofs!NamedOnce` | `[]NamedThreadsAreNotAskedAgain` | |
| `Crossing_proofs!GrantedFirst` | `[]NothingRunsUngranted` | |
| `Crossing_proofs!StreamTold` | `[]CompletedTellsTheStream` | |
| `Domain_proofs!DeltasOnce` | `[]DeltasAreAppliedOnce` | |
| `Domain_proofs!CanonicalBacked` | `[]CanonicalIsBacked` | |
| `Domain_proofs!SoundGraphs` | `[]CallsKeepGraphsSound` | |
| `Domain_proofs!OrderKept` | `[]StatedOrderIsKept` | |
| `Domain_proofs!PhasesGated` | `[]PhasesAreGated` | |
| `Store_proofs!SchemaWhole` | `[]SchemaIsWhole` | |
| `Store_proofs!LockedRoutes` | `[]LockedWorkRunsAsAsked` | |
| `Store_proofs!StatusTold` | `[]StatusHasItsSignal` | |
| `Store_proofs!NothingMissed` | `[]FollowersMissNothing` | |
| `Store_proofs!ReferencesStay` | `[]ReferencesKeepMeaning` | |
| `Store_proofs!InvalidationDone` | `[]InvalidationReaches` | |

### 7.1 Hypotheses, and why they are there

* *One process* on the database: the way the command line is documented to be
  used. With two, `OneThreadPerIntent` and the promise of `Intents` are false
  (run `duplicate`), and a task is reopened: a driver that read a task before
  another completed it writes it back (`persist` and `retry` use the row they
  read). The three properties that survive two drivers, types, leases and
  intents before threads, are proved for any number.
* *`Quiet`*: neither `retry` nor `ingest-receipt` is among the commands. A retry
  starts a second attempt beside the row of the first, and a late receipt
  re-creates a claim without counting it; the three properties are false then,
  and the run `ownership`, which checks them, leaves out the same commands.
* *One driver* of a lane, with any number of callers: two drivers both find a
  row pending and spawn twice. *One caller*: `record_direct_work_result` reads
  the stored result outside its transaction, and two callers that both read
  none leave a completed unit whose result row says blocked.

Some properties name in their own text the case they are about, because the code
leaves the others open: `FollowersMissNothing` the followers that wait for their
writers (`Waits`), `StatusHasItsSignal` the runs whose last status came with a
signal (`silent` records the others), `LockedWorkRunsAsAsked` locks on a whole
route, `CanonicalIsBacked` states that a promotion set, `PhasesAreGated` steps
behind no child with dependencies of its own, `StatedOrderIsKept` references to
one outcome. The actions beside them are in the models, and section 8 or 8.1
tells what they do.

### 7.2 The task: `Dispatch`

*Types.* `TypeOK` is not inductive: a process that works on a key must have one.
`TypeInv` adds `HasKey`.

*Leases.* Only `Acquire` adds to `lease`, and tests in the same transaction;
all other steps keep or shrink it (`LeaseStep`). This is why two drivers cannot
break it although both decide on stale snapshots.

*Intents.* `IntentInv` adds what each process remembers: an attempt and its
outbox row are born together (`Born`), keys in a queue and a key being handled
have a row (`QueueKnown`, `CurKnown`), and a process about to call the host has
marked its row (`Marked`). Rows are never deleted and never become pending
again (`RowsKept`), so another process cannot invalidate this knowledge.

*One thread and the refinement.* `SerialInv` describes a process that is alone:
what it decided on are the next, unborn keys of their tasks (`Undecided`,
`Persisting`), the queue holds rows that are still pending or emitted
(`QueueOpen`), it holds a key only while it works on one (`Unengaged`), the row
it is about to mark is pending, hence by `IntentBeforeThread` without a thread,
and the key it is about to call the host for has none (`Unasked`). The step from
`RouteCreate` to `Emit` is where a second process breaks it. `KeptInv` adds that
an answer is stored together with the acknowledgement of its row, and under it
each step of `Dispatch` is a step of `Intents` or a stutter.

*What is finished stays finished.* `FinalInv` adds to `SerialInv` that a retry
acts on the state it read (`RetryRead`) and that whatever the scheduler picked
still has its dependencies met (`PickedReady`): the snapshot is older than the
transaction that uses it, and only because finished tasks and exports stay
(`StatesKept`) is a dependency that was met still met. From it follow all three
of `CompletedIsFinal`, `StartedAfterDependencies` and `CompletedIsSettled`.

*Nothing retried.* `QuietInv` adds that a task has at most one attempt and one
that has it is not fresh (`Once`), that an open row belongs to a dispatched
attempt of a dispatching task (`OpenWaits`), that what is at the host has such a
row (`Offering`) and what was picked is still fresh (`PickedFresh`). `DoneInv`
adds to it that everything is done once the run says so. `BudgetInv` adds
`HeldInBudget`: the claims *together with the tasks that recovery would claim
again* (`Backed`) are within the budget. The budget alone is not inductive, as a
claim that was released may come back; and `Covered` says that between recovery
and allocation nothing is backed that is not claimed, so that the slots which
the allocation counts are there.

### 7.3 The lane: `LaneWork`

`LaneInv` is the type invariant with what a process knows where it is. A
completed unit keeps its state because every transition of a unit is one of the
table (`UnitMoves`), for any number of drivers and callers.

*Order.* `StartInv` says that whatever anybody could take up again, an attempt
with a row, a result, a receipt or a worker, and whatever is in a process's
hands is about a unit whose dependencies are completed. It is wider than the
property because retries, replays and late receipts act on rows of any age.

*Evidence.* `BackedInv` follows a completion through the memory of a process:
the handoff it is about to apply is backed by the world or a row (`Grounded`).

*The refinement.* `KeptInv` relates the four rows of an attempt, plan, outbox,
worker and receipt (`KeptRow`), and says what the one driver knows between the
mark, the call and the answer (`KeptBy`). Each step then writes one row, marks
it, performs it, answers it or settles it (`RowWritten`, `RowMarked`, ...), or
leaves the four alone.

### 7.4 Handoffs

*Closing.* The three reads of a synthesis are not one transaction. `Found` says
what the lane already knows stays true under all others: finished units stay
finished, a request open at its beginning is never unmade, and one that was
decided is not reopened; `Reached` that a correction which is answered, resolved
or about to be was delivered.

*Deciding.* `DecidedInv` says that the task, the request's state and its
announcement are made together. What makes it inductive is that an acceptance
looks at the request again in its transaction; the mutant that trusts the list
read before breaks it.

*Evidence.* `EvidenceInv` has a part for each place. `WorktreeInv`: commits are
only added (`Grows`), so what a commit changed is fixed when it is made.
`JobInv`: what the collector has read so far belongs to the head it read first,
and while nobody touched the worktree that is still the head; each command that
is not to do any more has an answer (`Answered`). `BundleInv`: what a bundle
says was so when it was made (`SoundBundle`). Commands run only where the
evaluator answered trusted.

### 7.5 The host and the domain

*Permissions.* An allowed intent has a decision that allows it, and so has a
subject a dispatcher has checked; decisions are only appended. *Threads.* An
answer with a name is remembered before the next call of its key.

*Capabilities.* `CallInv` follows one invocation: what was heard of the host
before a decision, that a replaced call is judged by the description in its
binding, and that a call about to be made was asked for with every scope it is
judged by (`Covered`); what the answer says of scopes is carried along and
nothing rests on it.

*Stream.* `StreamInv` says of the fold over the events, after any number of
them, that the start and the end it holds are the only ones it was told
(`ToldOnce`), in this order, and that its model is where the last reroute led
(`ModelTold`). An event that contradicts this makes the fold raise.

*Contracts.* Whoever inserts sees every row there is, because one transaction is
open at a time and it is the inserter's; so the version it computed is the
newest one, versions are unique, and a delta's row follows the row it names.

*Research.* Whatever a promotion made canonical was compiled with the decisions and the
authorization that back it: promotion asks for the decision, the compilation of
the next pack ties every authorization to a confirmed decision, and no later
call takes either away; a pack kept by the host says the same of itself.

*Graphs.* `TaskInv` is the validity the calls test, kept by those that do not
test: a refused `add_task` restores the nodes and edges, but not a contract
nothing else names. `UnitInv` needs only the own parent of a unit (`Below`);
that no descendant holds more than the root follows along the chain.

*Goals.* `GoalInv`: every stated pair is a reference of an outcome found so far,
and while clauses are left the last outcome a clause spoke of is the last that
was found, so that a "then" states the order that the reference it adds keeps.
Compilation then finds, for a reference that names one outcome by its text, also
cleaned of articles and "is done", or by its id, that outcome (`NamedIsFound`): it scores 100 or 80, and any other fewer than 80, because
`AllDistinct` gives it another id, another slug and fewer than eight words in
common. A single domain, which may be split into one for each surface, waits for
none (`FoundAmongOne`: its reference would be itself, and is refused).

*Phases.* The property speaks of what a step waits for through any number of
others; what calls keep is about neighbours. `PhaseInv` says of every unit that
names no dependencies of its own (`Linked`) that it waits for the one of its
phase right before it (`Behind`), or is the first of its phase and waits for one
of the nearest earlier phase behind which no more of the recipe's steps of that
phase come (`Leads`), or was added below a unit that is no root and waits for
one of its phase (`Inner`). From this the property follows by a least
counterexample (`LinksMakeWait`). That calls keep it needs more, since
`materialize` runs over graphs that earlier calls and callers left: units are
below one of their phase (`Placed`), a phase that is there has its root and
steps (`Rooted`), comes with all phases before it (`NoneMissing`), and has the
phases folded into it (`FoldsThere`), so that nothing is added to a phase that
another is already behind. Through the rounds of one call `Handed` carries that
the leaf is the anchor of the last phase there (`LeafFits`); the rounds are
recursive functions over the recipe, which are shown to exist (`AddingExists`,
`FoldingExists`) and gone through by `HandedOn`: a set of numbers that has 0 and
hands on has every one up to n.

All this holds where the phases seeded first are the first of the recipe
(`SeededInOrder`); section 8.1 says what happens where they are not. That no
phase comes before the answers but those named first holds for every policy.

### 7.6 The store

*Migrations.* An opener's picture of the version is never ahead of the store,
and exact while nobody else changed it (`Abreast`); the version is re-read in
the transaction that runs a script.

*Routes.* A judged receipt of a hard lock on a whole route repeats the request
and tells the route, so that the three agree (`LockedReceipt`).

*Journal.* `SignalInv` is about what is committed *together with* the open
transaction's draft: numbers are places in that sequence (`Numbered`), and the
status each writer sees is told by the last signal it sees. A rollback forgets
the draft and the drafted status together, and a status set without a signal
takes its run out of what the last signal tells until the next one. `LockInv`
says that a writer which comes through its journal holds the journal's lock
while it is in the transaction. `FollowInv` needs both: a follower that waits
for its writers reads only what is committed (`SeesCommitted`), and its cursor
is never beyond the log.

*Snapshots.* `SnapInv` says that bases point to earlier rows (`Chained`),
replacements to later ones (`Upward`), and that each replacement keeps the
meaning of what it replaces (`Kept`); and of a write under way that its revision
is still free or its row is written, and that what it will name as an heir keeps
that meaning (`DraftFits`), although rows were added and marked since it read.
`ReachInv` adds for every invalidation that what it could see, traces to its
marker and is still current is on its list (`Marking`). It holds when the list
is made (`Reaches`), because both closures together reach everything whose
lineage is either in the input rows or current; and it is kept because rows
added later lengthen no lineage of earlier ones (`TraceShrinks`).

Contents and ends of replacement chains are recursive functions. What is said of
all of them is proved by taking a least counterexample: `LeastNumber`, that a
set of naturals has a least member, follows from the library's theorem on
well-founded relations, which takes a set and no operator. That the functions
exist at all is proved the same way (`ContentsExist`, `TipsExist`), so no row is
read whose content would be undefined.

### 7.7 Assumptions

All are evaluated by TLC on the run of their module.

| Assumption | Module | Says |
|---|---|---|
| `ConstantTypes`, `TasksAreFinite` | `Dispatch` | types of the instance's tables; a run has finitely many tasks, needed to count claims |
| `LaneConstants` | `LaneWork` | types; units depend on units |
| `JournalConstants` | `Journal` | each thread uses one journal, and those of one journal the same Store; the mark for "nobody" is no thread |
| `MigrationConstants` | `Migrations` | versions are numbers |
| `SnapshotConstants` | `Snapshots` | deltas are bodies over the fields; the mark for a deleted key is no marker; kernels |
| `RowsAreApart` | `Boundaries` | a request is not a correction, and only running processes die |
| `EventsAreTimed` | `ThreadStream` | an exported event has a time, and 0 stands for none |
| `RepositoriesAreNamed` | `Contracts` | the mark for "nobody" is no process |
| `OpenIsNoRoute` | `ResearchRuntime` | the mark for "no route" names none |
| `RootIsNoUnit` | `GraphBuild` | the root's name is no unit's |
| `PhasesAssumption` | `Phases` | every phase of the recipe has steps; the mark for a caller's child is no phase; outcomes, phases and folds are sequences |
| `GoalsAssumption` | `Goals` | a clause names an outcome and the one it refers to; listed domains have an id and a text; "nothing" is no text |

### 7.8 Model-checked only

Liveness (`PendingIsDispatched`, `FinishesOrStranded`, `ResultIsApplied`) rests
on fairness and ENABLED and is out of the prover's reach; the properties of the
violated runs are false. Every invariant and every action property that a
passing run checks is stated by a theorem.

The invariants were checked by TLC on the instances of section 6 before they
were proved; the theorems carry them beyond the bounds of section 6.1.

## 8. Findings

Each is a run that ends in a violation; `PROJECT.json` quotes the promise.

1. `unresolved`: a receipt without any thread id makes the attempt and the
   task active (`store_dispatch.py:548`).
2. `globs`: ownership rows are compared as rendered strings with plain lease
   paths (`scheduler/global_scheduler.py:705`, `scheduler/conflicts.py:11`).
3. `duplicate`: the check of the outbox row and its mark are two steps, and a
   row can be marked twice (`engine/action_bridge.py:831-837`).
4. `missed`: a follower in the process of a writer that appends through the
   Store reads the open transaction; after a rollback the number is used again,
   behind its cursor (`journal.py:544`, `store_services.py:379-388`).
5. `stuck`: the journal takes its lock and then the Store's, and inside a
   transaction of the Store the other way round (`journal.py:413`, `427`, `770`).
6. `locked`: a requested route without a reasoning level counts as none, and the
   resolved one stands in for it (`adapters/host/base.py:991`).

### 8.1 Behaviour met while modelling that no run refutes

The models contain the following as the code has it; the properties are stated
so that they say what holds beside it. Where the repository says otherwise the
line is named.

* Dispatch: a drive cycle that meets a paused run skips the engine tick but
  schedules and dispatches in its reconciliation (`engine/coordinator_driver.py:190`);
  recovery re-creates claims without counting them, so late receipts and retries
  lead beyond the budget (`store_resources.py:415`), while `store_resources.py:163-165`
  says of `claim_resources` that independent connections cannot oversubscribe.
* Lane: a unit whose attempt was blocked and that is then retried keeps the
  claim that recovery re-creates and stays ready (`store_resources.py:492`),
  against "dependency-ready work is released immediately"
  (`src/plugins/allinluna/skills/allinluna/SKILL.md:52-53`);
  an old blocked result brought again after a retry ends the new attempt;
  a receipt that comes after a retry links the new attempt to the old thread;
  a crash between the unit's transition and the end of its attempt leaves the
  slot taken; a receipt "failed" fails a unit and keeps its claim and lease; an
  embedded execution is repeated after a crash.
* Journal: `set_status` alone changes a run's status and no signal tells of it
  (`journal.py:699`), against "every state change must have its corresponding
  signal in the same transaction" (`contracts.py:1541`).
* Snapshots: rebuild and compact keep no inputs a caller had named.
* Host: a thread the host made and never named is asked for again; events
  without a thread id are taken as this thread's.
* Boundaries: a stale rejection is still announced, a correction is sent again
  after a crash, and a failed one blocks completion for good.
* Evidence: without a base commit, committed claims are compared with working
  files; head equal to base never verifies; a bundle may name the base while a
  later commit is verified.
* Contracts: `apply_delta` drops `verification_specs`; the Store answers a
  conflicting insert with the row that exists.
* Graphs: a refused `add_task` drops a contract nothing else refers to;
  `ready_tasks` never satisfies `exports_available` edges.
* Routes: a receipt is stored before its route is judged, and its replay judges
  nothing.
* Capability: the scopes of the host's answer are compared with nothing, so that
  a partial grant runs all of them, and a provider that takes no scopes is asked
  without (`adapters/capability/adapter.py:195`, `365`); a fallback is judged by
  its description in the binding, and what is registered runs. The module's
  first line calls its boundaries fail-closed.
* Research: `downgrade_canonical` stores whatever next state it is given, a route
  too, without a decision (`runtime.py:241-268` of Research Routes); a pack
  opened from its own snapshot loses its canonical state; a rewound route stays
  canonical.
* Goals and phases: in "A and B then C" C waits for B only, and in "C after A
  and B" A and B become domains of their own while the reference stays one text,
  so that C waits for the one that resembles it most; `packs/goal_compiler.py:9-10`
  says that dependency phrases are preserved. Phases folded into
  another repeat its recipe. A reference is scored by ten points for each word
  it shares with an outcome, without a limit: an outcome that shares nine words
  outranks one with the same slug (80), and eleven outrank the same id (100).
  `StatedOrderIsKept` is about outcomes that share fewer than eight.
* Children with dependencies of their own: one that names none waits for
  nothing, and as the last child of its phase it becomes what the next phase
  waits for, which then no longer waits for the recipe's steps
  (`packs/gsd.py:909` and `405-410`).
* Phases seeded out of order: where the configuration names first phases that
  are not the first of the recipe, or "clarify" is seeded and is not the first,
  the phases before them are added after the answers, behind nothing, and the
  steps that are there already do not wait for them (`packs/gsd.py:207-212`).
  `StepsWaitForEarlierPhases` is about the other policies; the last policy of
  the instance is one of these.

## 9. Not modelled

* Legacy import (one shot), the DeepSeek launcher, build, distribution and
  validation scripts: pure I/O with no state that later steps decide on.
* Scores, critical paths and the ranking of units: the order of candidates is
  left nondeterministic, which allows more than the code does.
* Research compilation beyond the checks that guard promotion: text and layout.
* Lease renewal, which nothing in the runtime calls; changes of a run's policy
  while it runs; several lanes on one budget; nested sub-lanes.
* Time: leases expire whenever they like, so no property speaks of a duration.
* Parsing of handoff texts and host payloads: an answer is one of a few kinds.

What would come next: the retry of a top-level task with two processes as a
refinement with weaker promises, and two lanes sharing the top-level budget.
