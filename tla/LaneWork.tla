------------------------------ MODULE LaneWork ------------------------------
(***************************************************************************)
(* The inside of one task lane: its work units, from a proposal to the     *)
(* lane handoff.                                                           *)
(*                                                                         *)
(* LaneDriver.tick is one long sequence: expand the work graph, finish     *)
(* durable direct results, resume unresolved attempts, schedule ready      *)
(* units, dispatch each one, read the handoffs.  (Corrections, promotions  *)
(* and the synthesis of the lane handoff are in module Boundaries.)  A     *)
(* unit is done by a native worker (a spawned thread), by an executor      *)
(* embedded in the process, or by the caller, who is handed a durable      *)
(* lane-direct plan and brings a result back with another command.         *)
(*                                                                         *)
(* Every action is one transaction, one read or one host call; a process   *)
(* may die between any two.  What a tick raises ends that tick only.       *)
(***************************************************************************)
EXTENDS Naturals, FiniteSets

CONSTANTS
  Units,        \* work units of the lane
  Late,         \* units the expander proposes while the lane runs
  UnitDeps,     \* UnitDeps[u]: the units u depends on
  Parent,       \* Parent[u]: the set holding u's parent, or {}
  Writes,       \* Writes[u]: the paths u may write
  Mode,         \* Mode[u]: the local_execution_mode
  Procs,        \* processes that share the database
  Drivers,      \* those that run LaneDriver.tick
  Callers,      \* those that issue commands
  LaneLimit,    \* ResourceBroker's slots for this lane
  Embedded,     \* whether a driver has an embedded executor
  Native,       \* what discovering the native tool may answer
  Replies,      \* what spawning a worker may answer
  Verdicts,     \* what verifying a claimed completion may yield
  Outcomes,     \* statuses a worker, executor or caller may report
  Operations,   \* operator and coordinator commands that may be issued
  MaxAttempts,  \* bound: MaxAttempts[u] is the number of attempts of u
  MaxFaults,    \* bound: crashes, retries, cancellations and late receipts
  NoKey         \* "no attempt", a model value

Modes == {"native_preferred", "native_required", "direct_only"}
UnitStates == {"none", "proposed", "ready", "delegated", "active", "blocked",
               "failed", "completed", "cancelled"}
WorkAttemptStates == {"none", "created", "delegated", "active", "closed",
                      "blocked", "failed", "completed"}
ReceiptStates == {"none", "pending", "active", "closed", "failed"}

\* The dispatch key digests the unit and the attempt number.
Keys == UNION {{u} \X (1 .. MaxAttempts[u]) : u \in Units}

ASSUME LaneConstants ==
  /\ Late \subseteq Units /\ Drivers \subseteq Procs /\ Callers \subseteq Procs
  /\ UnitDeps \in [Units -> SUBSET Units] /\ Parent \in [Units -> SUBSET Units]
  /\ Mode \in [Units -> Modes]
  /\ Embedded \subseteq BOOLEAN /\ Native \subseteq BOOLEAN
  /\ Replies \subseteq ReceiptStates \union {"bad", "unavailable", "error"}
  /\ Verdicts \subseteq {"completed", "blocked"}
  /\ Outcomes \subseteq {"completed", "blocked", "failed", "outside"}
  /\ LaneLimit \in Nat /\ MaxAttempts \in [Units -> Nat] /\ MaxFaults \in Nat
  /\ NoKey \notin Units \X Nat

VARIABLES
  unit, attempt, link, outbox, plan, result, attached, receipt,
  lease, slot, recorded,                      \* the database
  worker, published, done,                    \* the host and the callers
  pc, todo, batch, cur, ho, back,             \* each process
  faults

progress == <<unit, attempt, link>>
intents  == <<outbox, plan, receipt>>
results  == <<result, attached, recorded>>
claims   == <<lease, slot>>

rows    == <<progress, intents, results, claims>>
outside == <<worker, published, done>>
memory  == <<pc, todo, batch, cur, ho, back>>
vars    == <<rows, outside, memory, faults>>

-----------------------------------------------------------------------------
(* Helpers *)

KeysOf(u)  == {k \in Keys : k[1] = u}
Inserted(u) == {k \in KeysOf(u) : attempt[k] # "none"}
Settled    == {"completed", "blocked", "failed", "cancelled"}
Threaded   == {"active", "closed", "failed"}

\* The newest attempt of u in one of "states"; at most one.
Latest(u, states) ==
  {k \in KeysOf(u) : /\ attempt[k] \in states
                     /\ \A j \in KeysOf(u) : attempt[j] \in states => j[2] <= k[2]}

\* The attempt the next dispatch of u will insert.
NextKey(u) == <<u, Cardinality(Inserted(u)) + 1>>

\* The work a lane claim or an owner's slot stands for: reconcile's query.
SlotFact(u) ==
  \/ unit[u] \in {"delegated", "active"}
  \/ \E k \in KeysOf(u) : attempt[k] \in {"created", "delegated", "active", "blocked"}
  \/ \E k \in KeysOf(u) : outbox[k] \in {"pending", "emitted"}
  \/ u \in lease

\* Mutant: a dependency counts as soon as it runs.
DependenciesStarted(u) ==
  \A d \in UnitDeps[u] : unit[d] \in {"active", "completed"}

DependenciesReady(u) ==
  /\ \A d \in UnitDeps[u] : unit[d] = "completed"
  /\ \A d \in Parent[u] : unit[d] \notin {"cancelled", "failed"}

ReadyUnits == {u \in Units : /\ unit[u] \in {"proposed", "ready"}
                             /\ DependenciesReady(u)}

Clash(u, v) == Writes[u] \intersect Writes[v] # {}

\* filter_ownership_conflicts: no clash with a lease (its own included), none
\* inside the batch, and every ready unit left out clashes with one of them.
Filtered(B) ==
  /\ B \subseteq ReadyUnits
  /\ \A u \in B : \A v \in (B \ {u}) \union lease : ~Clash(u, v)
  /\ \A u \in ReadyUnits \ B : \E v \in B \union lease : Clash(u, v)

\* The attempts a tick takes up again: no durable receipt yet.
Unresolved == {k \in Keys : /\ unit[k[1]] \in {"delegated", "active"}
                            /\ attempt[k] \in {"delegated", "active"}
                            /\ link[k] = NoKey}

At(p, label) == pc[p] = label
Goto(p, label) == pc' = [pc EXCEPT ![p] = label]

\* A tick or command that returned or raised keeps nothing.
Forget(p) ==
  /\ Goto(p, "idle")
  /\ todo'  = [todo EXCEPT ![p] = {}]
  /\ batch' = [batch EXCEPT ![p] = {}]
  /\ cur'   = [cur EXCEPT ![p] = NoKey]
  /\ ho'    = [ho EXCEPT ![p] = "none"]
  /\ back'  = [back EXCEPT ![p] = "idle"]

\* Back to the loop at "label" with the current key dealt with.
Next1(p, label) ==
  /\ Goto(p, label)
  /\ todo' = [todo EXCEPT ![p] = @ \ {cur[p]}]
  /\ cur'  = [cur EXCEPT ![p] = NoKey]
  /\ ho'   = [ho EXCEPT ![p] = "none"]
  /\ back' = [back EXCEPT ![p] = "idle"]
  /\ UNCHANGED batch

Loop(p, label, S) ==
  /\ Goto(p, label)
  /\ todo' = [todo EXCEPT ![p] = S]
  /\ UNCHANGED <<batch, cur, ho, back>>

Skip(p, k) ==
  /\ todo' = [todo EXCEPT ![p] = @ \ {k}]
  /\ UNCHANGED <<rows, outside, pc, batch, cur, ho, back, faults>>

Enter(p, label, k, h, b) ==
  /\ Goto(p, label)
  /\ cur'  = [cur EXCEPT ![p] = k]
  /\ ho'   = [ho EXCEPT ![p] = h]
  /\ back' = [back EXCEPT ![p] = b]
  /\ UNCHANGED <<todo, batch>>

Step(p, label) == Goto(p, label) /\ UNCHANGED <<todo, batch, cur, ho, back>>

-----------------------------------------------------------------------------
(* The tick, first part: the work graph and durable results *)

Init ==
  /\ unit = [u \in Units |-> IF u \in Late THEN "none" ELSE "proposed"]
  /\ attempt  = [k \in Keys |-> "none"]  /\ link = [k \in Keys |-> NoKey]
  /\ outbox   = [k \in Keys |-> "none"]  /\ plan = [k \in Keys |-> "none"]
  /\ result   = [k \in Keys |-> "none"]  /\ attached = [k \in Keys |-> "none"]
  /\ receipt  = [k \in Keys |-> "none"]
  /\ lease = {} /\ slot = {} /\ recorded = {}
  /\ worker = [k \in Keys |-> 0]         /\ published = [k \in Keys |-> "none"]
  /\ done = {}
  /\ pc = [p \in Procs |-> "idle"]       /\ todo = [p \in Procs |-> {}]
  /\ batch = [p \in Procs |-> {}]        /\ cur = [p \in Procs |-> NoKey]
  /\ ho = [p \in Procs |-> "none"]       /\ back = [p \in Procs |-> "idle"]
  /\ faults = 0

Tick(p) ==
  /\ At(p, "idle") /\ p \in Drivers
  /\ Loop(p, "expand", {})
  /\ UNCHANGED <<rows, outside, faults>>

\* create_work_unit inserts the row before assert_narrowing may refuse it,
\* and a refusal ends the tick with the row in place.
Create(p, u) ==
  /\ At(p, "expand") /\ unit[u] = "none"
  /\ \A d \in UnitDeps[u] \union Parent[u] : unit[d] # "none"
  /\ unit' = [unit EXCEPT ![u] = "proposed"]
  /\ \/ Step(p, "expand")
     \/ Parent[u] # {} /\ Forget(p)
  /\ UNCHANGED <<intents, results, claims, attempt, link, outside,
                faults>>

\* _resume_direct_results reads the plans, with their results, once.
Expanded(p) ==
  /\ At(p, "expand")
  /\ Loop(p, "replay", {k \in Keys : result[k] # "none"})
  /\ UNCHANGED <<rows, outside, faults>>

\* Mutant: the result is taken for settled as soon as its row says so.
ReplayNothing(p, k) == At(p, "replay") /\ k \in todo[p] /\ Skip(p, k)

Replay(p, k) ==
  /\ At(p, "replay") /\ k \in todo[p]
  /\ \A j \in todo[p] : j[1] = k[1] => k[2] <= j[2]
  /\ IF unit[k[1]] \in Settled
     THEN Skip(p, k)
     ELSE /\ Enter(p, "read", k, "none", "replay")
          /\ UNCHANGED <<rows, outside, faults>>

\* resume_unresolved_actions
Replayed(p) ==
  /\ At(p, "replay") /\ todo[p] = {}
  /\ Loop(p, "scan", Unresolved)
  /\ UNCHANGED <<rows, outside, faults>>

-----------------------------------------------------------------------------
(* The tick, second part: LocalScheduler.step *)

\* Leases whose time is up expire; then the ready units that clash neither
\* with a lease nor with each other.
Scan(p) ==
  /\ At(p, "scan")
  /\ \E gone \in SUBSET lease : lease' = lease \ gone
  /\ Goto(p, "claim")
  /\ UNCHANGED <<progress, intents, results, slot, outside, todo,
                batch, cur, ho, back, faults>>

Room == IF Cardinality(slot) < LaneLimit THEN LaneLimit - Cardinality(slot) ELSE 0

\* claim_resources: a unit that holds a claim gets none, and nobody gets one
\* beyond the limit.
Claim(p) ==
  /\ At(p, "claim")
  /\ \E B \in SUBSET Units :
       /\ Filtered(B)
       /\ LET open == {u \in B \ slot : NextKey(u) \in Keys} IN
          \E G \in SUBSET open :
            /\ Cardinality(G) = IF Cardinality(open) < Room THEN Cardinality(open) ELSE Room
            /\ slot' = slot \union G
            /\ batch' = [batch EXCEPT ![p] = {<<u, unit[u]>> : u \in G}]
  /\ Goto(p, "acquire")
  /\ UNCHANGED <<progress, intents, results, lease, outside, todo,
                cur, ho, back, faults>>

LeaseFree(u) == \A v \in lease : ~Clash(u, v)

Acquire(p, u) ==
  /\ At(p, "acquire") /\ NextKey(u) \in Keys
  /\ \E s \in {"proposed", "ready"} :
       /\ <<u, s>> \in batch[p]
       /\ IF LeaseFree(u)
          THEN /\ lease' = lease \union {u} /\ UNCHANGED slot
               /\ Enter(p, "insert", NextKey(u), s, "idle")
          ELSE /\ slot' = slot \ {u} /\ UNCHANGED lease
               /\ batch' = [batch EXCEPT ![p] = @ \ {<<u, s>>}]
               /\ UNCHANGED <<pc, todo, cur, ho, back>>
  /\ UNCHANGED <<progress, intents, results, outside, faults>>

Insert(p) ==
  /\ At(p, "insert")
  /\ attempt' = [attempt EXCEPT ![cur[p]] = "created"]
  /\ Step(p, IF ho[p] = "proposed" THEN "promote" ELSE "look")
  /\ UNCHANGED <<intents, results, claims, unit, link, outside,
                faults>>

\* update_work_unit_status: a move the transition table refuses ends the tick.
Moves(p, from, to, label) ==
  LET u == cur[p][1] IN
  /\ IF unit[u] \in from
     THEN unit' = [unit EXCEPT ![u] = to] /\ Step(p, label)
     ELSE Forget(p) /\ UNCHANGED unit
  /\ UNCHANGED <<intents, results, claims, attempt, link, outside, faults>>

\* A unit the snapshot showed as proposed is made ready, in a transaction ...
Promote(p) ==
  /\ At(p, "promote")
  /\ Moves(p, {"proposed", "ready", "blocked", "failed"}, "ready", "look")

\* ... then it is read again, and delegated, in another one, if it was ready.
Look(p) ==
  /\ At(p, "look")
  /\ Step(p, IF unit[cur[p][1]] = "ready" THEN "delegate" ELSE "mark")
  /\ UNCHANGED <<rows, outside, faults>>

Delegate(p) ==
  /\ At(p, "delegate")
  /\ Moves(p, {"proposed", "ready", "delegated"}, "delegated", "mark")

\* A unit that was resumed in this tick is not dispatched a second time.
Mark(p) ==
  /\ At(p, "mark")
  /\ LET k == cur[p] IN
     /\ attempt' = [attempt EXCEPT ![k] = "delegated"]
     /\ todo' = [todo EXCEPT ![p] = IF \E j \in @ : j[1] = k[1] THEN @ ELSE @ \union {k}]
     /\ batch' = [batch EXCEPT ![p] = {b \in @ : b[1] # k[1]}]
  /\ Goto(p, "acquire") /\ cur' = [cur EXCEPT ![p] = NoKey]
  /\ ho' = [ho EXCEPT ![p] = "none"]
  /\ UNCHANGED <<intents, results, claims, unit, link, outside, back, faults>>

Acquired(p) ==
  /\ At(p, "acquire") /\ batch[p] = {}
  /\ Step(p, "dispatch")
  /\ UNCHANGED <<rows, outside, faults>>

-----------------------------------------------------------------------------
(* The tick, third part: LaneEngine.tick dispatches each local action *)

\* NativeSubagentAdapter.resolve_local, asked about a native tool that may
\* have come or gone since the last time.
Route(u, native) ==
  CASE Mode[u] = "direct_only"                 -> "direct"
    [] Mode[u] # "direct_only" /\ native       -> "spawn"
    [] Mode[u] = "native_required" /\ ~native  -> "block"
    [] Mode[u] = "native_preferred" /\ ~native -> "direct"

\* A persisted spawn is used as it is; anything else is resolved again.
Dispatch(p, k) ==
  /\ At(p, "dispatch") /\ k \in todo[p]
  /\ IF plan[k] = "spawn"
     THEN Enter(p, "relay", k, "none", "dispatch")
     ELSE \E native \in Native : Enter(p, Route(k[1], native), k, "none", "dispatch")
  /\ UNCHANGED <<rows, outside, faults>>

\* mark_direct_active
Direct(p) ==
  /\ At(p, "direct")
  /\ LET k == cur[p] IN
     /\ unit' = IF unit[k[1]] = "delegated" THEN [unit EXCEPT ![k[1]] = "active"] ELSE unit
     /\ attempt' = [attempt EXCEPT ![k] = "active"]
  /\ \E embedded \in Embedded : Step(p, IF embedded THEN "execute" ELSE "plan")
  /\ UNCHANGED <<intents, results, claims, link, outside, faults>>

\* The embedded executor does the work in this process and its outcome, once
\* verified, is a handoff.  Nothing durable says that it began.
Execute(p) ==
  /\ At(p, "execute")
  /\ \E s \in Outcomes \ {"failed", "outside"} :
     \E v \in IF s = "completed" THEN Verdicts ELSE {"blocked"} :
       /\ ho' = [ho EXCEPT ![p] = v]
       /\ done' = IF v = "completed" THEN done \union {cur[p]} ELSE done
  /\ Goto(p, "apply")
  /\ UNCHANGED <<rows, worker, published, todo, batch, cur, back, faults>>

\* persist_direct_plan: the row of this attempt, once; a row that holds a spawn
\* is refused and ends the tick.
PlanDirect(p) ==
  /\ At(p, "plan")
  /\ IF plan[cur[p]] = "none"
     THEN /\ plan'   = [plan EXCEPT ![cur[p]] = "direct"]
          /\ outbox' = [outbox EXCEPT ![cur[p]] = "pending"]
     ELSE UNCHANGED <<plan, outbox>>
  /\ IF plan[cur[p]] = "spawn" THEN Forget(p) ELSE Next1(p, "dispatch")
  /\ UNCHANGED <<progress, results, claims, receipt, outside, faults>>

\* persist_resolved_action; a row that already holds a direct plan does not
\* parse as a HostAction and the tick raises, a spawn is left as it is.
Persist(p) ==
  /\ At(p, "spawn")
  /\ IF plan[cur[p]] = "none"
     THEN /\ plan'   = [plan EXCEPT ![cur[p]] = "spawn"]
          /\ outbox' = [outbox EXCEPT ![cur[p]] = "pending"]
     ELSE UNCHANGED <<plan, outbox>>
  /\ IF plan[cur[p]] = "direct" THEN Forget(p) ELSE Step(p, "relay")
  /\ UNCHANGED <<progress, results, claims, receipt, outside, faults>>

\* Mutant: an emitted row is emitted once more.
EmitAgain(p) ==
  /\ At(p, "relay")
  /\ outbox' = [outbox EXCEPT ![cur[p]] = "emitted"]
  /\ Step(p, "invoke")
  /\ UNCHANGED <<progress, results, claims, plan, receipt, outside,
                faults>>

\* ActionBridge.dispatch of a row no host call was made for.
Emit(p) ==
  /\ At(p, "relay") /\ receipt[cur[p]] = "none" /\ outbox[cur[p]] = "pending"
  /\ outbox' = [outbox EXCEPT ![cur[p]] = "emitted"]
  /\ Step(p, "invoke")
  /\ UNCHANGED <<progress, results, claims, plan, receipt, outside,
                faults>>

\* An emitted row is only asked about: the host knows the worker, or it does not
\* or cannot be asked.
Reconcile(p) ==
  /\ At(p, "relay") /\ receipt[cur[p]] = "none" /\ outbox[cur[p]] = "emitted"
  /\ \/ Next1(p, "dispatch")
     \/ /\ worker[cur[p]] > 0
        /\ \E s \in Replies \intersect Threaded :
             Enter(p, "ingest", cur[p], s, "dispatch")
  /\ UNCHANGED <<rows, outside, faults>>

\* The spawn.  A call that raises ends the tick, with a worker or without.
Invoke(p) ==
  /\ At(p, "invoke")
  /\ \E r \in Replies :
       /\ \/ r \notin {"none", "unavailable"} /\ worker' = [worker EXCEPT ![cur[p]] = @ + 1]
          \/ r \in {"none", "unavailable", "error"} /\ UNCHANGED worker
       /\ CASE r = "none"                   -> Next1(p, "dispatch")
            [] r = "error"                  -> Forget(p)
            [] r \in {"bad", "unavailable"} -> Enter(p, "block", cur[p], "none", "dispatch")
            [] OTHER                        -> Enter(p, "ingest", cur[p], r, "dispatch")
  /\ UNCHANGED <<rows, published, done, faults>>

\* The receipt row keeps the status it has unless the new one is progress.
Better(k, s) ==
  \/ receipt[k] = "none"
  \/ receipt[k] = "pending" /\ s \in Threaded
  \/ receipt[k] = "active" /\ s \in Threaded \ {"active"}

\* Mutant: a worker the host calls closed has completed its unit.
ProjectedUnitCompleted(s) ==
  CASE s = "failed" -> "failed" [] s = "closed" -> "completed" [] OTHER -> "active"

\* A host that reports "closed" has not handed the work over.
ProjectedUnit(s) == IF s = "failed" THEN "failed" ELSE "active"

\* The statements a receipt is projected with, whoever projects it.
Projected(u, s) ==
  IF unit[u] \in {"proposed", "ready", "delegated", "active"}
  THEN [unit EXCEPT ![u] = ProjectedUnit(s)] ELSE unit

Acknowledged(k) ==
  IF outbox[k] \in {"pending", "emitted"}
  THEN [outbox EXCEPT ![k] = "acknowledged"] ELSE outbox

\* The work-unit branch of Store.ingest_receipt.  A repeated receipt changes
\* nothing, unless it also brings the thread or the first measured resources:
\* then it is stored as it came.  News that a worker runs leave the unit of an
\* attempt that has ended alone.
StoreReceipt(k, s) ==
  LET to == CASE s = "pending"              -> attempt[k]
              [] s \in {"failed", "closed"} -> s
              [] s = "active"               -> IF attempt[k] \in {"created", "delegated"}
                                               THEN "active" ELSE attempt[k]
  IN
  \/ /\ ~Better(k, s)
     /\ UNCHANGED rows
  \/ /\ receipt' = [receipt EXCEPT ![k] = s]
     /\ attempt' = [attempt EXCEPT ![k] = to]
     /\ link'    = [link EXCEPT ![k] = k]
     /\ unit'    = IF s \in {"failed", "closed"} \/ (s = "active" /\ to = "active")
                   THEN Projected(k[1], s) ELSE unit
     /\ outbox'  = Acknowledged(k)
     /\ UNCHANGED <<results, claims, plan>>

Ingest(p) ==
  /\ At(p, "ingest")
  /\ StoreReceipt(cur[p], ho[p])
  /\ IF ho[p] = "pending" THEN Next1(p, "dispatch") ELSE Step(p, "start")
  /\ UNCHANGED <<outside, faults>>

\* A row whose receipt is known is not sent; the receipt is replayed over the
\* attempt, whatever state that attempt is in by now.
Repair(p) ==
  /\ At(p, "relay") /\ receipt[cur[p]] # "none"
  /\ LET k == cur[p]
         s == receipt[k] IN
     \/ /\ s = "pending"
        /\ Next1(p, "dispatch") /\ UNCHANGED rows
     \/ /\ s # "pending"
        /\ attempt' = [attempt EXCEPT ![k] = s]
        /\ link'    = [link EXCEPT ![k] = k]
        /\ unit'    = Projected(k[1], s)
        /\ outbox'  = Acknowledged(k)
        /\ UNCHANGED <<results, claims, plan, receipt>>
        /\ Step(p, "start")
  /\ UNCHANGED <<outside, faults>>

\* mark_active for u: the unit starts, and so does its newest attempt that was
\* only delegated, with the receipt id of the argument (key "r", or none).
Started(u)  == IF unit[u] = "delegated" THEN "active" ELSE unit[u]
Starting(u) == [k \in Keys |-> IF k \in Latest(u, {"created", "delegated"})
                               THEN "active" ELSE attempt[k]]
Linking(u, r) == [k \in Keys |-> IF k \in Latest(u, {"created", "delegated"})
                                 THEN r ELSE link[k]]

\* Both callers of ingest_receipt go on with mark_active.  The newest attempt
\* need not be the one the receipt is for.
MarkActive(p) ==
  /\ At(p, "start")
  /\ LET u == cur[p][1] IN
     /\ unit' = [unit EXCEPT ![u] = Started(u)]
     /\ attempt' = Starting(u)
     /\ link' = Linking(u, cur[p])
  /\ IF back[p] = "idle" THEN Forget(p) ELSE Next1(p, "dispatch")
  /\ UNCHANGED <<intents, results, claims, outside, faults>>

\* LocalCapabilityUnavailable or a protocol violation: a blocked handoff.
Block(p) ==
  /\ At(p, "block")
  /\ LET u == cur[p][1] IN
     /\ unit' = [unit EXCEPT ![u] = Started(u)]
     /\ attempt' = Starting(u)
     /\ link' = Linking(u, NoKey)
  /\ ho' = [ho EXCEPT ![p] = "blocked"]
  /\ Goto(p, "apply")
  /\ UNCHANGED <<intents, results, claims, outside, todo, batch, cur,
                back, faults>>

\* What the loop leaves behind: the threads to read, as _active_targets has them.
Dispatched(p) ==
  /\ At(p, "dispatch") /\ todo[p] = {}
  /\ Loop(p, "monitor",
          {r \in Keys : /\ receipt[r] \in Threaded
                        /\ \E k \in Keys : /\ link[k] = r
                                            /\ attempt[k] \in {"delegated", "active", "closed"}})
  /\ UNCHANGED <<rows, outside, faults>>

Observe(p, k) ==
  /\ At(p, "monitor") /\ k \in todo[p]
  /\ IF published[k] = "none" \/ k \in recorded
     THEN Skip(p, k)
     ELSE /\ Enter(p, IF published[k] = "outside" THEN "record" ELSE "apply",
                   k, published[k], "monitor")
          /\ UNCHANGED <<rows, outside, faults>>

TickEnd(p) ==
  /\ At(p, "monitor") /\ todo[p] = {}
  /\ Forget(p)
  /\ UNCHANGED <<rows, outside, faults>>

-----------------------------------------------------------------------------
(* A handoff reaches its unit: LocalScheduler.complete *)

\* The verified handoff of a direct result is looked up ...
Read(p) ==
  /\ At(p, "read")
  /\ IF attached[cur[p]] = "none" THEN Step(p, "verify")
     ELSE Enter(p, "apply", cur[p], attached[cur[p]], back[p])
  /\ UNCHANGED <<rows, outside, faults>>

\* ... or made, from independent evidence, and attached unless another process
\* was faster; this process goes on with its own.
Verify(p) ==
  /\ At(p, "verify")
  /\ LET k == cur[p] IN
     \E v \in IF result[k] = "completed" THEN Verdicts ELSE {"blocked"} :
       /\ attached' = IF attached[k] = "none" THEN [attached EXCEPT ![k] = v] ELSE attached
       /\ Enter(p, "apply", k, v, back[p])
  /\ UNCHANGED <<progress, intents, claims, result, recorded, outside,
                faults>>

\* A direct completion must come from the attempt that is live.
Stale(p) ==
  /\ back[p] # "monitor" /\ ho[p] = "completed"
  /\ \E k \in Latest(cur[p][1], {"active", "delegated"}) : k # cur[p]

\* It must carry the digest of the result in its row, if one is there.  That is
\* its own result, unless an embedded executor made another one, or a second
\* caller that had found no result in the row either wrote over it.
MayDiffer(p) ==
  /\ ho[p] = "completed" /\ result[cur[p]] # "none"
  /\ \/ back[p] = "dispatch"
     \/ back[p] \in {"replay", "idle"} /\ Cardinality(Callers) > 1

\* The unit's transition; update_work_unit_status gives the claim back with it.
Apply(p) ==
  /\ At(p, "apply")
  /\ LET u == cur[p][1]
         h == ho[p]
         to == CASE h = "completed" /\ unit[u] \in {"delegated", "active"} -> "completed"
                 [] h \in {"blocked", "failed"} /\ unit[u] = "active"      -> h
                 [] OTHER                                                  -> unit[u]
         late == back[p] \in {"replay", "idle"} /\ unit[u] \in Settled
     IN
     \/ /\ late
        /\ Step(p, "record") /\ UNCHANGED <<progress, slot>>
     \/ /\ ~late /\ (Stale(p) \/ MayDiffer(p))
        /\ Forget(p) /\ UNCHANGED <<progress, slot>>
     \/ /\ ~late /\ ~Stale(p)
        /\ unit' = [unit EXCEPT ![u] = to]
        /\ slot' = IF to # unit[u] THEN slot \ {u} ELSE slot
        /\ IF h = "completed" /\ unit[u] = "delegated"
           THEN /\ attempt' = Starting(u)
                /\ link' = Linking(u, NoKey)
           ELSE UNCHANGED <<attempt, link>>
        /\ Step(p, "finish")
  /\ UNCHANGED <<intents, results, lease, outside, faults>>

\* Its newest live attempt ends with it; claim and lease are given back,
\* whatever happened to the unit.
Finish(p) ==
  /\ At(p, "finish")
  /\ LET u == cur[p][1] IN
     /\ attempt' = [k \in Keys |-> IF k \in Latest(u, {"active", "delegated"})
                                   THEN ho[p] ELSE attempt[k]]
     /\ slot'  = slot \ {u}
     /\ lease' = lease \ {u}
  /\ IF back[p] = "dispatch" THEN Next1(p, "dispatch") ELSE Step(p, "record")
  /\ UNCHANGED <<intents, results, unit, link, outside, faults>>

\* record_driver_handoff
Record(p) ==
  /\ At(p, "record")
  /\ recorded' = recorded \union {cur[p]}
  /\ IF back[p] = "idle" THEN Forget(p) ELSE Next1(p, back[p])
  /\ UNCHANGED <<progress, intents, claims, result, attached, outside,
                faults>>

-----------------------------------------------------------------------------
(* Commands, the coordinator, the host *)

Fault == faults < MaxFaults /\ faults' = faults + 1

Issue(p, command) == At(p, "idle") /\ p \in Callers /\ command \in Operations

\* ingest_direct_result: the caller did the work of a durable plan.  The row is
\* read here and written in another step.
Bring(p, k, s) ==
  /\ Issue(p, "result")
  /\ plan[k] = "direct"
  /\ CASE result[k] = "none" -> Enter(p, "write", k, s, "idle")
       [] result[k] = s      -> Enter(p, "read", k, "none", "idle")
       [] OTHER              -> Forget(p)
  /\ UNCHANGED <<rows, outside, faults>>

Write(p) ==
  /\ At(p, "write")
  /\ result' = [result EXCEPT ![cur[p]] = ho[p]]
  /\ outbox' = [outbox EXCEPT ![cur[p]] = "acknowledged"]
  /\ Step(p, "verify")
  /\ UNCHANGED <<progress, claims, plan, attached, receipt, recorded,
                outside, faults>>

\* Mutant: completed work can be retried too.
RetryAny(p, u) ==
  /\ Issue(p, "retry") /\ Fault /\ unit[u] \in {"blocked", "failed", "completed"}
  /\ unit' = [unit EXCEPT ![u] = "ready"]
  /\ UNCHANGED <<intents, results, claims, attempt, link, outside,
                memory>>

Retry(p, u) ==
  /\ Issue(p, "retry") /\ Fault /\ unit[u] \in {"blocked", "failed"}
  /\ NextKey(u) \in Keys
  /\ unit' = [unit EXCEPT ![u] = "ready"]
  /\ UNCHANGED <<intents, results, claims, attempt, link, outside,
                memory>>

\* A unit that has not begun is refused by the transition table; one that runs
\* or is settled is left alone, and loses its slot.
Cancel(p, u) ==
  /\ Issue(p, "cancel") /\ Fault /\ unit[u] \notin {"none", "proposed", "ready"}
  /\ unit' = IF unit[u] \in {"blocked", "failed"} THEN [unit EXCEPT ![u] = "cancelled"] ELSE unit
  /\ slot' = slot \ {u}
  /\ UNCHANGED <<intents, results, attempt, link, lease, outside,
                memory>>

\* A receipt of a spawn brought by a command, possibly late.
LateReceipt(p, k, s) ==
  /\ Issue(p, "receipt") /\ Fault /\ worker[k] > 0
  /\ s \in Replies \intersect Threaded
  /\ StoreReceipt(k, s)
  /\ Enter(p, "start", k, s, "idle")
  /\ UNCHANGED outside

\* The coordinator rebuilds the lane's claims from facts on every cycle.
Recover(p) ==
  /\ Issue(p, "recover")
  /\ slot' = {u \in Units : SlotFact(u)}
  /\ UNCHANGED <<progress, intents, results, lease, outside, memory,
                faults>>

Publish(k) ==
  /\ worker[k] > 0 /\ published[k] = "none"
  /\ \E s \in Outcomes : published' = [published EXCEPT ![k] = s]
  /\ UNCHANGED <<rows, worker, done, memory, faults>>

Crash(p) ==
  /\ ~At(p, "idle") /\ Fault
  /\ Forget(p)
  /\ UNCHANGED <<rows, outside>>

-----------------------------------------------------------------------------

Continue(p) ==
  \/ \E u \in Late : Create(p, u)
  \/ Expanded(p) \/ Replayed(p)
  \/ \E k \in Keys : Replay(p, k) \/ Dispatch(p, k) \/ Observe(p, k)
  \/ Scan(p) \/ Claim(p) \/ Insert(p) \/ Promote(p) \/ Look(p) \/ Delegate(p)
  \/ Mark(p) \/ Acquired(p)
  \/ \E u \in Units : Acquire(p, u)
  \/ Direct(p) \/ Execute(p) \/ PlanDirect(p) \/ Persist(p) \/ Emit(p)
  \/ Reconcile(p) \/ Invoke(p) \/ Ingest(p) \/ Repair(p) \/ MarkActive(p)
  \/ Block(p) \/ Dispatched(p)
  \/ TickEnd(p) \/ Read(p) \/ Verify(p) \/ Apply(p) \/ Finish(p) \/ Record(p)
  \/ Write(p)

Command(p) ==
  \/ \E k \in Keys, s \in Outcomes \ {"outside"} : Bring(p, k, s)
  \/ \E u \in Units : Retry(p, u) \/ Cancel(p, u)
  \/ Recover(p)
  \/ \E k \in Keys, s \in ReceiptStates : LateReceipt(p, k, s)

Next ==
  \/ \E p \in Procs : Tick(p) \/ Continue(p) \/ Command(p) \/ Crash(p)
  \/ \E k \in Keys : Publish(k)

Spec == Init /\ [][Next]_vars

\* The driver keeps ticking, and a command that began goes on.  Nothing else is
\* promised: not that a worker publishes, nor that anybody issues a command.
Fairness ==
  /\ \A p \in Procs : WF_vars(Tick(p)) /\ WF_vars(Continue(p))

LiveSpec == Spec /\ Fairness

-----------------------------------------------------------------------------
(* Properties *)

Labels == {"idle", "expand", "replay", "read", "verify", "apply", "finish", "record",
           "scan", "claim", "acquire", "insert", "promote", "look", "delegate", "mark",
           "dispatch", "direct", "execute", "plan", "spawn", "relay", "invoke", "ingest",
           "start", "block", "monitor", "write"}

\* Every variable keeps its type; statuses stay inside the stored enumerations.
TypeOK ==
  /\ unit \in [Units -> UnitStates] /\ attempt \in [Keys -> WorkAttemptStates]
  /\ link \in [Keys -> Keys \union {NoKey}] /\ recorded \subseteq Keys
  /\ outbox \in [Keys -> {"none", "pending", "emitted", "acknowledged"}]
  /\ plan \in [Keys -> {"none", "spawn", "direct"}]
  /\ result \in [Keys -> Outcomes \union {"none"}]
  /\ attached \in [Keys -> {"none", "completed", "blocked"}]
  /\ receipt \in [Keys -> ReceiptStates]
  /\ lease \subseteq Units /\ slot \subseteq Units
  /\ worker \in [Keys -> Nat] /\ done \subseteq Keys
  /\ published \in [Keys -> Outcomes \union {"none"}]
  /\ pc \in [Procs -> Labels] /\ todo \in [Procs -> SUBSET Keys]
  /\ batch \in [Procs -> SUBSET (Units \X UnitStates)] /\ cur \in [Procs -> Keys \union {NoKey}]
  /\ ho \in [Procs -> Outcomes \union ReceiptStates \union {"completed", "blocked", "proposed", "ready"}]
  /\ back \in [Procs -> {"idle", "replay", "dispatch", "monitor"}] /\ faults \in Nat

\* A unit that ever started had its dependencies completed first, and no later
\* step takes the dependency back, not even a retry or a late receipt.
StartedAfterDependencies ==
  \A u \in Units : unit[u] \in {"delegated", "active", "completed"} =>
    \A d \in UnitDeps[u] : unit[d] = "completed"

\* Completed work is never reopened, by retries, late receipts or replays.
CompletedStays ==
  [][\A u \in Units : unit[u] = "completed" => unit'[u] = "completed"]_vars

\* No unit completes on a host lifecycle status: somebody's completed handoff,
\* published, brought or executed for one of its attempts, is behind it.
CompletedIsBacked ==
  \A u \in Units : unit[u] = "completed" =>
    \E k \in KeysOf(u) : \/ published[k] = "completed"
                        \/ result[k] = "completed"
                        \/ k \in done

\* A durable result of a unit's only attempt settles the unit, also when the
\* process that brought it died before it told the unit.  (After a retry it need
\* not: an old result ends the new attempt and leaves the unit active.)
Unapplied(k) ==
  /\ result[k] # "none" /\ unit[k[1]] \in {"delegated", "active"}
  /\ Inserted(k[1]) = {k}

ResultIsApplied ==
  \A k \in Keys : Unapplied(k) ~> (unit[k[1]] \in Settled)

\* How far the outbox row of a key has come, in the words of Intents.
IntentOf(k) ==
  CASE outbox[k] = "none"    -> "none"
    [] outbox[k] = "pending" -> "written"
    [] outbox[k] = "emitted" -> "sent"
    [] OTHER                 -> "settled"

Promise == INSTANCE Intents WITH
  Key      <- Keys,
  intent   <- [k \in Keys |-> IntentOf(k)],
  work     <- worker,
  answered <- {k \in Keys : receipt[k] # "none"}

\* The lane keeps the promise of module Intents for its workers too, although
\* the tick that called the host may die before it stored the answer: no intent
\* has two workers, and none is spawned for a row that is acknowledged.
IntentsKept == Promise!Spec

=============================================================================
