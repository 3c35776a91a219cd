---------------------------- MODULE Lane_proofs ----------------------------
(***************************************************************************)
(* What is proved about module LaneWork, for every set of units and every  *)
(* graph over them. For any number of drivers: the rows keep their types,  *)
(* a completed unit keeps its state, and a unit is only started after its  *)
(* dependencies. While at most one process brings results, a unit          *)
(* completes only on somebody's completed handoff, and every step is a     *)
(* step of an intent of module Intents.                                    *)
(*                                                                         *)
(* The invariant of a completion follows it through the memory of a        *)
(* process: the handoff it is about to apply is backed by the world or by  *)
(* a row.                                                                  *)
(***************************************************************************)
EXTENDS LaneWork, TLAPS

Holding == {"insert", "promote", "look", "delegate", "mark", "direct", "execute", "plan", "spawn",
"relay", "invoke",
            "ingest", "start", "block", "read", "verify", "apply", "finish", "record", "write"}
Applying == {"apply", "finish"}

Backed(k) == published[k] = "completed" \/ result[k] = "completed" \/ k \in done

\* What process p knows wherever it is.
Knows(p) ==
  /\ pc[p] \in Holding => cur[p] \in Keys
  /\ pc[p] \in Applying => ho[p] \in {"completed", "blocked", "failed"}
  /\ pc[p] = "ingest" => ho[p] \in ReceiptStates \ {"none"}
  /\ pc[p] = "write" => ho[p] \in Outcomes

RowsOK ==
  /\ unit \in [Units -> UnitStates] /\ attempt \in [Keys -> WorkAttemptStates]
  /\ link \in [Keys -> Keys \union {NoKey}] /\ recorded \subseteq Keys
  /\ outbox \in [Keys -> {"none", "pending", "emitted", "acknowledged"}]
  /\ plan \in [Keys -> {"none", "spawn", "direct"}]
  /\ result \in [Keys -> Outcomes \union {"none"}]
  /\ attached \in [Keys -> {"none", "completed", "blocked"}]
  /\ receipt \in [Keys -> ReceiptStates]
  /\ lease \subseteq Units /\ slot \subseteq Units
  /\ worker \in [Keys -> Nat] /\ done \subseteq Keys
  /\ published \in [Keys -> Outcomes \union {"none"}]
  /\ faults \in Nat

MemoryOK ==
  /\ pc \in [Procs -> Labels] /\ todo \in [Procs -> SUBSET Keys]
  /\ batch \in [Procs -> SUBSET (Units \X UnitStates)] /\ cur \in [Procs -> Keys \union {NoKey}]
  /\ ho \in [Procs -> Outcomes \union ReceiptStates \union {"completed", "blocked", "proposed",
                         "ready"}]
  /\ back \in [Procs -> {"idle", "replay", "dispatch", "monitor"}]
  /\ \A p \in Procs : Knows(p)

LaneInv == RowsOK /\ MemoryOK

\* What is proved of it with one caller.
Grounded(p) ==
  /\ pc[p] \in Applying /\ ho[p] = "completed" => Backed(cur[p])
  /\ pc[p] = "write" => p \in Callers /\ result[cur[p]] = "none"

BackedInv ==
  /\ LaneInv
  /\ \A p \in Procs : Grounded(p)
  /\ \A k \in Keys : attached[k] = "completed" => result[k] = "completed"
  /\ CompletedIsBacked

LEMMA KeyParts ==
  ASSUME NEW k \in Keys
  PROVE  k[1] \in Units /\ k \in KeysOf(k[1])
BY DEF Keys, KeysOf

LEMMA KeysAreOfUnits == \A u \in Units : KeysOf(u) \subseteq Keys
BY DEF KeysOf

LEMMA LatestIsKnown ==
  ASSUME NEW u, NEW S
  PROVE  Latest(u, S) \subseteq Keys
BY DEF Latest, KeysOf

LEMMA InitLane == Init => LaneInv
<1>1. ASSUME Init PROVE RowsOK
  BY <1>1, LaneConstants DEF Init, RowsOK, UnitStates, WorkAttemptStates, ReceiptStates
<1>2. ASSUME Init PROVE MemoryOK
  BY <1>2 DEF Init, MemoryOK, Labels, ReceiptStates, Knows, Holding, Applying
<1> QED
  BY <1>1, <1>2 DEF LaneInv

LEMMA ForgetKeeps ==
  ASSUME MemoryOK, NEW p \in Procs, Forget(p)
  PROVE  MemoryOK'
<1>1. ASSUME NEW q \in Procs PROVE Knows(q)'
  BY DEF MemoryOK, Knows, Forget, Goto, Holding, Applying
<1> QED
  BY <1>1 DEF MemoryOK, Forget, Goto, Labels, ReceiptStates

\* The work graph and durable results.
LEMMA GraphSteps ==
  ASSUME LaneInv, NEW p \in Procs,
         \/ Tick(p)
         \/ \E u \in Late : Create(p, u)
         \/ Expanded(p)
         \/ \E k \in Keys : Replay(p, k)
         \/ Replayed(p)
  PROVE  LaneInv'
<1> USE DEF LaneInv, RowsOK, MemoryOK, Knows, Goto, At, Loop, Enter, Step, Skip, Next1, rows,
            progress, intents, results, claims, outside, memory, Labels, UnitStates,
            WorkAttemptStates, ReceiptStates, Holding, Applying
<1>1. ASSUME Tick(p) PROVE LaneInv'
  BY <1>1 DEF Tick
<1>2. ASSUME NEW u \in Late, Create(p, u) PROVE LaneInv'
  <2>1. RowsOK'
    BY <1>2, LaneConstants DEF Create
  <2>2. CASE Forget(p)
    BY <2>1, <2>2, ForgetKeeps
  <2>3. CASE Step(p, "expand")
    BY <2>1, <2>3
  <2> QED
    BY <1>2, <2>2, <2>3 DEF Create
<1>3. ASSUME Expanded(p) PROVE LaneInv'
  BY <1>3 DEF Expanded
<1>4. ASSUME NEW k \in Keys, Replay(p, k) PROVE LaneInv'
  <2>1. RowsOK'
    BY <1>4 DEF Replay
  <2>2. CASE Skip(p, k)
    BY <1>4, <2>1, <2>2 DEF Replay
  <2>3. CASE Enter(p, "read", k, "none", "replay")
    BY <1>4, <2>1, <2>3 DEF Replay
  <2> QED
    BY <1>4, <2>2, <2>3 DEF Replay
<1>5. ASSUME Replayed(p) PROVE LaneInv'
  BY <1>5 DEF Replayed, Unresolved
<1> QED
  BY <1>1, <1>2, <1>3, <1>4, <1>5

\* Slots, leases and attempts.
LEMMA SchedulingSteps ==
  ASSUME LaneInv, NEW p \in Procs,
         \/ Scan(p)
         \/ Claim(p)
         \/ \E u \in Units : Acquire(p, u)
         \/ Insert(p)
         \/ Promote(p)
         \/ Look(p)
         \/ Delegate(p)
         \/ Mark(p)
         \/ Acquired(p)
  PROVE  LaneInv'
<1> USE DEF LaneInv, RowsOK, MemoryOK, Knows, Goto, At, Loop, Enter, Step, Skip, Next1, rows,
            progress, intents, results, claims, outside, memory, Labels, UnitStates,
            WorkAttemptStates, ReceiptStates, Holding, Applying
<1>1. ASSUME Scan(p) PROVE LaneInv'
  BY <1>1 DEF Scan
<1>2. ASSUME Claim(p) PROVE LaneInv'
  <2>1. RowsOK'
    BY <1>2 DEF Claim
  <2>2. \A u \in Units : unit[u] \in UnitStates
    OBVIOUS
  <2>3. PICK G \in SUBSET Units : batch' = [batch EXCEPT ![p] = {<<u, unit[u]>> : u \in G}]
    BY <1>2 DEF Claim
  <2>4. {<<u, unit[u]>> : u \in G} \in SUBSET (Units \X UnitStates)
    BY <2>2
  <2>5. UNCHANGED <<todo, cur, ho, back>> /\ pc' = [pc EXCEPT ![p] = "acquire"]
    BY <1>2 DEF Claim
  <2> QED
    BY <2>1, <2>3, <2>4, <2>5
<1>3. ASSUME NEW u \in Units, Acquire(p, u) PROVE LaneInv'
  <2>1. RowsOK'
    BY <1>3 DEF Acquire
  <2>2. ASSUME NEW s \in {"proposed", "ready"}, Enter(p, "insert", NextKey(u), s, "idle")
        PROVE  LaneInv'
    BY <1>3, <2>1, <2>2 DEF Acquire
  <2>3. ASSUME NEW b, batch' = [batch EXCEPT ![p] = @ \ {b}] /\ UNCHANGED <<pc, todo, cur, ho, back>>
        PROVE  LaneInv'
    BY <1>3, <2>1, <2>3 DEF Acquire
  <2> QED
    BY <1>3, <2>2, <2>3 DEF Acquire
<1>4. ASSUME Insert(p) PROVE LaneInv'
  BY <1>4 DEF Insert
<1>5. ASSUME Promote(p) \/ Delegate(p) PROVE LaneInv'
  <2>1. cur[p] \in Keys /\ cur[p][1] \in Units
    BY <1>5, KeyParts DEF Promote, Delegate
  <2>2. RowsOK'
    BY <1>5, <2>1 DEF Promote, Delegate, Moves
  <2>3. Forget(p) \/ Step(p, "look") \/ Step(p, "mark")
    BY <1>5 DEF Promote, Delegate, Moves
  <2>4. MemoryOK'
    BY <2>1, <2>3, ForgetKeeps, <1>5 DEF Promote, Delegate
  <2> QED
    BY <2>2, <2>4
<1>8. ASSUME Look(p) PROVE LaneInv'
  BY <1>8 DEF Look
<1>6. ASSUME Mark(p) PROVE LaneInv'
  BY <1>6, KeyParts DEF Mark
<1>7. ASSUME Acquired(p) PROVE LaneInv'
  BY <1>7 DEF Acquired
<1> QED
  BY <1>1, <1>2, <1>3, <1>4, <1>5, <1>6, <1>7, <1>8

\* Dispatch of one local action.
LEMMA DispatchSteps ==
  ASSUME LaneInv, NEW p \in Procs,
         \/ \E k \in Keys : Dispatch(p, k)
         \/ Direct(p)
         \/ Execute(p)
         \/ PlanDirect(p)
         \/ Persist(p)
         \/ Emit(p)
         \/ Reconcile(p)
         \/ Invoke(p)
         \/ Dispatched(p)
  PROVE  LaneInv'
<1> USE DEF LaneInv, RowsOK, MemoryOK, Knows, Goto, At, Loop, Enter, Step, Skip, Next1, rows,
            progress, intents, results, claims, outside, memory, Labels, UnitStates,
            WorkAttemptStates, ReceiptStates, Holding, Applying
<1>1. ASSUME NEW k \in Keys, Dispatch(p, k) PROVE LaneInv'
  <2>1. \A native \in Native : Route(k[1], native) \in {"direct", "spawn", "block"}
    BY LaneConstants, KeyParts DEF Route, Modes
  <2>2. RowsOK'
    BY <1>1 DEF Dispatch
  <2>3. PICK label \in {"relay", "direct", "spawn", "block"} : Enter(p, label, k, "none", "dispatch")
    BY <1>1, <2>1 DEF Dispatch
  <2>4. MemoryOK'
    BY <2>3
  <2> QED
    BY <2>2, <2>4
<1>2. ASSUME Direct(p) PROVE LaneInv'
  BY <1>2, KeyParts DEF Direct
<1>3. ASSUME Execute(p) PROVE LaneInv'
  BY <1>3, LaneConstants DEF Execute
<1>4. ASSUME PlanDirect(p) PROVE LaneInv'
  <2>1. RowsOK'
    BY <1>4 DEF PlanDirect
  <2>2. Forget(p) \/ Next1(p, "dispatch")
    BY <1>4 DEF PlanDirect
  <2>3. CASE Forget(p)
    BY <2>1, <2>3, ForgetKeeps
  <2>4. CASE Next1(p, "dispatch")
    BY <2>1, <2>4
  <2> QED
    BY <2>2, <2>3, <2>4
<1>5. ASSUME Persist(p) PROVE LaneInv'
  <2>1. RowsOK'
    BY <1>5 DEF Persist
  <2>2. CASE Forget(p)
    BY <2>1, <2>2, ForgetKeeps
  <2>3. CASE Step(p, "relay")
    BY <1>5, <2>1, <2>3 DEF Persist
  <2> QED
    BY <1>5, <2>2, <2>3 DEF Persist
<1>6. ASSUME Emit(p) PROVE LaneInv'
  BY <1>6 DEF Emit
<1>7. ASSUME Reconcile(p) PROVE LaneInv'
  <2>1. CASE Next1(p, "dispatch")
    BY <1>7, <2>1 DEF Reconcile
  <2>2. ASSUME NEW s \in Threaded, Enter(p, "ingest", cur[p], s, "dispatch")
        PROVE  LaneInv'
    BY <1>7, <2>2 DEF Reconcile, Threaded
  <2> QED
    BY <1>7, <2>1, <2>2 DEF Reconcile
<1>8. ASSUME Invoke(p) PROVE LaneInv'
  <2>1. RowsOK'
    BY <1>8 DEF Invoke
  <2>2. CASE Next1(p, "dispatch")
    BY <1>8, <2>1, <2>2 DEF Invoke
  <2>3. CASE Enter(p, "block", cur[p], "none", "dispatch")
    BY <1>8, <2>1, <2>3 DEF Invoke
  <2>4. ASSUME NEW r \in ReceiptStates \ {"none"}, Enter(p, "ingest", cur[p], r, "dispatch")
        PROVE  LaneInv'
    BY <1>8, <2>1, <2>4 DEF Invoke
  <2>5. CASE Forget(p)
    BY <2>1, <2>5, ForgetKeeps
  <2> QED
    BY <1>8, <2>2, <2>3, <2>4, <2>5, LaneConstants DEF Invoke
<1>9. ASSUME Dispatched(p) PROVE LaneInv'
  BY <1>9 DEF Dispatched, Threaded
<1> QED
  BY <1>1, <1>2, <1>3, <1>4, <1>5, <1>6, <1>7, <1>8, <1>9

\* A unit whose receipt is projected.
LEMMA ProjectedRows ==
  ASSUME RowsOK, NEW k \in Keys, NEW s \in {"active", "closed", "failed"}
  PROVE  /\ Projected(k[1], s) \in [Units -> UnitStates]
         /\ Acknowledged(k) \in [Keys -> {"none", "pending", "emitted", "acknowledged"}]
<1>1. ProjectedUnit(s) \in UnitStates
  BY DEF ProjectedUnit, UnitStates
<1> QED
  BY <1>1, KeyParts DEF RowsOK, Projected, Acknowledged

\* What mark_active makes of the attempts.
LEMMA StartingRows ==
  ASSUME RowsOK, NEW u \in Units, NEW r \in Keys \union {NoKey}
  PROVE  /\ Started(u) \in UnitStates
         /\ Starting(u) \in [Keys -> WorkAttemptStates]
         /\ Linking(u, r) \in [Keys -> Keys \union {NoKey}]
BY DEF RowsOK, Started, Starting, Linking, UnitStates, WorkAttemptStates

\* A receipt is stored and projected.
LEMMA StoreKeepsRows ==
  ASSUME RowsOK, NEW k \in Keys, NEW s \in ReceiptStates \ {"none"}, StoreReceipt(k, s)
  PROVE  /\ unit' \in [Units -> UnitStates] /\ attempt' \in [Keys -> WorkAttemptStates]
         /\ link' \in [Keys -> Keys \union {NoKey}] /\ receipt' \in [Keys -> ReceiptStates]
         /\ outbox' \in [Keys -> {"none", "pending", "emitted", "acknowledged"}]
         /\ UNCHANGED <<results, claims, plan>>
<1> DEFINE to == CASE s = "pending"              -> attempt[k]
                   [] s \in {"failed", "closed"} -> s
                   [] s = "active"               -> IF attempt[k] \in {"created", "delegated"}
                                                    THEN "active" ELSE attempt[k]
<1>1. CASE UNCHANGED rows
  BY <1>1 DEF RowsOK, rows, progress, intents, results, claims
<1>2. CASE ~UNCHANGED rows
  <2>1. to \in WorkAttemptStates
    BY DEF RowsOK, WorkAttemptStates, ReceiptStates
  <2>2. /\ receipt' = [receipt EXCEPT ![k] = s] /\ attempt' = [attempt EXCEPT ![k] = to]
        /\ link' = [link EXCEPT ![k] = k] /\ outbox' = Acknowledged(k)
        /\ unit' = unit \/ (s # "pending" /\ unit' = Projected(k[1], s))
        /\ UNCHANGED <<results, claims, plan>>
    BY <1>2 DEF StoreReceipt
  <2> HIDE DEF to
  <2> QED
    BY <2>1, <2>2, ProjectedRows DEF RowsOK, ReceiptStates
<1> QED
  BY <1>1, <1>2

\* A handoff reaches its unit, or a receipt its attempt.
LEMMA HandoffSteps ==
  ASSUME LaneInv, NEW p \in Procs,
         \/ Ingest(p)
         \/ Repair(p)
         \/ MarkActive(p)
         \/ Block(p)
         \/ \E k \in Keys : Observe(p, k)
         \/ TickEnd(p)
         \/ Read(p)
         \/ Verify(p)
         \/ Apply(p)
         \/ Finish(p)
         \/ Record(p)
  PROVE  LaneInv'
<1> USE DEF LaneInv, RowsOK, MemoryOK, Knows, Goto, At, Loop, Enter, Step, Skip, Next1, rows,
            progress, intents, results, claims, outside, memory, Labels, UnitStates,
            WorkAttemptStates, ReceiptStates, Holding, Applying
<1>1. ASSUME Ingest(p) PROVE LaneInv'
  <2>1. RowsOK'
    BY <1>1, StoreKeepsRows DEF Ingest
  <2>2. Next1(p, "dispatch") \/ Step(p, "start")
    BY <1>1 DEF Ingest
  <2>3. CASE Next1(p, "dispatch")
    BY <2>1, <2>3
  <2>4. CASE Step(p, "start")
    BY <1>1, <2>1, <2>4 DEF Ingest
  <2> QED
    BY <2>2, <2>3, <2>4
<1>2. ASSUME Block(p) PROVE LaneInv'
  <2>1. cur[p] \in Keys /\ cur[p][1] \in Units
    BY <1>2, KeyParts DEF Block
  <2>2. RowsOK'
    BY <1>2, <2>1, StartingRows DEF Block
  <2>3. MemoryOK'
    BY <1>2, <2>1 DEF Block
  <2> QED
    BY <2>2, <2>3
<1>10. ASSUME Repair(p) PROVE LaneInv'
  <2>1. cur[p] \in Keys
    BY <1>10 DEF Repair
  <2>2. RowsOK'
    <3>1. CASE UNCHANGED rows
      BY <1>10, <3>1 DEF Repair
    <3>2. CASE receipt[cur[p]] \notin {"pending", "none"}
      <4>1. receipt[cur[p]] \in {"active", "closed", "failed"}
        BY <2>1, <3>2
      <4>2. /\ attempt' = [attempt EXCEPT ![cur[p]] = receipt[cur[p]]]
            /\ link' = [link EXCEPT ![cur[p]] = cur[p]]
            /\ unit' = Projected(cur[p][1], receipt[cur[p]]) /\ outbox' = Acknowledged(cur[p])
            /\ UNCHANGED <<results, claims, plan, receipt, outside, faults>>
        BY <1>10, <3>2 DEF Repair
      <4> QED
        BY <2>1, <4>1, <4>2, ProjectedRows
    <3> QED
      BY <1>10, <3>1, <3>2 DEF Repair
  <2>3. Next1(p, "dispatch") \/ Step(p, "start")
    BY <1>10 DEF Repair
  <2>4. CASE Next1(p, "dispatch")
    BY <2>2, <2>4
  <2>5. CASE Step(p, "start")
    BY <1>10, <2>1, <2>2, <2>5 DEF Repair
  <2> QED
    BY <2>3, <2>4, <2>5
<1>11. ASSUME MarkActive(p) PROVE LaneInv'
  <2>1. cur[p] \in Keys /\ cur[p][1] \in Units
    BY <1>11, KeyParts DEF MarkActive
  <2>2. RowsOK'
    BY <1>11, <2>1, StartingRows DEF MarkActive
  <2>3. Forget(p) \/ Next1(p, "dispatch")
    BY <1>11 DEF MarkActive
  <2>4. CASE Forget(p)
    BY <2>2, <2>4, ForgetKeeps
  <2>5. CASE Next1(p, "dispatch")
    BY <2>2, <2>5
  <2> QED
    BY <2>3, <2>4, <2>5
<1>3. ASSUME NEW k \in Keys, Observe(p, k) PROVE LaneInv'
  <2>1. RowsOK'
    BY <1>3 DEF Observe
  <2>2. CASE Skip(p, k)
    BY <1>3, <2>1, <2>2 DEF Observe
  <2>3. CASE Enter(p, "record", k, published[k], "monitor")
    BY <1>3, <2>1, <2>3 DEF Observe
  <2>4. CASE /\ published[k] \notin {"none", "outside"}
             /\ Enter(p, "apply", k, published[k], "monitor")
    <3>1. published[k] \in {"completed", "blocked", "failed"}
      BY <2>4, LaneConstants
    <3> QED
      BY <1>3, <2>1, <2>4, <3>1 DEF Observe
  <2> QED
    BY <1>3, <2>2, <2>3, <2>4 DEF Observe
<1>4. ASSUME TickEnd(p) PROVE LaneInv'
  BY <1>4, ForgetKeeps DEF TickEnd
<1>5. ASSUME Read(p) PROVE LaneInv'
  <2>1. RowsOK'
    BY <1>5 DEF Read
  <2>2. CASE Step(p, "verify")
    BY <1>5, <2>1, <2>2 DEF Read
  <2>3. CASE attached[cur[p]] # "none" /\ Enter(p, "apply", cur[p], attached[cur[p]], back[p])
    BY <1>5, <2>1, <2>3 DEF Read
  <2> QED
    BY <1>5, <2>2, <2>3 DEF Read
<1>6. ASSUME Verify(p) PROVE LaneInv'
  <2>1. RowsOK'
    BY <1>6, LaneConstants DEF Verify
  <2>2. MemoryOK'
    BY <1>6, LaneConstants DEF Verify
  <2> QED
    BY <2>1, <2>2
<1>7. ASSUME Apply(p) PROVE LaneInv'
  <2>1. cur[p] \in Keys /\ ho[p] \in {"completed", "blocked", "failed"}
    BY <1>7 DEF Apply
  <2> DEFINE u  == cur[p][1]
             to == CASE ho[p] = "completed" /\ unit[u] \in {"delegated", "active"} -> "completed"
                     [] ho[p] \in {"blocked", "failed"} /\ unit[u] = "active"      -> ho[p]
                     [] OTHER                                                  -> unit[u]
  <2>5. u \in Units /\ to \in UnitStates
    BY <2>1, KeyParts
  <2>6. unit' \in {unit, [unit EXCEPT ![u] = to]} /\ slot' \in {slot, slot \ {u}}
    BY <1>7 DEF Apply
  <2>7. attempt' \in {attempt, Starting(u)}
        /\ link' \in {link, Linking(u, NoKey)}
    BY <1>7 DEF Apply
  <2>8. Starting(u) \in [Keys -> WorkAttemptStates] /\ Linking(u,
  NoKey) \in [Keys -> Keys \union {NoKey}]
    BY <2>5, StartingRows
  <2>9. UNCHANGED <<intents, results, lease, outside, faults>>
    BY <1>7 DEF Apply
  <2> HIDE DEF u, to
  <2>2. RowsOK'
    BY <2>5, <2>6, <2>7, <2>8, <2>9
  <2>3. Forget(p) \/ Step(p, "record") \/ Step(p, "finish")
    BY <1>7 DEF Apply
  <2>4. MemoryOK'
    BY <1>7, <2>1, <2>3, ForgetKeeps DEF Apply
  <2> QED
    BY <2>2, <2>4
<1>8. ASSUME Finish(p) PROVE LaneInv'
  <2>1. RowsOK'
    BY <1>8 DEF Finish
  <2>2. Next1(p, "dispatch") \/ Step(p, "record")
    BY <1>8 DEF Finish
  <2>3. CASE Next1(p, "dispatch")
    BY <1>8, <2>1, <2>3 DEF Finish
  <2>4. CASE Step(p, "record")
    BY <1>8, <2>1, <2>4 DEF Finish
  <2> QED
    BY <2>2, <2>3, <2>4
<1>9. ASSUME Record(p) PROVE LaneInv'
  <2>1. RowsOK'
    BY <1>9 DEF Record
  <2>2. Forget(p) \/ Next1(p, back[p])
    BY <1>9 DEF Record
  <2>3. CASE Forget(p)
    BY <2>1, <2>3, ForgetKeeps
  <2>4. CASE Next1(p, back[p])
    BY <1>9, <2>1, <2>4 DEF Record
  <2> QED
    BY <2>2, <2>3, <2>4
<1> QED
  BY <1>1, <1>2, <1>3, <1>4, <1>5, <1>6, <1>7, <1>8, <1>9, <1>10, <1>11

\* Commands of callers and operators.
LEMMA CommandSteps ==
  ASSUME LaneInv, NEW p \in Procs,
         \/ \E k \in Keys, s \in Outcomes \ {"outside"} : Bring(p, k, s)
         \/ Write(p)
         \/ \E u \in Units : Retry(p, u)
         \/ \E u \in Units : Cancel(p, u)
         \/ Recover(p)
         \/ \E k \in Keys, s \in ReceiptStates : LateReceipt(p, k, s)
         \/ Crash(p)
  PROVE  LaneInv'
<1> USE DEF LaneInv, RowsOK, MemoryOK, Knows, Goto, At, Loop, Enter, Step, Skip, Next1, rows,
            progress, intents, results, claims, outside, memory, Labels, UnitStates,
            WorkAttemptStates, ReceiptStates, Holding, Applying
<1>1. ASSUME NEW k \in Keys, NEW s \in Outcomes, Bring(p, k, s) PROVE LaneInv'
  <2>1. RowsOK'
    BY <1>1 DEF Bring
  <2>2. CASE Forget(p)
    BY <2>1, <2>2, ForgetKeeps
  <2>3. CASE Enter(p, "write", k, s, "idle")
    BY <1>1, <2>1, <2>3 DEF Bring
  <2>4. CASE Enter(p, "read", k, "none", "idle")
    BY <1>1, <2>1, <2>4 DEF Bring
  <2> QED
    BY <1>1, <2>2, <2>3, <2>4 DEF Bring
<1>2. ASSUME Write(p) PROVE LaneInv'
  <2>1. RowsOK'
    BY <1>2 DEF Write
  <2>2. MemoryOK'
    BY <1>2 DEF Write
  <2> QED
    BY <2>1, <2>2
<1>3. ASSUME \E u \in Units : Retry(p, u) PROVE LaneInv'
  BY <1>3 DEF Retry, Issue, Fault
<1>4. ASSUME \E u \in Units : Cancel(p, u) PROVE LaneInv'
  BY <1>4 DEF Cancel, Issue, Fault
<1>5. ASSUME Recover(p) PROVE LaneInv'
  BY <1>5 DEF Recover, Issue
<1>6. ASSUME NEW k \in Keys, NEW s \in ReceiptStates, LateReceipt(p, k, s) PROVE LaneInv'
  <2>1. /\ s \in ReceiptStates \ {"none"} /\ StoreReceipt(k, s) /\ UNCHANGED outside /\ faults' \in Nat
        /\ Enter(p, "start", k, s, "idle")
    BY <1>6 DEF LateReceipt, Threaded, Fault
  <2>2. RowsOK'
    BY <2>1, StoreKeepsRows
  <2>3. MemoryOK'
    BY <2>1
  <2> QED
    BY <2>2, <2>3
<1>7. ASSUME Crash(p) PROVE LaneInv'
  <2>1. RowsOK' /\ Forget(p)
    BY <1>7 DEF Crash, Fault
  <2> QED
    BY <2>1, ForgetKeeps
<1> QED
  BY <1>1, <1>2, <1>3, <1>4, <1>5, <1>6, <1>7, SMTT(30)

\* A worker publishes whether or not a process runs.
LEMMA PublishStep ==
  ASSUME LaneInv, NEW k \in Keys, Publish(k)
  PROVE  LaneInv'
BY DEF Publish, LaneInv, RowsOK, MemoryOK, Knows, rows, progress, intents, results, claims, memory

LEMMA NextLane == LaneInv /\ [Next]_vars => LaneInv'
<1> SUFFICES ASSUME LaneInv, [Next]_vars PROVE LaneInv'
  OBVIOUS
<1>1. ASSUME NEW p \in Procs, Tick(p) \/ Continue(p) \/ Command(p) \/ Crash(p)
      PROVE  LaneInv'
  BY <1>1, GraphSteps, SchedulingSteps, DispatchSteps, HandoffSteps, CommandSteps
     DEF Continue, Command
<1>2. ASSUME NEW k \in Keys, Publish(k) PROVE LaneInv'
  BY <1>2, PublishStep
<1>3. CASE UNCHANGED vars
  BY <1>3 DEF LaneInv, RowsOK, MemoryOK, Knows, vars, rows, progress, intents, results, claims,
              outside, memory
<1> QED
  BY <1>1, <1>2, <1>3 DEF Next

\* Every row and every memory keeps its type, for every lane, graph and number
\* of drivers; attempts in memory are attempts of this lane.
THEOREM LaneTypes == Spec => []TypeOK
<1>1. LaneInv => TypeOK
  BY DEF LaneInv, RowsOK, MemoryOK, TypeOK
<1> QED
  BY <1>1, InitLane, NextLane, PTL DEF Spec

\* Which steps move a unit: a completed one none, towards "completed" only the
\* one that applies a completed handoff, and towards work only those that hold one
\* of its attempts or find a worker of it.
LEMMA UnitMoves ==
  ASSUME LaneInv, [Next]_vars, NEW u \in Units, unit'[u] # unit[u]
  PROVE  /\ unit[u] # "completed"
         /\ unit'[u] = "completed" =>
              \E p \in Procs : Apply(p) /\ ho[p] = "completed" /\ cur[p] \in KeysOf(u)
         /\ unit'[u] \in {"delegated", "active", "completed"} =>
              \/ \E p \in Procs : cur[p] \in KeysOf(u)
              \/ \E k \in KeysOf(u) : worker[k] > 0
<1> DEFINE Moved == /\ unit[u] # "completed"
                    /\ unit'[u] = "completed" =>
                         \E p \in Procs : Apply(p) /\ ho[p] = "completed" /\ cur[p] \in KeysOf(u)
                    /\ unit'[u] \in {"delegated", "active", "completed"} =>
                         \/ \E p \in Procs : cur[p] \in KeysOf(u)
                         \/ \E k \in KeysOf(u) : worker[k] > 0
<1> USE DEF LaneInv, RowsOK
<1>1. ASSUME UNCHANGED unit PROVE Moved
  BY <1>1
<1>2. ASSUME NEW p \in Procs, NEW v, Create(p, v) \/ Retry(p, v) \/ Cancel(p, v) PROVE Moved
  BY <1>2 DEF Create, Retry, Cancel
<1>3. ASSUME NEW p \in Procs,
             Promote(p) \/ Delegate(p) \/ Direct(p) \/ Block(p) \/ MarkActive(p)
      PROVE  Moved
  <2>1. cur[p] \in Keys
    BY <1>3 DEF Promote, Delegate, Direct, Block, MarkActive, MemoryOK, Knows, Holding, At
  <2>2. cur[p][1] = u /\ unit[u] # "completed" /\ unit'[u] # "completed"
    BY <1>3, <2>1, KeyParts DEF Promote, Delegate, Moves, Direct, Block, MarkActive, Started
  <2> QED
    BY <2>1, <2>2 DEF KeysOf
<1>4. ASSUME NEW p \in Procs, Ingest(p) \/ Repair(p) PROVE Moved
  <2>1. cur[p] \in Keys
    BY <1>4 DEF Ingest, Repair, MemoryOK, Knows, Holding, At
  <2>2. PICK s : unit' \in {unit, Projected(cur[p][1], s)}
    BY <1>4 DEF Ingest, Repair, StoreReceipt, rows, progress
  <2>3. unit[u] # "completed" /\ unit'[u] # "completed" /\ cur[p] \in KeysOf(u)
    BY <2>1, <2>2, KeyParts DEF Projected, ProjectedUnit, KeysOf
  <2> QED
    BY <2>3
<1>5. ASSUME NEW p \in Procs, NEW k \in Keys, NEW s, LateReceipt(p, k, s) PROVE Moved
  <2>1. unit' \in {unit, Projected(k[1], s)} /\ worker[k] > 0
    BY <1>5 DEF LateReceipt, StoreReceipt, rows, progress
  <2>2. unit[u] # "completed" /\ unit'[u] # "completed" /\ k \in KeysOf(u)
    BY <2>1, KeyParts DEF Projected, ProjectedUnit, KeysOf
  <2> QED
    BY <2>1, <2>2
<1>6. ASSUME NEW p \in Procs, Apply(p) PROVE Moved
  <2>1. cur[p] \in Keys /\ ho[p] \in {"completed", "blocked", "failed"}
    BY <1>6 DEF Apply, MemoryOK, Knows, Holding, Applying, At
  <2>2. /\ cur[p][1] = u /\ unit[u] # "completed"
        /\ unit'[u] = "completed" => ho[p] = "completed"
    BY <1>6, <2>1, KeyParts DEF Apply, progress
  <2> QED
    BY <1>6, <2>1, <2>2 DEF KeysOf
<1>7. ASSUME NEW p \in Procs,
             \/ Tick(p) \/ Expanded(p) \/ Replayed(p) \/ Scan(p) \/ Claim(p) \/ Insert(p) \/ Mark(p)
             \/ Look(p) \/ Acquired(p) \/ Execute(p) \/ PlanDirect(p) \/ Persist(p) \/ Emit(p)
             \/ Reconcile(p)
             \/ Invoke(p) \/ Dispatched(p) \/ TickEnd(p) \/ Read(p) \/ Verify(p) \/ Finish(p)
             \/ Record(p) \/ Write(p) \/ Recover(p) \/ Crash(p)
      PROVE  Moved
  BY <1>1, <1>7
     DEF Tick, Crash, Expanded, Replayed, Scan, Claim, Insert, Mark, Look, Acquired, Execute,
     PlanDirect,
         Persist, Emit, Reconcile, Invoke, Dispatched, TickEnd, Read, Verify, Finish, Record, Write,
         Recover, rows, progress
<1>8. ASSUME NEW p \in Procs, NEW k, NEW s, Replay(p, k) \/ Dispatch(p, k) \/ Observe(p, k)
\/ Bring(p, k, s)
                                            \/ Acquire(p, k)
      PROVE  Moved
  BY <1>1, <1>8 DEF Replay, Dispatch, Observe, Bring, Acquire, Skip, rows, progress
<1>9. ASSUME NEW k \in Keys, Publish(k) PROVE Moved
  BY <1>1, <1>9 DEF Publish, rows, progress
<1>10. ASSUME NEW p \in Procs, Tick(p) \/ Continue(p) \/ Command(p) \/ Crash(p) PROVE Moved
  BY <1>2, <1>3, <1>4, <1>5, <1>6, <1>7, <1>8, <1>10 DEF Continue, Command
<1> QED
  BY <1>1, <1>9, <1>10 DEF Next, vars, rows, progress

\* Only the step that writes a result changes one.
LEMMA OnlyWriteBrings ==
  ASSUME NEW p \in Procs, Tick(p) \/ Continue(p) \/ Command(p) \/ Crash(p), pc[p] # "write"
  PROVE  UNCHANGED result
BY DEF Tick, Continue, Command, Crash, Create, Expanded, Replayed, Replay, Dispatch, Observe, Scan,
       Claim, Insert, Mark, Acquired, Acquire, Promote, Look, Delegate, Moves, Direct, Execute,
       PlanDirect, Persist, Emit,
       Reconcile, Invoke, Ingest, Repair, MarkActive, Block, Dispatched, TickEnd, Read, Verify,
       Apply, Finish, Record,
       Write, Bring, Retry, Cancel, Recover, LateReceipt, StoreReceipt, Skip, At, rows, results

\* What backs a handoff stays, while one caller at a time brings results.
LEMMA WitnessesStay ==
  ASSUME BackedInv, [Next]_vars, \A p, q \in Callers : p = q
  PROVE  /\ \A k \in Keys : Backed(k) => Backed(k)'
         /\ \A k \in Keys : result[k] # "none" => result'[k] = result[k]
         /\ \A k \in Keys : attached'[k] = "completed" => result'[k] = "completed"
<1> DEFINE Stay == /\ \A k \in Keys : Backed(k) => Backed(k)'
                   /\ \A k \in Keys : result[k] # "none" => result'[k] = result[k]
                   /\ \A k \in Keys : attached'[k] = "completed" => result'[k] = "completed"
<1> USE DEF BackedInv, LaneInv, RowsOK, Backed
<1>1. ASSUME UNCHANGED <<result, attached, published, done>> PROVE Stay
  BY <1>1
<1>2. ASSUME NEW p \in Procs, Execute(p) PROVE Stay
  BY <1>2 DEF Execute, rows, results
<1>3. ASSUME NEW p \in Procs, Write(p) PROVE Stay
  <2>1. cur[p] \in Keys /\ result[cur[p]] = "none"
    BY <1>3 DEF Write, MemoryOK, Knows, Grounded, Holding, At
  <2>2. result' = [result EXCEPT ![cur[p]] = ho[p]] /\ UNCHANGED <<attached, published, done>>
    BY <1>3 DEF Write, outside
  <2> QED
    BY <2>1, <2>2
<1>4. ASSUME NEW p \in Procs, Verify(p) PROVE Stay
  <2>1. PICK v : /\ v = "completed" => result[cur[p]] = "completed"
                 /\ attached' \in {attached, [attached EXCEPT ![cur[p]] = v]}
    BY <1>4 DEF Verify
  <2>2. UNCHANGED <<result, published, done>>
    BY <1>4 DEF Verify, outside
  <2> QED
    BY <2>1, <2>2
<1>5. ASSUME NEW k \in Keys, Publish(k) PROVE Stay
  BY <1>5 DEF Publish, rows, results
<1>6. ASSUME NEW p \in Procs, NEW k, NEW s, Ingest(p) \/ LateReceipt(p, k, s) PROVE Stay
  BY <1>1, <1>6 DEF Ingest, LateReceipt, StoreReceipt, results, outside, rows
<1>7. ASSUME NEW p \in Procs,
             Apply(p) \/ Finish(p) \/ Record(p) \/ Block(p) \/ Repair(p) \/ MarkActive(p)
      PROVE  Stay
  BY <1>1, <1>7 DEF Apply, Finish, Record, Block, Repair, MarkActive, results, outside, rows
<1>8. ASSUME NEW p \in Procs, Tick(p) \/ Continue(p) \/ Command(p) \/ Crash(p),
             ~Execute(p), ~Write(p), ~Verify(p)
      PROVE  Stay
  BY <1>1, <1>6, <1>7, <1>8
     DEF Tick, Continue, Command, Crash, Create, Expanded, Replayed, Replay, Dispatch, Observe, Scan,
         Claim, Insert, Mark, Acquired, Acquire, Promote, Look, Delegate, Moves, Direct,
         PlanDirect, Persist, Emit,
         Reconcile, Invoke, Dispatched, TickEnd, Read, Bring, Retry, Cancel, Recover, Skip,
         rows, results, outside
<1> QED
  BY <1>1, <1>2, <1>3, <1>4, <1>5, <1>8 DEF Next, vars, rows, results, outside

\* A process moves nobody else.
LEMMA OthersRest ==
  ASSUME MemoryOK, NEW p \in Procs, NEW q \in Procs, q # p,
         Tick(p) \/ Continue(p) \/ Command(p) \/ Crash(p)
  PROVE  /\ pc'[q] = pc[q] /\ cur'[q] = cur[q] /\ ho'[q] = ho[q]
         /\ todo'[q] = todo[q] /\ batch'[q] = batch[q] /\ back'[q] = back[q]
<1> DEFINE Rests == UNCHANGED <<pc[q], cur[q], ho[q], todo[q], batch[q], back[q]>>
<1> USE DEF MemoryOK, Goto, Loop, Enter, Step, Skip, Next1, Forget, memory
<1>1. ASSUME NEW k, Replay(p, k) \/ Dispatch(p, k) \/ Observe(p, k) PROVE Rests
  BY <1>1 DEF Replay, Dispatch, Observe
<1>2. ASSUME NEW u, Create(p, u) \/ Acquire(p, u) \/ Retry(p, u) \/ Cancel(p, u)
      PROVE  Rests
  BY <1>2 DEF Create, Acquire, Retry, Cancel
<1>3. ASSUME NEW k, NEW s, Bring(p, k, s) \/ LateReceipt(p, k, s)
      PROVE  Rests
  BY <1>3 DEF Bring, LateReceipt
<1>4. ASSUME Reconcile(p) \/ Invoke(p) PROVE Rests
  BY <1>4 DEF Reconcile, Invoke
<1>5. ASSUME Ingest(p) \/ Repair(p) \/ MarkActive(p) \/ PlanDirect(p) \/ Persist(p) PROVE Rests
  BY <1>5 DEF Ingest, Repair, MarkActive, PlanDirect, Persist
<1>6. ASSUME Apply(p) \/ Finish(p) \/ Record(p) \/ Write(p) \/ Read(p) \/ Verify(p) \/ TickEnd(p)
      PROVE  Rests
  BY <1>6 DEF Apply, Finish, Record, Write, Read, Verify, TickEnd
<1>7. ASSUME Tick(p) \/ Expanded(p) \/ Replayed(p) \/ Scan(p) \/ Claim(p) \/ Insert(p) \/ Mark(p)
      PROVE  Rests
  BY <1>7 DEF Tick, Expanded, Replayed, Scan, Claim, Insert, Mark
<1>9. ASSUME Promote(p) \/ Look(p) \/ Delegate(p) PROVE Rests
  BY <1>9 DEF Promote, Look, Delegate, Moves
<1>8. ASSUME Acquired(p) \/ Direct(p) \/ Execute(p) \/ Emit(p) \/ Block(p) \/ Dispatched(p)
             \/ Recover(p) \/ Crash(p)
      PROVE  Rests
  BY <1>8 DEF Acquired, Direct, Execute, Emit, Block, Dispatched, Recover, Crash
<1> QED
  BY <1>1, <1>2, <1>3, <1>4, <1>5, <1>6, <1>7, <1>8, <1>9 DEF Continue, Command

\* A process only takes a completion from the row, the worker or its executor.
LEMMA GroundedStep ==
  ASSUME BackedInv, [Next]_vars, \A p, q \in Callers : p = q,
         NEW p \in Procs, Tick(p) \/ Continue(p) \/ Command(p) \/ Crash(p)
  PROVE  Grounded(p)'
<1> USE DEF BackedInv, LaneInv, MemoryOK, Grounded, Knows, Applying, Holding, At, Goto, Loop,
            Enter, Step, Skip, Next1, Forget, memory
<1>1. ASSUME pc'[p] \notin {"apply", "finish", "write"} PROVE Grounded(p)'
  BY <1>1
<1>2. ASSUME UNCHANGED <<pc[p], cur[p], ho[p]>>, UNCHANGED results PROVE Grounded(p)'
  BY <1>2, WitnessesStay DEF results
<1>3. ASSUME Execute(p) PROVE Grounded(p)'
  BY <1>3 DEF Execute, Backed, RowsOK
<1>4. ASSUME NEW k \in Keys, Observe(p, k) PROVE Grounded(p)'
  BY <1>1, <1>4 DEF Observe, Backed, outside
<1>5. ASSUME Block(p) PROVE Grounded(p)'
  BY <1>5 DEF Block
<1>6. ASSUME Read(p) PROVE Grounded(p)'
  BY <1>6, WitnessesStay DEF Read, Backed
<1>7. ASSUME Verify(p) PROVE Grounded(p)'
  BY <1>7, WitnessesStay DEF Verify, Backed
<1>8. ASSUME Apply(p) PROVE Grounded(p)'
  BY <1>8, WitnessesStay DEF Apply
<1>9. ASSUME NEW k \in Keys, NEW s, Bring(p, k, s) PROVE Grounded(p)'
  BY <1>9 DEF Bring, Issue, rows, results
<1>10. ASSUME NEW k \in Keys, Replay(p, k) \/ Dispatch(p, k) PROVE Grounded(p)'
  <2>1. \A native \in Native : Route(k[1], native) \notin {"apply", "finish", "write"}
    BY LaneConstants, KeyParts DEF Route, Modes
  <2>2. pc'[p] \notin {"apply", "finish", "write"}
    BY <1>10, <2>1 DEF Replay, Dispatch
  <2> QED
    BY <1>1, <2>2
<1>11. ASSUME NEW k, NEW s, LateReceipt(p, k, s) \/ Retry(p, k) \/ Cancel(p, k) \/ Recover(p)
       PROVE  Grounded(p)'
  BY <1>1, <1>11 DEF LateReceipt, Retry, Cancel, Recover, Issue
<1>12. ASSUME NEW u, Create(p, u) \/ Acquire(p, u) PROVE Grounded(p)'
  BY <1>1, <1>12 DEF Create, Acquire
<1>13. ASSUME \/ Tick(p) \/ Expanded(p) \/ Replayed(p) \/ Scan(p) \/ Claim(p) \/ Insert(p)
              \/ Promote(p) \/ Look(p) \/ Delegate(p) \/ Mark(p) \/ Acquired(p) \/ Direct(p)
              \/ PlanDirect(p)
              \/ Repair(p) \/ MarkActive(p)
       PROVE  pc'[p] \notin {"apply", "finish", "write"}
  BY <1>13 DEF Tick, Expanded, Replayed, Scan, Claim, Insert, Promote, Look, Delegate, Moves, Mark,
  Acquired,
               Direct, PlanDirect, Repair, MarkActive
<1>14. ASSUME \/ Persist(p) \/ Emit(p) \/ Ingest(p) \/ Dispatched(p) \/ TickEnd(p) \/ Crash(p)
              \/ Write(p) \/ Finish(p) \/ Record(p) \/ Reconcile(p) \/ Invoke(p)
       PROVE  pc'[p] \notin {"apply", "finish", "write"}
  BY <1>14 DEF Persist, Emit, Ingest, Dispatched, TickEnd, Crash, Write, Finish, Record,
               Reconcile, Invoke
<1> QED
  BY <1>1, <1>3, <1>4, <1>5, <1>6, <1>7, <1>8, <1>9, <1>10, <1>11, <1>12, <1>13, <1>14
     DEF Continue, Command

LEMMA NextBacked ==
  ASSUME BackedInv, [Next]_vars, \A p, q \in Callers : p = q
  PROVE  BackedInv'
<1>1. LaneInv'
  BY NextLane DEF BackedInv
<1>2. ASSUME NEW q \in Procs, UNCHANGED <<pc[q], cur[q], ho[q]>>,
             pc[q] = "write" => UNCHANGED result
      PROVE  Grounded(q)'
  BY <1>2, WitnessesStay DEF BackedInv, LaneInv, MemoryOK, Knows, Grounded, Applying, Holding
<1>3. ASSUME NEW q \in Procs PROVE Grounded(q)'
  <2>1. CASE \E p \in Procs : Tick(p) \/ Continue(p) \/ Command(p) \/ Crash(p)
    <3>1. PICK p \in Procs : Tick(p) \/ Continue(p) \/ Command(p) \/ Crash(p)
      BY <2>1
    <3>2. CASE p = q
      BY <3>1, <3>2, GroundedStep
    <3>3. CASE p # q /\ pc[q] # "write"
      BY <1>2, <3>1, <3>3, OthersRest DEF BackedInv, LaneInv
    <3>4. CASE p # q /\ pc[q] = "write"
      <4>1. cur[q] \in Keys /\ pc[p] # "write" /\ cur'[q] = cur[q] /\ pc'[q] = "write"
        BY <3>1, <3>4, OthersRest DEF BackedInv, LaneInv, Grounded, MemoryOK, Knows, Holding
      <4>2. UNCHANGED result
        BY <3>1, <4>1, OnlyWriteBrings
      <4> QED
        BY <1>2, <3>1, <3>4, <4>2, OthersRest DEF BackedInv, LaneInv
    <3> QED
      BY <3>2, <3>3, <3>4
  <2>2. CASE \E k \in Keys : Publish(k)
    BY <1>2, <2>2 DEF Publish, memory, rows, results
  <2>3. CASE UNCHANGED vars
    BY <1>2, <2>3 DEF vars, memory, rows, results
  <2> QED
    BY <2>1, <2>2, <2>3 DEF Next
<1>4. CompletedIsBacked'
  <2> SUFFICES ASSUME NEW u \in Units, unit'[u] = "completed"
               PROVE  \E k \in KeysOf(u) : Backed(k)'
    BY DEF CompletedIsBacked, Backed, KeysOf
  <2>1. CASE unit[u] = "completed"
    BY <2>1, WitnessesStay, KeysAreOfUnits DEF BackedInv, CompletedIsBacked, Backed
  <2>2. CASE unit[u] # "completed"
    <3>1. PICK p \in Procs : Apply(p) /\ ho[p] = "completed" /\ cur[p] \in KeysOf(u)
      BY <2>2, UnitMoves DEF BackedInv
    <3>2. Backed(cur[p])
      BY <3>1 DEF BackedInv, Grounded, Applying, Apply, At
    <3> QED
      BY <3>1, <3>2, WitnessesStay, KeysAreOfUnits
  <2> QED
    BY <2>1, <2>2
<1> QED
  BY <1>1, <1>3, <1>4, WitnessesStay DEF BackedInv

\* While at most one process brings results, a unit completes only on somebody's
\* completed handoff, for any lane, any number of drivers, crashes, retries and
\* late receipts.
THEOREM CompletionIsBacked ==
  ASSUME \A p, q \in Callers : p = q
  PROVE  Spec => []CompletedIsBacked
<1>1. Init => BackedInv
  BY InitLane, LaneConstants DEF Init, BackedInv, Grounded, Applying, CompletedIsBacked
<1>2. BackedInv /\ [Next]_vars => BackedInv'
  BY NextBacked
<1>3. BackedInv => CompletedIsBacked
  BY DEF BackedInv
<1> QED
  BY <1>1, <1>2, <1>3, PTL DEF Spec


-----------------------------------------------------------------------------
(* Completed work, and the dependencies of work that started. *)

\* No step of any process reopens a completed unit: not a retry, a replay, a late
\* receipt, nor two drivers at once.
THEOREM CompletedIsNeverReopened == Spec => CompletedStays
<1>1. LaneInv /\ [Next]_vars =>
        [\A u \in Units : unit[u] = "completed" => unit'[u] = "completed"]_vars
  BY UnitMoves
<1> QED
  BY <1>1, InitLane, NextLane, PTL DEF Spec, CompletedStays

DepsDone(u) == \A d \in UnitDeps[u] : unit[d] = "completed"

\* Some row, or the host, knows of attempt k.
Touched(k) ==
  \/ attempt[k] # "none" \/ plan[k] # "none" \/ result[k] # "none"
  \/ receipt[k] # "none" \/ worker[k] > 0

\* What a process still means to dispatch is about a unit whose dependencies are
\* completed, and so is every attempt anybody could take up again later.
StartInv ==
  /\ LaneInv
  /\ StartedAfterDependencies
  /\ \A k \in Keys : Touched(k) => DepsDone(k[1])
  /\ \A p \in Procs : /\ \A k \in todo[p] : DepsDone(k[1])
                      /\ \A b \in batch[p] : DepsDone(b[1])
                      /\ cur[p] \in Keys => DepsDone(cur[p][1])

\* A dependency that is completed stays completed.
LEMMA DepsStayDone ==
  ASSUME LaneInv, [Next]_vars, NEW u \in Units, DepsDone(u)
  PROVE  DepsDone(u)'
BY UnitMoves, LaneConstants DEF DepsDone

\* The key of an attempt yet to be made is new only to the process that makes it.
LEMMA TouchedStep ==
  ASSUME LaneInv, [Next]_vars, NEW k \in Keys, Touched(k)'
  PROVE  Touched(k) \/ \E p \in Procs : cur[p] = k
<1> SUFFICES ASSUME ~Touched(k), \A p \in Procs : cur[p] # k
             PROVE  FALSE
  OBVIOUS
<1> USE DEF LaneInv, RowsOK, Touched
<1>1. ASSUME UNCHANGED <<attempt, plan, result, receipt, worker>> PROVE FALSE
  BY <1>1
<1>2. ASSUME NEW u PROVE Starting(u)[k] = attempt[k] /\ k \notin Latest(u, {"active", "delegated"})
  BY DEF Latest, Starting
<1>3. ASSUME NEW p \in Procs, Block(p) \/ MarkActive(p) \/ Apply(p) PROVE FALSE
  <2>1. attempt' \in {attempt, Starting(cur[p][1])}
    BY <1>3 DEF Block, MarkActive, Apply, progress
  <2>2. attempt'[k] = attempt[k]
    BY <1>2, <2>1
  <2> QED
    BY <1>3, <2>2 DEF Block, MarkActive, Apply, intents, results, outside
<1>4. ASSUME NEW p \in Procs, Finish(p) PROVE FALSE
  BY <1>2, <1>4 DEF Finish, intents, results, outside
<1>5. ASSUME NEW j \in Keys, NEW s, StoreReceipt(j, s), UNCHANGED worker, worker[j] > 0 \/ j # k
      PROVE  FALSE
  BY <1>5 DEF StoreReceipt, rows, progress, intents, results
<1>6. ASSUME NEW p \in Procs, Ingest(p) PROVE FALSE
  BY <1>5, <1>6 DEF Ingest, outside, MemoryOK, Knows, Holding, At
<1>7. ASSUME NEW p \in Procs, NEW j \in Keys, NEW s, LateReceipt(p, j, s) PROVE FALSE
  BY <1>5, <1>7 DEF LateReceipt, outside
<1>8. ASSUME NEW p \in Procs,
             Insert(p) \/ Mark(p) \/ PlanDirect(p) \/ Persist(p) \/ Invoke(p) \/ Repair(p) \/ Write(p)
      PROVE  FALSE
  BY <1>8 DEF Insert, Mark, PlanDirect, Persist, Invoke, Repair, Write, rows, progress, intents,
              results, outside
<1>9. ASSUME NEW p \in Procs,
             \/ Tick(p) \/ Expanded(p) \/ Replayed(p) \/ Scan(p) \/ Claim(p)
             \/ Promote(p) \/ Look(p) \/ Delegate(p)
             \/ Acquired(p) \/ Direct(p) \/ Execute(p) \/ Emit(p) \/ Reconcile(p)
             \/ Dispatched(p) \/ TickEnd(p) \/ Read(p) \/ Verify(p)
             \/ Record(p) \/ Recover(p) \/ Crash(p)
      PROVE  FALSE
  BY <1>1, <1>9
     DEF Tick, Crash, Expanded, Replayed, Scan, Claim, Promote, Look, Delegate, Moves, Acquired,
     Direct, Execute,
         Emit, Reconcile, Dispatched, TickEnd, Read, Verify, Record,
         Recover, rows, progress, intents, results, outside
<1>10. ASSUME NEW p \in Procs, NEW j, NEW s,
              \/ Replay(p, j) \/ Dispatch(p, j) \/ Observe(p, j) \/ Bring(p, j, s)
              \/ Acquire(p, j) \/ Create(p, j) \/ Retry(p, j) \/ Cancel(p, j)
       PROVE  FALSE
  BY <1>1, <1>10
     DEF Replay, Dispatch, Observe, Bring, Acquire, Create, Retry, Cancel, Skip, rows,
         progress, intents, results, outside
<1>11. ASSUME NEW p \in Procs, Tick(p) \/ Continue(p) \/ Command(p) \/ Crash(p) PROVE FALSE
  BY <1>3, <1>4, <1>6, <1>7, <1>8, <1>9, <1>10, <1>11 DEF Continue, Command
<1>12. CASE (\E j \in Keys : Publish(j)) \/ UNCHANGED vars
  BY <1>1, <1>12 DEF Publish, vars, rows, progress, intents, results, outside
<1> QED
  BY <1>11, <1>12 DEF Next

\* What a process puts into its memory comes from its memory, from an attempt
\* somebody made, or from the ready units.
LEMMA Remembered ==
  ASSUME LaneInv, NEW p \in Procs, Tick(p) \/ Continue(p) \/ Command(p) \/ Crash(p)
  PROVE  /\ \A k \in todo'[p] : k \in todo[p] \/ k = cur[p] \/ Touched(k)
         /\ \A b \in batch'[p] : b \in batch[p] \/ b[1] \in ReadyUnits
         /\ cur'[p] \in Keys =>
              \/ cur'[p] = cur[p] \/ cur'[p] \in todo[p] \/ \E b \in batch[p] : b[1] = cur'[p][1]
              \/ Touched(cur'[p])
<1> DEFINE Known == /\ \A k \in todo'[p] : k \in todo[p] \/ k = cur[p] \/ Touched(k)
                    /\ \A b \in batch'[p] : b \in batch[p] \/ b[1] \in ReadyUnits
                    /\ cur'[p] \in Keys =>
                         \/ cur'[p] = cur[p] \/ cur'[p] \in todo[p]
                         \/ \E b \in batch[p] : b[1] = cur'[p][1]
                         \/ Touched(cur'[p])
<1> USE DEF LaneInv, MemoryOK, Goto
<1>1. ASSUME UNCHANGED <<todo[p], batch[p], cur[p]>> PROVE Known
  BY <1>1
<1>2. ASSUME Forget(p) PROVE Known
  BY <1>2, LaneConstants DEF Forget, Keys
<1>3. ASSUME NEW label, Next1(p, label) PROVE Known
  BY <1>3, LaneConstants DEF Next1, Keys
<1>4. ASSUME NEW label, Step(p, label) PROVE Known
  BY <1>1, <1>4 DEF Step
<1>5. ASSUME NEW k, Skip(p, k) PROVE Known
  BY <1>5 DEF Skip
<1>6. ASSUME NEW label, NEW k, NEW h, NEW b, Enter(p, label, k, h, b),
             k = cur[p] \/ k \in todo[p] \/ (\E c \in batch[p] : c[1] = k[1]) \/ Touched(k)
      PROVE  Known
  BY <1>6 DEF Enter
<1>7. ASSUME NEW label, NEW S, Loop(p, label, S), \A k \in S : Touched(k) PROVE Known
  BY <1>7 DEF Loop
<1>8. ASSUME Tick(p) \/ Expanded(p) PROVE Known
  BY <1>7, <1>8 DEF Tick, Expanded, Touched
<1>9. ASSUME Replayed(p) PROVE Known
  BY <1>7, <1>9 DEF Replayed, Unresolved, Touched
<1>10. ASSUME Dispatched(p) PROVE Known
  BY <1>7, <1>10 DEF Dispatched, Threaded, Touched
<1>11. ASSUME NEW u, Create(p, u) PROVE Known
  BY <1>2, <1>4, <1>11 DEF Create
<1>12. ASSUME NEW k, Replay(p, k) PROVE Known
  BY <1>5, <1>6, <1>12 DEF Replay
<1>13. ASSUME NEW k, Dispatch(p, k) PROVE Known
  BY <1>6, <1>13 DEF Dispatch
<1>14. ASSUME NEW k, Observe(p, k) PROVE Known
  BY <1>5, <1>6, <1>14 DEF Observe
<1>15. ASSUME NEW u \in Units, Acquire(p, u) PROVE Known
  <2>1. PICK s \in {"proposed", "ready"} :
          /\ <<u, s>> \in batch[p]
          /\ \/ Enter(p, "insert", NextKey(u), s, "idle")
             \/ /\ batch' = [batch EXCEPT ![p] = @ \ {<<u, s>>}]
                /\ UNCHANGED <<todo, cur>>
    BY <1>15 DEF Acquire
  <2>2. NextKey(u)[1] = u /\ <<u, s>>[1] = u
    BY DEF NextKey
  <2>3. CASE Enter(p, "insert", NextKey(u), s, "idle")
    BY <1>6, <2>1, <2>2, <2>3
  <2> QED
    BY <2>1, <2>3
<1>16. ASSUME Claim(p) PROVE Known
  <2>1. PICK G \in SUBSET ReadyUnits : batch' = [batch EXCEPT ![p] = {<<u, unit[u]>> : u \in G}]
    BY <1>16 DEF Claim, Filtered
  <2>2. \A b \in batch'[p] : b[1] \in ReadyUnits
    BY <2>1
  <2> QED
    BY <1>16, <2>2 DEF Claim
<1>17. ASSUME Mark(p) PROVE Known
  BY <1>17, LaneConstants DEF Mark, Keys
<1>18. ASSUME Read(p) \/ Verify(p) PROVE Known
  BY <1>4, <1>6, <1>18 DEF Read, Verify
<1>19. ASSUME Reconcile(p) \/ Invoke(p) PROVE Known
  BY <1>2, <1>3, <1>6, <1>19 DEF Reconcile, Invoke
<1>20. ASSUME Ingest(p) \/ Repair(p) \/ MarkActive(p) PROVE Known
  BY <1>2, <1>3, <1>4, <1>20 DEF Ingest, Repair, MarkActive
<1>21. ASSUME PlanDirect(p) \/ Persist(p) \/ Direct(p) PROVE Known
  BY <1>2, <1>3, <1>4, <1>21 DEF PlanDirect, Persist, Direct
<1>22. ASSUME Apply(p) \/ Finish(p) \/ Record(p) \/ Write(p) PROVE Known
  BY <1>2, <1>3, <1>4, <1>22 DEF Apply, Finish, Record, Write
<1>23. ASSUME NEW k, NEW s, Bring(p, k, s) PROVE Known
  BY <1>2, <1>6, <1>23 DEF Bring, Touched
<1>24. ASSUME NEW k, NEW s, LateReceipt(p, k, s) PROVE Known
  BY <1>6, <1>24 DEF LateReceipt, Touched
<1>25. ASSUME NEW u, Retry(p, u) \/ Cancel(p, u) PROVE Known
  BY <1>1, <1>25 DEF Retry, Cancel, memory
<1>26. ASSUME Recover(p) \/ Crash(p) \/ TickEnd(p) PROVE Known
  BY <1>1, <1>2, <1>26 DEF Recover, Crash, TickEnd, memory
<1>28. ASSUME Promote(p) \/ Look(p) \/ Delegate(p) PROVE Known
  BY <1>2, <1>4, <1>28 DEF Promote, Look, Delegate, Moves
<1>27. ASSUME Scan(p) \/ Insert(p) \/ Acquired(p) \/ Execute(p) \/ Emit(p) \/ Block(p)
       PROVE  Known
  BY <1>1, <1>4, <1>27 DEF Scan, Insert, Acquired, Execute, Emit, Block
<1> QED
  BY <1>8, <1>9, <1>10, <1>11, <1>12, <1>13, <1>14, <1>15, <1>16, <1>17, <1>18, <1>19, <1>20, <1>21,
     <1>22, <1>23, <1>24, <1>25, <1>26, <1>27, <1>28 DEF Continue, Command

LEMMA NextStart ==
  ASSUME StartInv, [Next]_vars
  PROVE  StartInv'
<1> USE DEF StartInv
<1>1. LaneInv'
  BY NextLane
<1>2. ASSUME NEW k \in Keys, Touched(k)' PROVE DepsDone(k[1])'
  <2>1. DepsDone(k[1])
    BY <1>2, TouchedStep
  <2> QED
    BY <2>1, DepsStayDone, KeyParts
<1>3. ASSUME NEW u \in Units, unit'[u] \in {"delegated", "active", "completed"}
      PROVE  DepsDone(u)'
  <2>1. CASE unit'[u] = unit[u]
    BY <1>3, <2>1, DepsStayDone DEF StartedAfterDependencies, DepsDone
  <2>2. CASE unit'[u] # unit[u]
    <3>1. DepsDone(u)
      BY <1>3, <2>2, UnitMoves DEF KeysOf, Touched
    <3> QED
      BY <3>1, DepsStayDone
  <2> QED
    BY <2>1, <2>2
<1> DEFINE Minds(p) == /\ \A k \in todo[p] : DepsDone(k[1])
                       /\ \A b \in batch[p] : DepsDone(b[1])
                       /\ cur[p] \in Keys => DepsDone(cur[p][1])
<1>4. ASSUME NEW q \in Procs, UNCHANGED <<todo[q], batch[q], cur[q]>> PROVE Minds(q)'
  BY <1>4, DepsStayDone, KeyParts DEF LaneInv, MemoryOK
<1>5. ASSUME NEW p \in Procs, Tick(p) \/ Continue(p) \/ Command(p) \/ Crash(p) PROVE Minds(p)'
  <2>1. ASSUME NEW k \in todo'[p] PROVE DepsDone(k[1])'
    <3>1. k \in Keys
      BY <1>1 DEF LaneInv, MemoryOK
    <3>2. DepsDone(k[1])
      BY <1>5, <3>1, Remembered
    <3> QED
      BY <3>1, <3>2, DepsStayDone, KeyParts
  <2>2. ASSUME NEW b \in batch'[p] PROVE DepsDone(b[1])'
    <3>1. b[1] \in Units
      BY <1>1 DEF LaneInv, MemoryOK
    <3>2. DepsDone(b[1])
      BY <1>5, Remembered DEF ReadyUnits, DependenciesReady, DepsDone
    <3> QED
      BY <3>1, <3>2, DepsStayDone
  <2>3. ASSUME NEW k \in Keys, k = cur'[p] PROVE DepsDone(k[1])'
    <3>1. DepsDone(k[1])
      BY <1>5, <2>3, Remembered
    <3> QED
      BY <3>1, DepsStayDone, KeyParts
  <2> QED
    BY <2>1, <2>2, <2>3
<1>6. ASSUME NEW q \in Procs PROVE Minds(q)'
  <2>1. CASE \E p \in Procs : Tick(p) \/ Continue(p) \/ Command(p) \/ Crash(p)
    BY <1>4, <1>5, <2>1, OthersRest DEF LaneInv
  <2>2. CASE (\E k \in Keys : Publish(k)) \/ UNCHANGED vars
    BY <1>4, <2>2 DEF Publish, vars, memory
  <2> QED
    BY <2>1, <2>2 DEF Next
<1> QED
  BY <1>1, <1>2, <1>3, <1>6 DEF StartedAfterDependencies, DepsDone

\* A unit that started had all its dependencies completed, and they are: for
\* every graph, any number of drivers, crashes, retries and late receipts.
THEOREM UnitsStartInOrder == Spec => []StartedAfterDependencies
<1>1. ASSUME Init PROVE StartInv
  <2>1. StartedAfterDependencies
    BY <1>1 DEF Init, StartedAfterDependencies
  <2>2. \A k \in Keys : ~Touched(k)
    BY <1>1 DEF Init, Touched
  <2>3. \A p \in Procs : todo[p] = {} /\ batch[p] = {} /\ cur[p] \notin Keys
    BY <1>1, LaneConstants DEF Init, Keys
  <2> QED
    BY <1>1, <2>1, <2>2, <2>3, InitLane DEF StartInv
<1>2. StartInv => StartedAfterDependencies
  BY DEF StartInv
<1> QED
  BY <1>1, <1>2, NextStart, PTL DEF Spec


-----------------------------------------------------------------------------
(* The promise of the outbox, while the lane has one driver. *)

DriverLabels == Labels \ {"idle", "read", "verify", "apply", "finish", "record", "start", "write"}

\* The outbox row of an attempt and the host agree.
KeptRow(k) ==
  /\ plan[k] = "none" <=> outbox[k] = "none"
  /\ worker[k] \in {0, 1}
  /\ worker[k] = 1 => plan[k] # "direct" /\ outbox[k] \in {"emitted", "acknowledged"}
  /\ receipt[k] # "none" => worker[k] = 1 /\ outbox[k] = "acknowledged"

\* What a process knows of the row it is about to send, to store or to settle.
KeptBy(p) ==
  /\ pc[p] \in DriverLabels \/ back[p] # "idle" => p \in Drivers
  /\ pc[p] = "relay" => plan[cur[p]] = "spawn"
  /\ pc[p] = "invoke" => outbox[cur[p]] = "emitted" /\ worker[cur[p]] = 0 /\ plan[cur[p]] = "spawn"
  /\ pc[p] = "ingest" => worker[cur[p]] = 1
  /\ pc[p] = "write" => plan[cur[p]] = "direct"

KeptInv ==
  /\ LaneInv
  /\ \A k \in Keys : KeptRow(k)
  /\ \A p \in Procs : KeptBy(p)

\* What one step makes of outbox, plan, receipts and workers: one row is written,
\* marked, performed, answered, or settled by a direct result.
RowWritten(k) ==
  /\ plan[k] = "none"
  /\ \E v \in {"spawn", "direct"} : plan' = [plan EXCEPT ![k] = v]
  /\ outbox' = [outbox EXCEPT ![k] = "pending"]
  /\ UNCHANGED <<receipt, worker>>

RowMarked(k) ==
  /\ outbox[k] = "pending" /\ receipt[k] = "none"
  /\ outbox' = [outbox EXCEPT ![k] = "emitted"]
  /\ UNCHANGED <<plan, receipt, worker>>

RowPerformed(k) ==
  /\ outbox[k] = "emitted" /\ worker[k] = 0 /\ plan[k] = "spawn"
  /\ worker' = [worker EXCEPT ![k] = 1]
  /\ UNCHANGED <<plan, outbox, receipt>>

RowAnswered(k) ==
  /\ worker[k] = 1
  /\ \E s \in ReceiptStates \ {"none"} : receipt' = [receipt EXCEPT ![k] = s]
  /\ outbox' = Acknowledged(k)
  /\ UNCHANGED <<plan, worker>>

RowSettled(k) ==
  /\ plan[k] = "direct"
  /\ outbox' = [outbox EXCEPT ![k] = "acknowledged"]
  /\ UNCHANGED <<plan, receipt, worker>>

RowsRest == UNCHANGED <<plan, outbox, receipt, worker>>

\* A process that is no driver only answers or settles.
LEMMA LaneRow ==
  ASSUME KeptInv, NEW p \in Procs, Tick(p) \/ Continue(p) \/ Command(p) \/ Crash(p)
  PROVE  \/ RowsRest
         \/ \E k \in Keys : RowAnswered(k) \/ RowSettled(k)
         \/ p \in Drivers /\ \E k \in Keys : RowWritten(k) \/ RowMarked(k) \/ RowPerformed(k)
<1> DEFINE Row == \/ RowsRest
                  \/ \E k \in Keys : RowAnswered(k) \/ RowSettled(k)
                  \/ p \in Drivers /\ \E k \in Keys : RowWritten(k) \/ RowMarked(k) \/ RowPerformed(k)
<1> USE DEF KeptInv, LaneInv
<1>1. ASSUME Persist(p) \/ PlanDirect(p) PROVE Row
  <2>1. cur[p] \in Keys /\ p \in Drivers
    BY <1>1 DEF Persist, PlanDirect, At, MemoryOK, Knows, Holding, KeptBy, DriverLabels, Labels
  <2>2. RowsRest \/ RowWritten(cur[p])
    BY <1>1 DEF Persist, PlanDirect, RowsRest, RowWritten, outside
  <2> QED
    BY <2>1, <2>2
<1>2. ASSUME Emit(p) PROVE Row
  <2>1. cur[p] \in Keys /\ p \in Drivers
    BY <1>2 DEF Emit, At, MemoryOK, Knows, Holding, KeptBy, DriverLabels, Labels
  <2>2. RowMarked(cur[p])
    BY <1>2 DEF Emit, RowMarked, outside
  <2> QED
    BY <2>1, <2>2
<1>3. ASSUME Invoke(p) PROVE Row
  <2>1. cur[p] \in Keys /\ p \in Drivers
    BY <1>3 DEF Invoke, At, MemoryOK, Knows, Holding, KeptBy, DriverLabels, Labels
  <2>2. outbox[cur[p]] = "emitted" /\ worker[cur[p]] = 0 /\ plan[cur[p]] = "spawn"
    BY <1>3 DEF Invoke, At, KeptBy
  <2>3. worker' \in {worker, [worker EXCEPT ![cur[p]] = 1]} /\ UNCHANGED <<plan, outbox, receipt>>
    BY <1>3, <2>1, <2>2 DEF Invoke, rows, intents, RowsOK
  <2> QED
    BY <2>1, <2>2, <2>3 DEF RowPerformed, RowsRest
<1>4. ASSUME NEW k \in Keys, NEW s \in ReceiptStates \ {"none"}, StoreReceipt(k, s), worker[k] = 1,
             UNCHANGED worker
      PROVE  Row
  <2>1. UNCHANGED rows \/ RowAnswered(k)
    BY <1>4 DEF StoreReceipt, RowAnswered
  <2> QED
    BY <1>4, <2>1 DEF rows, intents, RowsRest
<1>5. ASSUME Ingest(p) PROVE Row
  BY <1>4, <1>5 DEF Ingest, At, outside, MemoryOK, Knows, Holding, KeptBy
<1>6. ASSUME NEW k \in Keys, NEW s, LateReceipt(p, k, s) PROVE Row
  <2>1. worker[k] = 1 /\ s \in ReceiptStates \ {"none"}
    BY <1>6 DEF LateReceipt, KeptRow, Threaded, ReceiptStates
  <2> QED
    BY <1>4, <1>6, <2>1 DEF LateReceipt, outside
<1>7. ASSUME Repair(p) PROVE Row
  <2>1. cur[p] \in Keys
    BY <1>7 DEF Repair, At, MemoryOK, Knows, Holding
  <2>2. Acknowledged(cur[p]) = outbox
    BY <1>7, <2>1 DEF Repair, KeptRow, Acknowledged
  <2> QED
    BY <1>7, <2>2 DEF Repair, rows, intents, outside, RowsRest
<1>8. ASSUME Write(p) PROVE Row
  <2>1. cur[p] \in Keys /\ plan[cur[p]] = "direct"
    BY <1>8 DEF Write, At, MemoryOK, Knows, Holding, KeptBy
  <2> QED
    BY <1>8, <2>1 DEF Write, RowSettled, outside
<1>9. ASSUME \/ Tick(p) \/ Expanded(p) \/ Replayed(p) \/ Scan(p) \/ Claim(p) \/ Insert(p)
             \/ Promote(p) \/ Look(p) \/ Delegate(p) \/ Mark(p) \/ Acquired(p) \/ Direct(p)
             \/ Execute(p) \/ Reconcile(p) \/ MarkActive(p)
             \/ Block(p) \/ Dispatched(p) \/ TickEnd(p) \/ Read(p) \/ Verify(p) \/ Apply(p)
             \/ Finish(p) \/ Record(p) \/ Recover(p) \/ Crash(p)
      PROVE  RowsRest
  BY <1>9 DEF Tick, Expanded, Replayed, Scan, Claim, Insert, Promote, Look, Delegate, Moves, Mark,
              Acquired, Direct, Execute,
              Reconcile, MarkActive, Block, Dispatched, TickEnd, Read, Verify, Apply, Finish, Record,
              Recover, Crash, rows, intents, outside, RowsRest
<1>10. ASSUME NEW k, NEW s, \/ Replay(p, k) \/ Dispatch(p, k) \/ Observe(p, k) \/ Bring(p, k, s)
                            \/ Acquire(p, k) \/ Create(p, k) \/ Retry(p, k) \/ Cancel(p, k)
       PROVE  RowsRest
  BY <1>10 DEF Replay, Dispatch, Observe, Bring, Acquire, Create, Retry, Cancel, Skip, rows, intents,
               outside, RowsRest
<1> QED
  BY <1>1, <1>2, <1>3, <1>5, <1>6, <1>7, <1>8, <1>9, <1>10 DEF Continue, Command

\* Only a driver gets to the labels of the tick.
LEMMA DriverStep ==
  ASSUME KeptInv, NEW p \in Procs, Tick(p) \/ Continue(p) \/ Command(p) \/ Crash(p),
         pc'[p] \in DriverLabels \/ back'[p] # "idle"
  PROVE  p \in Drivers
<1> SUFFICES ASSUME p \notin Drivers PROVE FALSE
  OBVIOUS
<1>1. pc[p] \in {"idle", "read", "verify", "apply", "finish", "record", "start",
"write"} /\ back[p] = "idle"
  BY DEF KeptInv, LaneInv, MemoryOK, KeptBy, DriverLabels
<1> USE DEF KeptInv, LaneInv, MemoryOK, Goto, At, DriverLabels
<1>2. ASSUME Forget(p) PROVE FALSE
  BY <1>2 DEF Forget
<1>3. ASSUME Tick(p) \/ Continue(p) \/ Command(p) \/ Crash(p)
      PROVE  \/ Read(p) \/ Verify(p) \/ Apply(p) \/ Finish(p) \/ Record(p) \/ MarkActive(p) \/ Write(p)
             \/ Command(p) \/ Crash(p)
  BY <1>1, <1>3 DEF Tick, Continue, Create, Expanded, Replayed, Replay, Dispatch, Observe, Scan, Claim,
                    Insert, Mark, Acquired, Acquire, Promote, Look, Delegate, Moves, Direct,
                    Execute, PlanDirect, Persist,
                    Emit, Reconcile, Invoke, Ingest, Repair, Block, Dispatched, TickEnd
<1>4. ASSUME Read(p) \/ Verify(p) \/ Write(p) PROVE FALSE
  BY <1>1, <1>4 DEF Read, Verify, Write, Step, Enter
<1>5. ASSUME Apply(p) \/ Finish(p) PROVE FALSE
  BY <1>1, <1>2, <1>5 DEF Apply, Finish, Step
<1>6. ASSUME Record(p) \/ MarkActive(p) \/ Crash(p) PROVE FALSE
  BY <1>1, <1>2, <1>6 DEF Record, MarkActive, Crash
<1>7. ASSUME NEW k, NEW s, Bring(p, k, s) \/ LateReceipt(p, k, s) PROVE FALSE
  BY <1>2, <1>7 DEF Bring, LateReceipt, Enter
<1>8. ASSUME NEW u, Retry(p, u) \/ Cancel(p, u) \/ Recover(p) PROVE FALSE
  BY <1>1, <1>8 DEF Retry, Cancel, Recover, memory
<1> QED
  BY <1>3, <1>4, <1>5, <1>6, <1>7, <1>8 DEF Command

\* How a process gets to a label at which it knows something of a row.
LEMMA LabelStep ==
  ASSUME KeptInv, NEW p \in Procs, Tick(p) \/ Continue(p) \/ Command(p) \/ Crash(p)
  PROVE  /\ pc'[p] = "relay" => plan'[cur'[p]] = "spawn"
         /\ pc'[p] = "invoke" => Emit(p)
         /\ pc'[p] = "ingest" => worker'[cur'[p]] = 1
         /\ pc'[p] = "write" => plan'[cur'[p]] = "direct"
<1> DEFINE Known == /\ pc'[p] = "relay" => plan'[cur'[p]] = "spawn"
                    /\ pc'[p] = "invoke" => Emit(p)
                    /\ pc'[p] = "ingest" => worker'[cur'[p]] = 1
                    /\ pc'[p] = "write" => plan'[cur'[p]] = "direct"
<1> USE DEF KeptInv, LaneInv, MemoryOK, Goto
<1>1. ASSUME pc'[p] \notin {"relay", "invoke", "ingest", "write"} PROVE Known
  BY <1>1
<1>2. ASSUME Forget(p) PROVE Known
  BY <1>1, <1>2 DEF Forget
<1>3. ASSUME NEW label \in Labels \ {"relay", "invoke", "ingest", "write"},
             \/ Next1(p, label) \/ Step(p, label)
             \/ \E S : Loop(p, label, S)
             \/ \E k, h, b : Enter(p, label, k, h, b)
      PROVE  Known
  BY <1>1, <1>3 DEF Next1, Step, Loop, Enter
<1>4. ASSUME Tick(p) \/ Expanded(p) \/ Replayed(p) \/ Dispatched(p) PROVE Known
  BY <1>1, <1>4 DEF Tick, Expanded, Replayed, Dispatched, Loop
<1>5. ASSUME NEW u, Create(p, u) \/ Acquire(p, u) \/ Retry(p, u) \/ Cancel(p, u) PROVE Known
  BY <1>1, <1>2, <1>5 DEF Create, Acquire, Retry, Cancel, Step, Enter, Issue, At, memory
<1>6. ASSUME NEW k, Replay(p, k) \/ Observe(p, k) PROVE Known
  BY <1>1, <1>6 DEF Replay, Observe, Skip, Enter, At
<1>7. ASSUME NEW k \in Keys, Dispatch(p, k) PROVE Known
  <2>1. \A native \in Native : Route(k[1], native) \notin {"relay", "invoke", "ingest", "write"}
    BY LaneConstants, KeyParts DEF Route, Modes
  <2>2. CASE plan[k] = "spawn"
    BY <1>7, <2>2 DEF Dispatch, Enter, rows, intents
  <2>3. CASE plan[k] # "spawn"
    BY <1>1, <1>7, <2>1, <2>3 DEF Dispatch, Enter
  <2> QED
    BY <2>2, <2>3
<1>8. ASSUME Scan(p) \/ Claim(p) \/ Insert(p) \/ Mark(p) \/ Acquired(p) PROVE Known
  BY <1>1, <1>8 DEF Scan, Claim, Insert, Mark, Acquired, Step
<1>19. ASSUME Promote(p) \/ Look(p) \/ Delegate(p) PROVE Known
  BY <1>1, <1>2, <1>19 DEF Promote, Look, Delegate, Moves, Step
<1>9. ASSUME Direct(p) \/ Execute(p) \/ Block(p) \/ TickEnd(p) \/ Recover(p) \/ Crash(p) PROVE Known
  BY <1>1, <1>2, <1>9 DEF Direct, Execute, Block, TickEnd, Recover, Crash, Step, Issue, At, memory
<1>10. ASSUME Persist(p) PROVE Known
  BY <1>2, <1>10 DEF Persist, Step, At, RowsOK, Knows, Holding
<1>11. ASSUME PlanDirect(p) PROVE Known
  BY <1>1, <1>2, <1>11 DEF PlanDirect, Next1
<1>12. ASSUME Emit(p) PROVE Known
  BY <1>12 DEF Emit, Step
<1>13. ASSUME Reconcile(p) PROVE Known
  <2>1. cur[p] \in Keys /\ worker[cur[p]] \in {0, 1}
    BY <1>13 DEF Reconcile, At, Knows, Holding, KeptRow
  <2> QED
    BY <1>1, <1>13, <2>1 DEF Reconcile, Next1, Enter, outside
<1>14. ASSUME Invoke(p) PROVE Known
  <2>1. cur[p] \in Keys /\ worker[cur[p]] = 0
    BY <1>14 DEF Invoke, At, Knows, Holding, KeptBy
  <2>2. Next1(p, "dispatch") \/ Forget(p) \/ Enter(p, "block", cur[p], "none", "dispatch")
        \/ \E r : Enter(p, "ingest", cur[p], r, "dispatch") /\ worker' = [worker EXCEPT ![cur[p]] = @ + 1]
    BY <1>14 DEF Invoke
  <2> QED
    BY <1>1, <1>2, <2>1, <2>2 DEF Next1, Enter, RowsOK
<1>15. ASSUME Ingest(p) \/ Repair(p) \/ MarkActive(p) PROVE Known
  BY <1>1, <1>2, <1>15 DEF Ingest, Repair, MarkActive, Next1, Step
<1>16. ASSUME Read(p) \/ Verify(p) \/ Apply(p) \/ Write(p) PROVE Known
  BY <1>1, <1>2, <1>16 DEF Read, Verify, Apply, Write, Step, Enter
<1>17. ASSUME Finish(p) \/ Record(p) PROVE Known
  BY <1>1, <1>2, <1>17 DEF Finish, Record, Next1, Step
<1>18. ASSUME NEW k, NEW s, Bring(p, k, s) \/ LateReceipt(p, k, s) PROVE Known
  BY <1>1, <1>2, <1>18 DEF Bring, LateReceipt, Enter, rows, intents
<1> QED
  BY <1>4, <1>5, <1>6, <1>7, <1>8, <1>9, <1>10, <1>11, <1>12, <1>13, <1>14, <1>15, <1>16, <1>17,
  <1>18, <1>19
     DEF Continue, Command

\* What each kind of step makes of a row.
LEMMA RowStep ==
  ASSUME KeptInv,
         \/ RowsRest
         \/ \E j \in Keys : \/ RowWritten(j) \/ RowMarked(j) \/ RowPerformed(j)
                            \/ RowAnswered(j) \/ RowSettled(j)
  PROVE  /\ \A k \in Keys : KeptRow(k)'
         /\ \A k \in Keys : plan[k] # "none" => plan'[k] = plan[k]
         /\ \A k \in Keys : worker[k] = 1 => worker'[k] = 1
         /\ [Promise!Next]_(Promise!vars)
<1> DEFINE Good == /\ \A k \in Keys : KeptRow(k)'
                   /\ \A k \in Keys : plan[k] # "none" => plan'[k] = plan[k]
                   /\ \A k \in Keys : worker[k] = 1 => worker'[k] = 1
                   /\ [Promise!Next]_(Promise!vars)
<1> DEFINE answers == {k \in Keys : receipt[k] # "none"}
<1> USE DEF KeptInv, LaneInv, RowsOK, KeptRow
<1>1. CASE RowsRest
  BY <1>1 DEF RowsRest, Promise!vars, IntentOf
<1>2. ASSUME NEW j \in Keys, RowWritten(j) PROVE Good
  <2>1. /\ outbox[j] = "none" /\ outbox' = [outbox EXCEPT ![j] = "pending"]
        /\ UNCHANGED <<receipt, worker>>
    BY <1>2 DEF RowWritten
  <2>4. IntentOf(j) = "none" /\ \A k \in Keys : IntentOf(k)' = IF k = j THEN "written" ELSE IntentOf(k)
    BY <2>1 DEF IntentOf
  <2>5. [k \in Keys |-> IntentOf(k)]' = [[k \in Keys |-> IntentOf(k)] EXCEPT ![j] = "written"]
    BY <2>4
  <2>2. Promise!Write(j)
    BY <2>1, <2>4, <2>5 DEF Promise!Write
  <2>3. \A k \in Keys : KeptRow(k)' /\ (plan[k] # "none" => plan'[k] = plan[k])
    BY <1>2 DEF RowWritten
  <2> QED
    BY <2>1, <2>2, <2>3 DEF Promise!Next
<1>3. ASSUME NEW j \in Keys, RowMarked(j) PROVE Good
  <2>5. /\ outbox[j] = "pending" /\ outbox'[j] = "emitted"
        /\ \A k \in Keys \ {j} : outbox'[k] = outbox[k]
    BY <1>3 DEF RowMarked
  <2>3. IntentOf(j) = "written" /\ \A k \in Keys : IntentOf(k)' = IF k = j THEN "sent" ELSE IntentOf(k)
    BY <2>5 DEF IntentOf
  <2>4. [k \in Keys |-> IntentOf(k)]' = [[k \in Keys |-> IntentOf(k)] EXCEPT ![j] = "sent"]
    BY <2>3
  <2>1. Promise!Send(j)
    BY <1>3, <2>3, <2>4 DEF RowMarked, Promise!Send
  <2>2. \A k \in Keys : KeptRow(k)'
    BY <1>3 DEF RowMarked
  <2> QED
    BY <1>3, <2>1, <2>2 DEF RowMarked, Promise!Next
<1>4. ASSUME NEW j \in Keys, RowPerformed(j) PROVE Good
  <2>3. IntentOf(j) = "sent" /\ \A k \in Keys : IntentOf(k)' = IntentOf(k)
    BY <1>4 DEF RowPerformed, IntentOf
  <2>1. Promise!Perform(j)
    BY <1>4, <2>3 DEF RowPerformed, Promise!Perform
  <2>2. \A k \in Keys : KeptRow(k)'
    BY <1>4 DEF RowPerformed
  <2> QED
    BY <1>4, <2>1, <2>2 DEF RowPerformed, Promise!Next
<1>5. ASSUME NEW j \in Keys, RowAnswered(j) PROVE Good
  <2>1. outbox'[j] = "acknowledged" /\ \A k \in Keys \ {j} : outbox'[k] = outbox[k]
    BY <1>5 DEF RowAnswered, Acknowledged
  <2>2. receipt'[j] # "none" /\ \A k \in Keys \ {j} : receipt'[k] = receipt[k]
    BY <1>5 DEF RowAnswered
  <2>3. \A k \in Keys : IntentOf(k)' = IF k = j THEN "settled" ELSE IntentOf(k)
    BY <2>1 DEF IntentOf
  <2>6. answers' = answers \union {j}
    BY <2>2
  <2>7. [k \in Keys |-> IntentOf(k)]' = [[k \in Keys |-> IntentOf(k)] EXCEPT ![j] = "settled"]
    BY <2>3
  <2>4. Promise!Answer(j)
    BY <1>5, <2>6, <2>7 DEF RowAnswered, Promise!Answer
  <2>5. \A k \in Keys : KeptRow(k)'
    BY <1>5, <2>1, <2>2 DEF RowAnswered
  <2> QED
    BY <1>5, <2>4, <2>5 DEF RowAnswered, Promise!Next
<1>6. ASSUME NEW j \in Keys, RowSettled(j) PROVE Good
  <2>1. Promise!Settle({j})
    BY <1>6 DEF RowSettled, Promise!Settle, IntentOf
  <2>2. \A k \in Keys : KeptRow(k)'
    BY <1>6 DEF RowSettled
  <2>3. Promise!Next
    BY <2>1 DEF Promise!Next
  <2> QED
    BY <1>6, <2>2, <2>3 DEF RowSettled
<1> QED
  BY <1>1, <1>2, <1>3, <1>4, <1>5, <1>6

LEMMA NextKept ==
  ASSUME KeptInv, [Next]_vars, \A p, q \in Drivers : p = q
  PROVE  KeptInv' /\ [Promise!Next]_(Promise!vars)
<1> USE DEF KeptInv
<1>1. LaneInv'
  BY NextLane
<1>2. ASSUME NEW p \in Procs, Tick(p) \/ Continue(p) \/ Command(p) \/ Crash(p)
      PROVE  KeptInv' /\ [Promise!Next]_(Promise!vars)
  <2>1. \/ RowsRest
        \/ \E k \in Keys : RowAnswered(k) \/ RowSettled(k)
        \/ p \in Drivers /\ \E k \in Keys : RowWritten(k) \/ RowMarked(k) \/ RowPerformed(k)
    BY <1>2, LaneRow
  <2>2. /\ \A k \in Keys : KeptRow(k)'
        /\ \A k \in Keys : plan[k] # "none" => plan'[k] = plan[k]
        /\ \A k \in Keys : worker[k] = 1 => worker'[k] = 1
        /\ [Promise!Next]_(Promise!vars)
    BY <2>1, RowStep
  <2>3. KeptBy(p)'
    <3>1. pc'[p] = "invoke" =>
            outbox'[cur'[p]] = "emitted" /\ worker'[cur'[p]] = 0 /\ plan'[cur'[p]] = "spawn"
      <4> SUFFICES ASSUME pc'[p] = "invoke"
                   PROVE  outbox'[cur'[p]] = "emitted" /\ worker'[cur'[p]] = 0 /\ plan'[cur'[p]] = "spawn"
        OBVIOUS
      <4>1. Emit(p)
        BY <1>2, LabelStep
      <4>2. cur[p] \in Keys /\ plan[cur[p]] = "spawn" /\ outbox[cur[p]] = "pending"
        BY <4>1 DEF Emit, At, LaneInv, MemoryOK, Knows, Holding, KeptBy
      <4>3. worker[cur[p]] = 0
        BY <4>2 DEF KeptRow
      <4> QED
        BY <4>1, <4>2, <4>3 DEF Emit, Step, outside, LaneInv, RowsOK
    <3> QED
      BY <1>2, <3>1, LabelStep, DriverStep DEF KeptBy
  <2>4. ASSUME NEW q \in Procs, q # p PROVE KeptBy(q)'
    <3>1. UNCHANGED <<pc[q], cur[q], back[q]>>
      BY <1>2, <2>4, OthersRest DEF LaneInv
    <3>2. pc[q] \in Holding => cur[q] \in Keys
      BY DEF LaneInv, MemoryOK, Knows
    <3>3. CASE pc[q] = "invoke"
      <4>1. p \notin Drivers /\ cur[q] \in Keys
        BY <2>4, <3>2, <3>3 DEF KeptBy, DriverLabels, Labels, Holding
      <4>2. RowsRest \/ \E k \in Keys : k # cur[q] /\ (RowAnswered(k) \/ RowSettled(k))
        BY <2>1, <3>3, <4>1 DEF KeptBy, RowAnswered, RowSettled
      <4>3. ASSUME NEW k \in Keys, k # cur[q], RowAnswered(k) \/ RowSettled(k)
            PROVE  UNCHANGED <<outbox[cur[q]], worker[cur[q]], plan[cur[q]]>>
        BY <3>1, <4>1, <4>3 DEF RowAnswered, RowSettled, Acknowledged, LaneInv, RowsOK
      <4>4. UNCHANGED <<outbox[cur[q]], worker[cur[q]], plan[cur[q]]>>
        BY <3>1, <4>2, <4>3 DEF RowsRest
      <4> QED
        BY <3>1, <3>3, <4>4 DEF KeptBy, DriverLabels
    <3>4. CASE pc[q] # "invoke"
      BY <2>2, <3>1, <3>2, <3>4 DEF KeptBy, Holding
    <3> QED
      BY <3>3, <3>4
  <2> QED
    BY <1>1, <2>2, <2>3, <2>4
<1>3. CASE (\E k \in Keys : Publish(k)) \/ UNCHANGED vars
  <2>1. RowsRest /\ UNCHANGED memory
    BY <1>3 DEF Publish, vars, rows, intents, outside, RowsRest
  <2>2. \A p \in Procs : KeptBy(p)'
    BY <2>1 DEF memory, RowsRest, KeptBy
  <2> QED
    BY <1>1, <2>1, <2>2, RowStep
<1> QED
  BY <1>2, <1>3 DEF Next

\* While one driver at a time runs the lane, its outbox keeps the promise of
\* Intents, for any number of callers: no intent has two workers, and none is
\* spawned for a row that is acknowledged, although a tick may end between the
\* spawn and its answer.
THEOREM LanePromiseKept ==
  ASSUME \A p, q \in Drivers : p = q
  PROVE  Spec => IntentsKept
<1>1. Init => KeptInv
  BY InitLane DEF Init, KeptInv, KeptRow, KeptBy, DriverLabels
<1>2. Init => Promise!Init
  BY DEF Init, Promise!Init, IntentOf
<1>3. KeptInv /\ [Next]_vars => KeptInv' /\ [Promise!Next]_(Promise!vars)
  BY NextKept
<1> QED
  BY <1>1, <1>2, <1>3, PTL DEF Spec, IntentsKept, Promise!Spec

============================================================================
