--------------------------- MODULE Domain_proofs ---------------------------
(***************************************************************************)
(* What the domain objects promise, for any number of repositories, packs, *)
(* graphs, calls and outcomes.                                             *)
(*                                                                         *)
(* Contracts: a delta becomes a revision at most once and right after the  *)
(* version its author read. One version is one row, because whoever        *)
(* inserts sees every row there is, and a delta's row follows the one it   *)
(* names.                                                                  *)
(*                                                                         *)
(* ResearchRuntime: the canonical route of a Research Pack is backed. The  *)
(* pack that promote_canonical compiles carries the decision and the       *)
(* boundary, and no later call takes either away.                          *)
(*                                                                         *)
(* GraphBuild: a graph that was built call by call can be worked off, and  *)
(* a unit never holds more than the one above it.                          *)
(*                                                                         *)
(* Goals: a compiled goal keeps the stated order. Every stated pair is a   *)
(* reference of an outcome, and among distinct outcomes no other scores as *)
(* much for a reference as the one that it names.                          *)
(*                                                                         *)
(* Phases: the steps of a phase wait for those of the phases before it.    *)
(* Every step waits for the one of its phase right before it, or else for  *)
(* the last one of the phase before, and each round of materialize hands   *)
(* this on.                                                                *)
(***************************************************************************)
EXTENDS Contracts, ResearchRuntime, GraphBuild, Goals, Phases, FiniteSetTheorems,
        SequenceTheorems, TLAPS

-----------------------------------------------------------------------------
(* Contracts *)

ContractSpec == ContractInit /\ [][ContractNext]_contractVars

Rows == revisions \union unsettled

\* The newest row of a set of rows.
Top(rows) == \E r \in rows : \A q \in rows : q.v <= r.v

Unique(rows) == \A q, r \in rows : q.v = r.v => q = r

\* A delta's row comes right after one of these rows.
Follows(r, rows) == r.by = "delta" => r.v = r.read + 1 /\ r.read \in {q.v : q \in rows}

ContractInv ==
  /\ \A r \in Rows : r.v \in Nat /\ r.read \in Nat
  /\ outer = Nobody => unsettled = {}
  /\ \A d \in drafts : d.base \in Nat /\ d.proposed \in Nat
  /\ Top(revisions) /\ Top(Rows)
  /\ Unique(Rows)
  /\ \A r \in revisions : Follows(r, revisions)
  /\ \A r \in unsettled : Follows(r, Rows)

LEMMA InitContract == ContractInit => ContractInv
BY DEF ContractInit, ContractInv, Rows, Top, Unique, Follows

\* Version and RowAt find the newest row.
LEMMA NewestRow ==
  ASSUME NEW rows, Top(rows), \A r \in rows : r.v \in Nat
  PROVE  /\ RowAt(rows, Version(rows)) \in rows
         /\ Version(rows) = RowAt(rows, Version(rows)).v
         /\ \A q \in rows : q.v <= Version(rows)
<1>1. PICK r \in rows : \A q \in rows : q.v <= r.v
  BY DEF Top
<1>2. \E v \in {q.v : q \in rows} : \A q \in rows : q.v <= v
  BY <1>1
<1>3. Version(rows) \in {q.v : q \in rows} /\ \A q \in rows : q.v <= Version(rows)
  BY <1>2 DEF Version
<1>4. \E q \in rows : q.v = Version(rows)
  BY <1>3
<1> QED
  BY <1>3, <1>4 DEF RowAt

\* Whoever may insert sees every row.
LEMMA InsertersSeeAll ==
  ASSUME ContractInv, NEW p, outer \in {Nobody, p}
  PROVE  VisibleRows(p) = Rows
BY DEF ContractInv, VisibleRows, Rows

\* A new version that follows what is visible keeps the invariant.
LEMMA InsertKeeps ==
  ASSUME ContractInv, NEW p \in Repositories, NEW row, Insert(p, row), UNCHANGED <<outer, drafts>>,
         row.v \in Nat, row.read \in Nat,
         row.v \notin {q.v : q \in Rows}, Follows(row, Rows)
  PROVE  ContractInv'
<1> USE DEF ContractInv
<1>1. Rows' = Rows \union {row}
  BY DEF Insert, Rows
<1>2. Unique(Rows)'
  BY <1>1 DEF Unique
<1>3. \A rows : Top(rows) /\ (\A r \in rows : r.v \in Nat) => Top(rows \union {row})
  <2> SUFFICES ASSUME NEW rows, Top(rows), \A r \in rows : r.v \in Nat PROVE Top(rows \union {row})
    OBVIOUS
  <2>1. PICK r \in rows : \A q \in rows : q.v <= r.v
    BY DEF Top
  <2>2. CASE row.v <= r.v
    BY <2>1, <2>2 DEF Top
  <2>3. CASE ~(row.v <= r.v)
    <3>1. \A q \in rows \union {row} : q.v <= row.v
      BY <2>1, <2>3
    <3> QED
      BY <3>1 DEF Top
  <2> QED
    BY <2>2, <2>3
<1>4. CASE outer = p /\ outer # Nobody
  <2>1. revisions' = revisions /\ unsettled' = unsettled \union {row}
    BY <1>4 DEF Insert
  <2>2. \A r \in unsettled' : Follows(r, Rows)'
    BY <1>1, <2>1 DEF Follows
  <2> QED
    BY <1>1, <1>2, <1>3, <1>4, <2>1, <2>2 DEF Rows, Follows
<1>5. CASE outer = Nobody /\ outer # p
  <2>1. revisions' = revisions \union {row} /\ unsettled' = {} /\ Rows = revisions
    BY <1>5 DEF Insert, Rows
  <2>2. Rows' = revisions'
    BY <2>1 DEF Rows
  <2>3. \A r \in revisions' : Follows(r, revisions')
    BY <2>1 DEF Follows
  <2> QED
    BY <1>1, <1>2, <1>3, <1>5, <2>1, <2>2, <2>3
<1>6. p # Nobody
  BY RepositoriesAreNamed
<1> QED
  BY <1>4, <1>5, <1>6 DEF Insert

LEMMA ApplyKeeps ==
  ASSUME ContractInv, NEW p \in Repositories, NEW d \in drafts, ApplyDelta(p, d)
  PROVE  ContractInv'
<1> DEFINE current == RowAt(VisibleRows(p), Version(VisibleRows(p)))
           row == [v |-> d.proposed, items |-> ItemsAfter(current.items, ItemChange[d.key]),
                   by |-> "delta", read |-> d.base, key |-> d.key]
<1>1. Insert(p, row) /\ UNCHANGED <<outer, drafts>> /\ d.base = current.v /\ d.proposed = current.v + 1
  BY DEF ApplyDelta, Fresh
<1>2. VisibleRows(p) = Rows
  BY <1>1, InsertersSeeAll DEF Insert
<1>3. current \in Rows /\ \A q \in Rows : q.v <= current.v
  BY <1>2, NewestRow DEF ContractInv
<1>4. row.v \in Nat /\ row.read \in Nat /\ row.v = current.v + 1 /\ row.read = current.v
  BY <1>1, <1>3 DEF ContractInv
<1>5. row.v \notin {q.v : q \in Rows}
  BY <1>3, <1>4 DEF ContractInv
<1>6. Follows(row, Rows)
  BY <1>3, <1>4 DEF Follows
<1> HIDE DEF row, current
<1> QED
  BY <1>1, <1>4, <1>5, <1>6, InsertKeeps

LEMMA WholeKeeps ==
  ASSUME ContractInv, NEW p \in Repositories, NEW d \in drafts,
         PutRevision(p, d) \/ StoreRevision(p, d)
  PROVE  ContractInv'
<1>1. CASE UNCHANGED <<revisions, unsettled>> /\ UNCHANGED <<outer, applied, drafts>>
  BY <1>1 DEF ContractInv, Rows
<1>2. CASE /\ Insert(p, Whole(p, d)) /\ UNCHANGED <<outer, drafts>>
           /\ d.proposed \notin {q.v : q \in VisibleRows(p)}
  <2>1. VisibleRows(p) = Rows
    BY <1>2, InsertersSeeAll DEF Insert
  <2>2. /\ Whole(p, d).v = d.proposed /\ Whole(p, d).read = d.base /\ Whole(p, d).by = "whole"
        /\ d.proposed \in Nat /\ d.base \in Nat
    BY DEF Whole, ContractInv
  <2> QED
    BY <1>2, <2>1, <2>2, InsertKeeps DEF Follows
<1>3. ASSUME PutRevision(p, d) PROVE d.proposed \notin {q.v : q \in VisibleRows(p)}
  <2>1. VisibleRows(p) = Rows /\ d.proposed = Version(VisibleRows(p)) + 1
    BY <1>3, InsertersSeeAll DEF PutRevision, Insert
  <2>2. Version(Rows) \in Nat /\ \A q \in Rows : q.v <= Version(Rows)
    BY NewestRow DEF ContractInv
  <2> QED
    BY <2>1, <2>2 DEF ContractInv
<1> QED
  BY <1>1, <1>2, <1>3 DEF PutRevision, StoreRevision

LEMMA NextContract == ContractInv /\ [ContractNext]_contractVars => ContractInv'
<1> SUFFICES ASSUME ContractInv, [ContractNext]_contractVars PROVE ContractInv'
  OBVIOUS
<1> USE DEF ContractInv
<1>1. ASSUME NEW p \in Repositories, NEW k, NEW skip \in {0, 1}, DraftDelta(p, k, skip) PROVE ContractInv'
  <2>1. Top(VisibleRows(p)) /\ \A r \in VisibleRows(p) : r.v \in Nat
    BY DEF VisibleRows, Rows
  <2>2. Version(VisibleRows(p)) \in Nat
    BY <2>1, NewestRow
  <2>3. \A d \in drafts' : d.base \in Nat /\ d.proposed \in Nat
    BY <1>1, <2>2 DEF DraftDelta
  <2> QED
    BY <1>1, <2>3 DEF DraftDelta, Rows
<1>2. ASSUME NEW p \in Repositories, BeginOuter(p) PROVE ContractInv'
  BY <1>2 DEF BeginOuter, Rows
<1>3. ASSUME NEW p \in Repositories, EndOuter(p, TRUE) PROVE ContractInv'
  <2>1. revisions' = Rows /\ unsettled' = {} /\ drafts' = drafts
    BY <1>3 DEF EndOuter, Rows
  <2>2. Rows' = Rows
    BY <2>1 DEF Rows
  <2>3. \A r \in revisions' : Follows(r, revisions')
    BY <2>1 DEF Rows, Follows
  <2> QED
    BY <2>1, <2>2, <2>3
<1>4. ASSUME NEW p \in Repositories, revisions' = revisions, unsettled' = {}, drafts' = drafts PROVE ContractInv'
  <2>1. Rows' = revisions /\ revisions \subseteq Rows
    BY <1>4 DEF Rows
  <2> QED
    BY <1>4, <2>1 DEF Unique
<1>5. ASSUME NEW p \in Repositories, EndOuter(p, FALSE) \/ RestartRepository(p) PROVE ContractInv'
  <2>1. CASE UNCHANGED <<revisions, unsettled, outer, drafts>>
    BY <2>1 DEF Rows
  <2> QED
    BY <1>4, <1>5, <2>1 DEF EndOuter, RestartRepository
<1>6. CASE UNCHANGED contractVars
  BY <1>6 DEF contractVars, Rows
<1> QED
  BY <1>1, <1>2, <1>3, <1>5, <1>6, ApplyKeeps, WholeKeeps DEF ContractNext

\* However often a delta is sent, by whichever process and after whichever
\* restart, it becomes one revision, right after the version its author read
\* (ContractRepository.apply_delta, put, Store.put_contract).
THEOREM DeltasOnce == ContractSpec => []DeltasAreAppliedOnce
<1>1. ContractInv => DeltasAreAppliedOnce
  <2> SUFFICES ASSUME ContractInv, NEW r \in revisions, r.by = "delta"
               PROVE  /\ \A q \in revisions : q.v < r.v => q.v <= r.read
                      /\ r.read \in {q.v : q \in revisions}
                      /\ \A q \in revisions : q.by = "delta" /\ q.key = r.key /\ q.read = r.read => q = r
    BY DEF DeltasAreAppliedOnce
  <2>1. r.v = r.read + 1 /\ r.read \in {q.v : q \in revisions}
    BY DEF ContractInv, Follows
  <2>2. \A q \in revisions : q \in Rows /\ q.v \in Nat /\ q.read \in Nat
    BY DEF ContractInv, Rows
  <2>3. \A q \in revisions : q.by = "delta" => q.v = q.read + 1
    BY DEF ContractInv, Follows
  <2> QED
    BY <2>1, <2>2, <2>3 DEF ContractInv, Unique
<1> QED
  BY <1>1, InitContract, NextContract, PTL DEF ContractSpec

-----------------------------------------------------------------------------
(* ResearchRuntime *)

ResearchSpec == ResearchInit /\ [][ResearchNext]_researchVars

Fields ==
  {"status", "findings", "rewinds", "applied", "decisions", "authorizations", "current", "last", "length"}

IsPack(p) == p = [f \in Fields |-> p[f]]

ResearchInv == IsPack(pack) /\ IsPack(kept) /\ CanonicalIsBacked

\* A later pack keeps what was decided and what it authorized.
Extends(q, p) ==
  /\ IsPack(q)
  /\ p.decisions \subseteq q.decisions /\ p.authorizations \subseteq q.authorizations

LEMMA InitResearch == ResearchInit => ResearchInv
BY OpenIsNoRoute DEF ResearchInit, Fresh0, ResearchInv, IsPack, Fields, CanonicalIsBacked

\* A change that leaves the canonical state alone, or takes no decision for it.
LEMMA CommitKeeps ==
  ASSUME ResearchInv, NEW q, Commit(q), Extends(q, pack),
         q.last = Open \/ (q.current = pack.current /\ q.last = pack.last)
  PROVE  ResearchInv'
<1>1. pack' = Grown(q) /\ kept' = kept
  BY DEF Commit
<1>2. IsPack(pack') /\ Extends(pack', pack) /\ pack'.current = q.current /\ pack'.last = q.last
  BY <1>1 DEF Extends, IsPack, Grown, Fields
<1>3. ASSUME pack'.last # Open PROVE pack'.current = pack.current /\ pack'.last = pack.last
  BY <1>2, <1>3
<1>4. CanonicalIsBacked'
  BY <1>2, <1>3 DEF ResearchInv, CanonicalIsBacked, Extends, Confirmed
<1> QED
  BY <1>1, <1>2, <1>4 DEF ResearchInv, IsPack

\* What the compilation of the next pack says of its authorizations.
LEMMA BoundariesAreBacked ==
  ASSUME NEW q, Compiles(q), NEW a \in q.authorizations, a.status = "authorized"
  PROVE  Confirmed(q, a.by)
BY DEF Compiles, Confirmed

LEMMA PromoteKeeps ==
  ASSUME ResearchInv, NEW d \in Decisions, NEW r \in Candidates, Promote(r, d)
  PROVE  ResearchInv'
<1> DEFINE q == [pack EXCEPT !.current = r, !.last = d.id, !.status[r] = "authorized"]
<1>1. pack' = Grown(q) /\ Compiles(pack') /\ kept' = kept
  BY DEF Promote, Commit
<1>2. IsPack(pack') /\ Extends(pack', pack) /\ pack'.current = r /\ pack'.last = d.id
      /\ pack'.authorizations = pack.authorizations
  BY <1>1 DEF Extends, IsPack, Grown, Fields, ResearchInv
<1>3. d \in pack'.decisions /\ d.status = "confirmed" /\ d.scope = "canonical-promotion"
      /\ d.selects \in {Open, r}
  BY <1>2 DEF Promote, Decides, MayPromote, Extends
<1>4. PICK a \in pack'.authorizations :
        a.route = r /\ a.status = "authorized" /\ a.scope = "canonical-promotion"
  BY <1>2 DEF Promote, MayPromote
<1>5. Confirmed(pack', a.by)
  BY <1>1, <1>4, BoundariesAreBacked
<1>6. CanonicalIsBacked'
  BY <1>2, <1>3, <1>4, <1>5 DEF CanonicalIsBacked
<1> QED
  BY <1>1, <1>2, <1>6 DEF ResearchInv, IsPack

LEMMA AuthorizeKeeps ==
  ASSUME ResearchInv, NEW d, NEW r, NEW scope, Authorize(r, scope, d)
  PROVE  ResearchInv'
<1> DEFINE first == IF d \in pack.decisions THEN pack ELSE Grown(WithDecision(pack, d))
           q     == [first EXCEPT !.authorizations = @ \union {Boundary(r, scope, d)}]
<1>1. Extends(q, pack) /\ q.current = pack.current /\ q.last = pack.last
  BY DEF Extends, IsPack, Grown, WithDecision, Fields, ResearchInv
<1>2. Extends(WithDecision(pack, d), pack) /\ WithDecision(pack, d).current = pack.current
      /\ WithDecision(pack, d).last = pack.last
  BY DEF Extends, IsPack, WithDecision, Fields, ResearchInv
<1>3. Commit(q) \/ Commit(WithDecision(pack, d))
  BY DEF Authorize
<1> QED
  BY <1>1, <1>2, <1>3, CommitKeeps

LEMMA NextResearch == ResearchInv /\ [ResearchNext]_researchVars => ResearchInv'
<1> SUFFICES ASSUME ResearchInv, [ResearchNext]_researchVars PROVE ResearchInv'
  OBVIOUS
<1>1. ASSUME NEW x, Put(x) PROVE ResearchInv'
  BY <1>1, CommitKeeps DEF Put, Extends, IsPack, Fields, ResearchInv
<1>2. ASSUME NEW w, ProposeRewind(w) PROVE ResearchInv'
  BY <1>2, CommitKeeps DEF ProposeRewind, Extends, IsPack, Fields, ResearchInv
<1>3. ASSUME NEW w, NEW d, ApplyRewind(w, d) PROVE ResearchInv'
  BY <1>3, CommitKeeps DEF ApplyRewind, Extends, IsPack, Fields, ResearchInv
<1>4. ASSUME NEW d, RecordDecision(d) PROVE ResearchInv'
  BY <1>4, CommitKeeps DEF RecordDecision, WithDecision, Extends, IsPack, Fields, ResearchInv
<1>5. ASSUME NEW next, Downgrade(next) PROVE ResearchInv'
  BY <1>5, CommitKeeps DEF Downgrade, Extends, IsPack, Fields, ResearchInv
<1>6. ASSUME KeepSnapshot PROVE ResearchInv'
  BY <1>6 DEF KeepSnapshot, ResearchInv, CanonicalIsBacked, Confirmed
<1>7. ASSUME OpenSnapshot PROVE ResearchInv'
  BY <1>7, OpenIsNoRoute DEF OpenSnapshot, ResearchInv, CanonicalIsBacked, IsPack, Fields
<1>8. CASE UNCHANGED researchVars
  BY <1>8 DEF researchVars, ResearchInv, CanonicalIsBacked, Confirmed
<1>9. ASSUME NEW x, RecordEvidence(x) \/ RecordFailure(x) \/ RecordLesson(x) \/ ReopenProblem(x)
      PROVE  ResearchInv'
  BY <1>1, <1>9 DEF RecordEvidence, RecordFailure, RecordLesson, ReopenProblem
<1> QED
  BY <1>2, <1>3, <1>4, <1>5, <1>6, <1>7, <1>8, <1>9, PromoteKeeps, AuthorizeKeeps DEF ResearchNext

\* A route made canonical by promotion always has the confirmed decision that its
\* last transition names and its authorized boundary (promote_canonical,
\* request_route_authorization, compile), for every pack, whatever is downgraded
\* and however often it is reopened.
THEOREM CanonicalBacked == ResearchSpec => []CanonicalIsBacked
<1>1. ResearchInv => CanonicalIsBacked
  BY DEF ResearchInv
<1> QED
  BY <1>1, InitResearch, NextResearch, PTL DEF ResearchSpec

-----------------------------------------------------------------------------
(* GraphBuild: what the calls leave *)

GraphSpec == GraphInit /\ [][TaskGraphCalls \/ WorkGraphCalls]_graphVars

Need == [on : TaskNames, condition : Conditions]

\* The task graph is one that validate would pass.
TaskInv ==
  /\ members \subseteq TaskNames
  /\ needs \in [TaskNames -> SUBSET Need] /\ bound \in [TaskNames -> ContractNames \union {Unlisted}]
  /\ taskState \in [TaskNames -> {"proposed", "completed"}]
  /\ Valid(members, needs, bound, contracts)

\* A unit's own parent is enough: the work graph is a forest of narrowing steps.
Below(u) ==
  \/ u.parent = Root
  \/ \E v \in units : v.id = u.parent /\ Within(v.grants, u.grants)

UnitInv ==
  /\ \A u \in units : u.id \in UnitNames /\ Below(u)
  /\ \A u, v \in units : u.id = v.id => u = v

GraphInv == TaskInv /\ UnitInv

\* GrantsOf reads the one unit of that id.
LEMMA GrantsFound ==
  ASSUME UnitInv, NEW v \in units
  PROVE  GrantsOf(v.id) = v.grants
  BY DEF UnitInv, GrantsOf

\* While tasks are left one of them is ready or waits for exports only.
LEMMA SomeTaskIsNext == TaskInv => GraphCanFinish
<1> SUFFICES ASSUME TaskInv PROVE GraphCanFinish
  OBVIOUS
<1>1. \A t \in members : bound[t] \in contracts
  BY DEF TaskInv, Valid
<1> DEFINE left == {t \in members : taskState[t] # "completed"}
<1>2. ASSUME left # {}
      PROVE  \E t \in left : t \in ReadyTasks
                 \/ \E d \in needs[t] : d.condition = "exports_available" /\ d.on \notin left
  <2>1. PICK t \in left : Parents(needs, t) \intersect left = {}
    BY <1>2 DEF TaskInv, Valid, Acyclic
  <2>2. t \in members /\ t \in TaskNames /\ taskState[t] = "proposed"
    BY DEF TaskInv
  <2>3. \A d \in needs[t] : d.on \in members /\ d.on \notin left
    BY <2>1, <2>2 DEF TaskInv, Valid, Parents
  <2>4. \A d \in needs[t] : d.condition \in Conditions /\ taskState[d.on] = "completed"
    <3>1. \A d \in needs[t] : d \in Need
      BY <2>2 DEF TaskInv
    <3> QED
      BY <2>3, <3>1 DEF Need
  <2>5. CASE \E d \in needs[t] : d.condition = "exports_available"
    BY <2>3, <2>5
  <2>6. CASE \A d \in needs[t] : d.condition = "completed"
    BY <2>2, <2>4, <2>6 DEF ReadyTasks, DependenciesSatisfied
  <2> QED
    BY <2>4, <2>5, <2>6 DEF Conditions
<1> QED
  BY <1>1, <1>2 DEF GraphCanFinish

\* The units that hold at most r's grants hold every child of theirs, so what
\* is in every such set is among them.
LEMMA NothingGained == UnitInv => DescendantsStayWithin
<1> SUFFICES ASSUME UnitInv, NEW r \in units, NEW u \in units,
                    \A S \in SUBSET units :
                      (r \in S /\ (\A v \in units : v.parent \in {s.id : s \in S} => v \in S)) => u \in S
             PROVE  \A p \in Policies : u.grants[p] \subseteq r.grants[p]
  BY DEF DescendantsStayWithin
<1> DEFINE S == {v \in units : \A p \in Policies : v.grants[p] \subseteq r.grants[p]}
<1>1. S \in SUBSET units /\ r \in S
  OBVIOUS
<1>2. ASSUME NEW v \in units, NEW s \in S, v.parent = s.id PROVE v \in S
  <2>1. v.parent # Root
    BY <1>2, RootIsNoUnit DEF UnitInv, Root
  <2>2. PICK w \in units : w.id = v.parent /\ Within(w.grants, v.grants)
    BY <2>1 DEF UnitInv, Below
  <2>3. w = s
    BY <1>2, <2>2 DEF UnitInv
  <2> QED
    BY <2>2, <2>3 DEF Within
<1>3. \A v \in units : v.parent \in {s.id : s \in S} => v \in S
  BY <1>2
<1>4. u \in S
  <2> HIDE DEF S
  <2> QED
    BY <1>1, <1>3
<1> QED
  BY <1>4

LEMMA TaskCallsKeep == GraphInv /\ TaskGraphCalls => GraphInv'
<1> SUFFICES ASSUME GraphInv, TaskGraphCalls PROVE GraphInv'
  OBVIOUS
<1>1. ASSUME NEW t \in TaskNames, NEW c \in ContractNames, NEW on \in SUBSET TaskNames, NEW k \in Conditions,
             AddTask(t, c, {[on |-> u, condition |-> k] : u \in on})
      PROVE  GraphInv'
  <2> DEFINE deps == {[on |-> u, condition |-> k] : u \in on}
  <2>1. deps \in SUBSET Need
    BY DEF Need
  <2> HIDE DEF deps
  <2>2. units' = units /\ taskState' = taskState
    BY <1>1 DEF AddTask
  <2>3. CASE /\ members' = members \union {t} /\ needs' = [needs EXCEPT ![t] = deps]
             /\ bound' = [bound EXCEPT ![t] = c] /\ contracts' = contracts \union {c}
             /\ Valid(members \union {t}, [needs EXCEPT ![t] = deps], [bound EXCEPT ![t] = c],
                      contracts \union {c})
    <3>1. Valid(members', needs', bound', contracts')
      BY <2>3
    <3> QED
      BY <2>1, <2>2, <2>3, <3>1 DEF GraphInv, TaskInv, UnitInv, Below
  <2>4. CASE /\ contracts' = ContractsAfterRefusal(members, bound, contracts \union {c}, c)
             /\ members' = members /\ needs' = needs /\ bound' = bound
    <3>1. \A v \in members : bound[v] \in contracts'
      BY <2>4 DEF GraphInv, TaskInv, Valid, ContractsAfterRefusal
    <3> QED
      BY <2>2, <2>4, <3>1 DEF GraphInv, TaskInv, Valid, UnitInv, Below
  <2>5. AddTask(t, c, deps)
    BY <1>1 DEF deps
  <2> QED
    BY <2>3, <2>4, <2>5 DEF AddTask
<1>2. ASSUME NEW t \in TaskNames, NEW u \in TaskNames, NEW k \in Conditions, AddDependency(t, u, k)
      PROVE  GraphInv'
  <2> DEFINE edge == [on |-> t, condition |-> k]
  <2> DEFINE edges == [needs EXCEPT ![u] = @ \union {edge}]
  <2>1. edge \in Need
    BY DEF Need
  <2>2. /\ UNCHANGED <<members, contracts, bound, taskState, units>>
        /\ \/ needs' = edges /\ Valid(members, edges, bound, contracts)
           \/ needs' = needs
    BY <1>2 DEF AddDependency
  <2> HIDE DEF edge
  <2>3. edges \in [TaskNames -> SUBSET Need]
    BY <2>1 DEF GraphInv, TaskInv
  <2> HIDE DEF edges
  <2>4. needs' \in [TaskNames -> SUBSET Need] /\ Valid(members', needs', bound', contracts')
    BY <2>2, <2>3 DEF GraphInv, TaskInv
  <2> QED
    BY <2>2, <2>4 DEF GraphInv, TaskInv, UnitInv, Below
<1>3. ASSUME NEW t \in TaskNames, Complete(t) PROVE GraphInv'
  BY <1>3 DEF Complete, GraphInv, TaskInv, UnitInv, Below
<1> QED
  BY <1>1, <1>2, <1>3 DEF TaskGraphCalls

LEMMA WorkCallsKeep == GraphInv /\ WorkGraphCalls => GraphInv'
<1> SUFFICES ASSUME GraphInv, WorkGraphCalls PROVE GraphInv'
  OBVIOUS
<1>0. ASSUME UNCHANGED <<members, needs, contracts, bound, taskState>> PROVE TaskInv'
  BY <1>0 DEF GraphInv, TaskInv
<1>1. ASSUME NEW id \in UnitNames, NEW given, NEW parent, AddUnit(id, parent, given) PROVE GraphInv'
  <2> DEFINE new == [id |-> id, parent |-> parent, grants |-> Bare(given)]
  <2>1. units' = units \union {new} /\ id \notin UnitIds
    BY <1>1 DEF AddUnit
  <2>2. \/ parent = Root
        \/ \E v \in units : v.id = parent /\ Within(v.grants, Bare(given))
    <3>1. CASE parent = Root
      BY <3>1
    <3>2. CASE parent \in UnitIds /\ Within(GrantsOf(parent), Bare(given))
      BY <3>2, GrantsFound DEF UnitIds, GraphInv
    <3> QED
      BY <1>1, <3>1, <3>2 DEF AddUnit
  <2>3. new.id = id /\ new.parent = parent /\ new.grants = Bare(given)
    OBVIOUS
  <2> HIDE DEF new
  <2>4. \A u \in units' : u.id \in UnitNames /\ Below(u)'
    BY <2>1, <2>2, <2>3 DEF GraphInv, UnitInv, Below
  <2>5. \A u, v \in units' : u.id = v.id => u = v
    BY <2>1, <2>3 DEF GraphInv, UnitInv, UnitIds
  <2> QED
    BY <1>0, <1>1, <2>4, <2>5 DEF GraphInv, UnitInv, AddUnit
<1>2. ASSUME NEW parent \in UnitIds, NEW id \in UnitNames, NEW id2 \in UnitNames, NEW given, NEW more,
             Expand(parent, {[id |-> id, given |-> given], [id |-> id2, given |-> more]})
      PROVE  GraphInv'
  <2> DEFINE batch == {[id |-> id, given |-> given], [id |-> id2, given |-> more]}
             child(b) == [id |-> b.id, parent |-> parent, grants |-> Inherited(GrantsOf(parent), b.given)]
  <2>1. UNCHANGED <<members, needs, contracts, bound, taskState>>
    BY <1>2 DEF Expand
  <2>2. CASE units' = units
    BY <1>0, <2>1, <2>2 DEF GraphInv, UnitInv, Below
  <2>3. CASE /\ units' = units \union {child(b) : b \in batch}
             /\ \A b \in batch : b.id \notin UnitIds
             /\ \A b, c \in batch : b.id = c.id => b = c
             /\ \A b \in batch : Within(GrantsOf(parent), child(b).grants)
    <3>1. \A b \in batch : b.id \in UnitNames
      OBVIOUS
    <3>2. PICK w \in units : w.id = parent /\ GrantsOf(parent) = w.grants
      BY GrantsFound DEF UnitIds, GraphInv
    <3>3. \A b : child(b).id = b.id /\ child(b).parent = parent
      OBVIOUS
    <3> HIDE DEF batch, child
    <3>4. \A u \in units' : u.id \in UnitNames /\ Below(u)'
      BY <2>3, <3>1, <3>2, <3>3 DEF GraphInv, UnitInv, Below
    <3>5. \A u, v \in units' : u.id = v.id => u = v
      BY <2>3, <3>3 DEF GraphInv, UnitInv, UnitIds
    <3> QED
      BY <1>0, <2>1, <3>4, <3>5 DEF GraphInv, UnitInv
  <2> QED
    BY <1>2, <2>2, <2>3 DEF Expand
<1> QED
  BY <1>1, <1>2 DEF WorkGraphCalls

\* Whatever calls were made and refused, some task left is ready or waits for
\* exports only, no task names a contract that is gone, and no unit below
\* another holds more.
THEOREM SoundGraphs == GraphSpec => []CallsKeepGraphsSound
<1>1. GraphInit => GraphInv
  BY DEF GraphInit, GraphInv, TaskInv, UnitInv, Valid, Acyclic
<1>2. GraphInv /\ [TaskGraphCalls \/ WorkGraphCalls]_graphVars => GraphInv'
  <2>1. GraphInv /\ UNCHANGED graphVars => GraphInv'
    BY DEF graphVars, GraphInv, TaskInv, UnitInv, Below
  <2> QED
    BY <2>1, TaskCallsKeep, WorkCallsKeep
<1>3. GraphInv => CallsKeepGraphsSound
  BY SomeTaskIsNext, NothingGained DEF GraphInv, CallsKeepGraphsSound
<1> QED
  BY <1>1, <1>2, <1>3, PTL DEF GraphSpec

-----------------------------------------------------------------------------
(* Goals *)

GoalSpec == GoalInit /\ [][GoalNext]_goalVars

Fragment == [id : Names, text : Names, refs : SUBSET Names]

\* Every stated order rests on a reference of an outcome of that text, and the last
\* outcome a clause spoke of is the last that was found.
GoalInv ==
  /\ fragments \in Seq(Fragment) /\ unread \in Seq(Clauses)
  /\ \A s \in stated : \E k \in DOMAIN fragments : fragments[k].text = s[1] /\ s[3] \in fragments[k].refs
  /\ lastOutcome \in Names \union {Nothing}
  /\ unread # <<>> /\ fragments # <<>> => lastOutcome = fragments[Len(fragments)].text

\* A candidate that resembles the reference more than all others do is the one
\* that is found.
LEMMA MostAlikeIsFound ==
  ASSUME NEW ref, NEW cs, Len(cs) \in Nat, DOMAIN cs = 1 .. Len(cs), NEW j \in 1 .. Len(cs),
         \A i \in 1 .. Len(cs) : Score(ref, cs[i]) \in Nat, Score(ref, cs[j]) > 0,
         \A i \in 1 .. Len(cs) : i # j => Score(ref, cs[i]) < Score(ref, cs[j])
  PROVE  MostAlike(ref, cs) = j
<1> DEFINE Best(c) == /\ Score(ref, c) > 0
                      /\ \A i \in DOMAIN cs : Score(ref, cs[i]) <= Score(ref, c)
           I == {i \in 1 .. Len(cs) : Best(cs[i])}
<1>1. I = {j}
  <2>1. j \in I
    BY SMT
  <2>2. ASSUME NEW i \in I, i # j PROVE FALSE
    <3>1. Score(ref, cs[j]) <= Score(ref, cs[i]) /\ Score(ref, cs[i]) < Score(ref, cs[j])
      BY <2>2, SMT
    <3> QED BY <3>1, SMT
  <2> QED BY <2>1, <2>2
<1>2. MostAlike(ref, cs) = IF I # {} THEN Min(I) ELSE 0
  BY DEF MostAlike, SelectInSeq
<1> HIDE DEF I
<1>3. Min({j}) = j
  <2>1. \A x : (x \in {j} /\ \A y \in {j} : x <= y) <=> x = j
    BY SMT
  <2> QED BY <2>1, Zenon DEF Min
<1> QED BY <1>1, <1>2, <1>3

\* Among one candidate, the reference finds it or nothing.
LEMMA FoundAmongOne ==
  ASSUME NEW ref, NEW cs, Len(cs) = 1
  PROVE  MostAlike(ref, cs) \in {0, 1}
<1> DEFINE Best(c) == /\ Score(ref, c) > 0
                      /\ \A i \in DOMAIN cs : Score(ref, cs[i]) <= Score(ref, c)
           I == {i \in 1 .. Len(cs) : Best(cs[i])}
<1>1. I \subseteq {1}
  BY SMT
<1>2. MostAlike(ref, cs) = IF I # {} THEN Min(I) ELSE 0
  BY DEF MostAlike, SelectInSeq
<1> HIDE DEF I
<1>3. Min({1}) = 1
  <2>1. \A x : (x \in {1} /\ \A y \in {1} : x <= y) <=> x = 1
    BY SMT
  <2> QED BY <2>1, Zenon DEF Min
<1>4. I = {} \/ I = {1}
  BY <1>1
<1> QED BY <1>2, <1>3, <1>4
\* What the outcomes found so far are made of.
LEMMA FragmentFields ==
  ASSUME fragments \in Seq(Fragment), NEW i \in DOMAIN fragments
  PROVE  fragments[i].id \in Names /\ fragments[i].text \in Names /\ fragments[i].refs \in SUBSET Names
<1>1. fragments[i] \in Fragment
  OBVIOUS
<1> QED BY <1>1 DEF Fragment

\* At first: a sentence has no outcome yet, and a listing states what its own
\* domains refer to.
LEMMA GoalStarts == GoalInit => GoalInv
<1> SUFFICES ASSUME GoalInit PROVE GoalInv
  OBVIOUS
<1>1. CASE Sentence
  <2>1. unread \in Seq(Clauses)
    <3>1. PICK n \in 1 .. MaxClauses : unread \in [1 .. n -> Clauses]
      BY <1>1, Zenon DEF Sentence
    <3>2. n \in Nat
      BY <3>1, GoalsAssumption
    <3> QED BY <3>1, <3>2
  <2> QED BY <1>1, <2>1 DEF Sentence, GoalInv, GoalInit
<1>2. CASE Listing
  <2>1. fragments \in Seq(Fragment) /\ unread = <<>>
    BY <1>2, GoalsAssumption DEF Listing, Fragment
  <2>2. ASSUME NEW s \in stated
        PROVE  \E k \in DOMAIN fragments : fragments[k].text = s[1] /\ s[3] \in fragments[k].refs
    <3>1. PICK i \in DOMAIN fragments : s \in {<<fragments[i].text, r, r>> : r \in fragments[i].refs}
      BY <1>2 DEF Listing
    <3> QED BY <3>1
  <2> QED BY <2>1, <2>2 DEF GoalInv, GoalInit
<1> QED BY <1>1, <1>2 DEF GoalInit

\* A clause adds its outcomes with the references that what it states rests on.
LEMMA ClauseRead == GoalInv /\ ReadClause => GoalInv'
<1> SUFFICES ASSUME GoalInv, ReadClause PROVE GoalInv'
  OBVIOUS
<1> DEFINE c == Head(unread)
           prev == IF c.then /\ lastOutcome # Nothing THEN {lastOutcome} ELSE {}
           earlier == IF c.then /\ fragments # <<>> THEN {Last(fragments).text} ELSE {}
           on == IF c.link = "none" THEN {} ELSE {c.on}
           parts == IF c.link = "none" THEN {} ELSE ToSet(c.parts)
           needed == Fragments(Prerequisites(c), prev)
           named == Fragments(c.pieces, prev \union on)
<1>1. /\ fragments' = fragments \o needed \o named
      /\ stated' = stated \union {<<c.pieces[k], t, t>> : k \in DOMAIN c.pieces, t \in earlier}
                         \union {<<c.pieces[k], t, c.on>> : k \in DOMAIN c.pieces, t \in parts}
      /\ lastOutcome' = Last(c.pieces) /\ unread' = Tail(unread) /\ unread # <<>>
  <2>1. fragments' = fragments \o needed \o named
    BY DEF ReadClause
  <2>2. stated' = stated \union {<<c.pieces[k], t, t>> : k \in DOMAIN c.pieces, t \in earlier}
                        \union {<<c.pieces[k], t, c.on>> : k \in DOMAIN c.pieces, t \in parts}
    BY DEF ReadClause
  <2>3. lastOutcome' = Last(c.pieces)
    BY DEF ReadClause
  <2>4. unread' = Tail(unread) /\ unread # <<>>
    BY DEF ReadClause
  <2> HIDE DEF c, prev, earlier, on, parts, needed, named
  <2> QED BY <2>1, <2>2, <2>3, <2>4
<1>2. c \in Clauses /\ unread' \in Seq(Clauses)
  <2>1. unread \in Seq(Clauses) /\ unread # <<>>
    BY <1>1 DEF GoalInv
  <2> QED BY <2>1, <1>1, HeadTailProperties
<1>3. /\ c.pieces \in Seq(Names) /\ c.pieces # <<>> /\ Len(c.pieces) \in Nat \ {0}
      /\ (c.link # "none" => c.on \in Names /\ c.parts \in Seq(Names))
  <2> HIDE DEF c
  <2> QED BY <1>2, GoalsAssumption
<1>4. Prerequisites(c) \in Seq(Names)
  <2>1. CASE c.link = "none"
    <3>1. Prerequisites(c) = <<>>
      BY <2>1 DEF Prerequisites
    <3> QED BY <3>1, EmptySeq
  <2>2. CASE c.link # "none"
    <3>1. PICK o \in Seq(Names) : o = c.parts
      BY <1>3, <2>2
    <3>2. Prerequisites(c) = <<>> \/ Prerequisites(c) = o
      BY <3>1 DEF Prerequisites
    <3> QED BY <3>2, EmptySeq
  <2> QED BY <2>1, <2>2
<1>5. prev \in SUBSET Names /\ on \in SUBSET Names
  <2> HIDE DEF c
  <2> QED BY <1>3 DEF GoalInv
<1>6. fragments \in Seq(Fragment)
  BY DEF GoalInv
<1>7. earlier \subseteq prev
  <2>1. CASE fragments = <<>>
    BY <2>1
  <2>2. CASE fragments # <<>>
    <3>1. lastOutcome = fragments[Len(fragments)].text
      BY <2>2, <1>1 DEF GoalInv
    <3>2. Len(fragments) \in DOMAIN fragments
      BY <2>2, <1>6
    <3>3. fragments[Len(fragments)].text \in Names
      BY <3>2, <1>6, FragmentFields
    <3>4. lastOutcome # Nothing /\ Last(fragments).text = lastOutcome
      BY <3>1, <3>3, GoalsAssumption DEF Last
    <3> QED BY <3>4
  <2> QED BY <2>1, <2>2
<1>8. ASSUME NEW texts \in Seq(Names), NEW refs \in SUBSET Names
      PROVE  Fragments(texts, refs) \in Seq(Fragment) /\ Len(Fragments(texts, refs)) = Len(texts)
  <2>1. DOMAIN texts = 1 .. Len(texts) /\ Len(texts) \in Nat /\ \A k \in 1 .. Len(texts) : texts[k] \in Names
    OBVIOUS
  <2>2. \A k \in 1 .. Len(texts) : [id |-> Slug[texts[k]], text |-> texts[k], refs |-> refs] \in Fragment
    BY <2>1, GoalsAssumption DEF Fragment
  <2> QED BY <2>1, <2>2 DEF Fragments
<1>9. needed \in Seq(Fragment) /\ named \in Seq(Fragment) /\ Len(named) = Len(c.pieces)
  <2>1. needed \in Seq(Fragment)
    BY <1>4, <1>5, <1>8, Zenon
  <2>2. prev \union on \in SUBSET Names
    BY <1>5
  <2> HIDE DEF prev, on
  <2>3. named \in Seq(Fragment) /\ Len(named) = Len(c.pieces)
    BY <2>2, <1>3, <1>8, Zenon
  <2> QED BY <2>1, <2>3
<1>10. \A k \in DOMAIN c.pieces : named[k].text = c.pieces[k] /\ named[k].refs = prev \union on
  BY DEF Fragments
<1> DEFINE first == fragments \o needed
<1>11. /\ first \in Seq(Fragment) /\ Len(first) \in Nat
       /\ \A k \in DOMAIN fragments : k \in DOMAIN first /\ first[k] = fragments[k]
  <2> HIDE DEF needed
  <2> QED BY <1>6, <1>9
<1>16. c.link # "none" => on = {c.on}
  OBVIOUS
<1>17. c.link = "none" => parts = {}
  OBVIOUS
<1> HIDE DEF needed, named, first, c, prev, on, parts, earlier
<1>12. fragments' = first \o named
  BY <1>1 DEF first
<1>13. /\ fragments' \in Seq(Fragment) /\ Len(fragments') = Len(first) + Len(c.pieces)
       /\ \A k \in DOMAIN first : k \in DOMAIN fragments' /\ fragments'[k] = first[k]
       /\ \A k \in 1 .. Len(c.pieces) : Len(first) + k \in DOMAIN fragments' /\ fragments'[Len(first) + k] = named[k]
  <2>1. /\ fragments' \in Seq(Fragment) /\ Len(fragments') = Len(first) + Len(c.pieces)
        /\ \A k \in 1 .. Len(first) + Len(c.pieces) :
             fragments'[k] = IF k <= Len(first) THEN first[k] ELSE named[k - Len(first)]
    <3>1. /\ first \o named \in Seq(Fragment) /\ Len(first \o named) = Len(first) + Len(named)
          /\ \A k \in 1 .. Len(first) + Len(named) :
               (first \o named)[k] = IF k <= Len(first) THEN first[k] ELSE named[k - Len(first)]
      BY <1>11, <1>9, ConcatProperties, Zenon
    <3>2. Len(named) = Len(c.pieces)
      BY <1>9
    <3> QED BY <3>1, <3>2, <1>12, Zenon
  <2>2. DOMAIN fragments' = 1 .. Len(first) + Len(c.pieces) /\ DOMAIN first = 1 .. Len(first)
    BY <2>1, <1>11
  <2>3. Len(first) \in Nat /\ Len(c.pieces) \in Nat
    BY <1>3, <1>11
  <2>4. ASSUME NEW k \in DOMAIN first PROVE k \in DOMAIN fragments' /\ fragments'[k] = first[k]
    BY <2>1, <2>2, <2>3, <2>4
  <2>5. ASSUME NEW k \in 1 .. Len(c.pieces)
        PROVE  Len(first) + k \in DOMAIN fragments' /\ fragments'[Len(first) + k] = named[k]
    <3>1. /\ Len(first) + k \in 1 .. Len(first) + Len(c.pieces) /\ ~(Len(first) + k <= Len(first))
          /\ (Len(first) + k) - Len(first) = k
      BY <2>3
    <3> QED BY <3>1, <2>1, <2>2
  <2> QED BY <2>1, <2>4, <2>5
<1>14. lastOutcome' \in Names \union {Nothing} /\ lastOutcome' = fragments'[Len(fragments')].text
  <2>1. Len(c.pieces) \in 1 .. Len(c.pieces) /\ Len(c.pieces) \in DOMAIN c.pieces
    BY <1>3
  <2>2. fragments'[Len(fragments')] = named[Len(c.pieces)]
    BY <2>1, <1>13
  <2>3. c.pieces[Len(c.pieces)] \in Names
    BY <2>1, <1>3
  <2> QED BY <2>1, <2>2, <2>3, <1>1, <1>10 DEF Last
<1>15. ASSUME NEW s \in stated'
       PROVE  \E k \in DOMAIN fragments' : fragments'[k].text = s[1] /\ s[3] \in fragments'[k].refs
  <2>1. CASE s \in stated
    <3>1. PICK k \in DOMAIN fragments : fragments[k].text = s[1] /\ s[3] \in fragments[k].refs
      BY <2>1 DEF GoalInv
    <3>2. k \in DOMAIN fragments' /\ fragments'[k] = fragments[k]
      BY <1>11, <1>13
    <3> QED BY <3>1, <3>2
  <2>2. ASSUME NEW k \in DOMAIN c.pieces, s[1] = c.pieces[k], s[3] \in prev \union on
        PROVE  \E m \in DOMAIN fragments' : fragments'[m].text = s[1] /\ s[3] \in fragments'[m].refs
    <3>1. k \in 1 .. Len(c.pieces)
      BY <1>3
    <3>2. named[k].text = c.pieces[k] /\ named[k].refs = prev \union on
      BY <1>10
    <3>3. Len(first) + k \in DOMAIN fragments' /\ fragments'[Len(first) + k] = named[k]
      BY <3>1, <1>13
    <3> QED BY <2>2, <3>2, <3>3
  <2>3. ASSUME s \in {<<c.pieces[k], t, t>> : k \in DOMAIN c.pieces, t \in earlier}
        PROVE  \E k \in DOMAIN c.pieces : s[1] = c.pieces[k] /\ s[3] \in prev \union on
    <3>1. PICK k \in DOMAIN c.pieces, t \in earlier : s = <<c.pieces[k], t, t>>
      BY <2>3
    <3> QED BY <3>1, <1>7
  <2>4. ASSUME s \in {<<c.pieces[k], t, c.on>> : k \in DOMAIN c.pieces, t \in parts}
        PROVE  \E k \in DOMAIN c.pieces : s[1] = c.pieces[k] /\ s[3] \in prev \union on
    <3>1. PICK k \in DOMAIN c.pieces, t \in parts : s = <<c.pieces[k], t, c.on>>
      BY <2>4
    <3>2. c.on \in on
      BY <3>1, <1>16, <1>17
    <3> QED BY <3>1, <3>2
  <2>5. \/ s \in stated
        \/ s \in {<<c.pieces[k], t, t>> : k \in DOMAIN c.pieces, t \in earlier}
        \/ s \in {<<c.pieces[k], t, c.on>> : k \in DOMAIN c.pieces, t \in parts}
    BY <1>1, <1>15
  <2> QED BY <2>1, <2>2, <2>3, <2>4, <2>5
<1> QED BY <1>2, <1>13, <1>14, <1>15 DEF GoalInv

\* With outcomes that are distinct, no id gets a number.
LEMMA IdsStay ==
  ASSUME fragments \in Seq(Fragment), AllDistinct
  PROVE  LET cs == WithIds(fragments) IN
         /\ DOMAIN cs = DOMAIN fragments /\ Len(cs) = Len(fragments)
         /\ \A i \in DOMAIN fragments : cs[i].id = <<fragments[i].id, 1>> /\ cs[i].text = fragments[i].text
<1> DEFINE cs == WithIds(fragments)
           same(i) == {j \in 1 .. i - 1 : fragments[j].id = fragments[i].id}
<1>1. DOMAIN fragments = 1 .. Len(fragments) /\ Len(fragments) \in Nat
  OBVIOUS
<1>2. cs = [i \in DOMAIN fragments |->
              [id |-> <<fragments[i].id, 1 + Cardinality(same(i))>>, text |-> fragments[i].text]]
  BY DEF WithIds
<1>3. ASSUME NEW i \in DOMAIN fragments PROVE Cardinality(same(i)) = 0
  <2>1. ASSUME NEW j \in same(i) PROVE FALSE
    <3>1. j \in DOMAIN fragments /\ j # i /\ fragments[j].id = fragments[i].id
      BY <1>1, <2>1
    <3> QED BY <3>1 DEF AllDistinct
  <2>2. same(i) = {}
    BY <2>1
  <2> QED BY <2>2, FS_EmptySet
<1>4. \A i \in DOMAIN fragments : cs[i].id = <<fragments[i].id, 1 + 0>> /\ cs[i].text = fragments[i].text
  BY <1>2, <1>3
<1>5. DOMAIN cs = DOMAIN fragments /\ Len(cs) = Len(fragments)
  BY <1>1, <1>2
<1> HIDE DEF cs
<1>6. \A i \in DOMAIN fragments : cs[i].id = <<fragments[i].id, 1>> /\ cs[i].text = fragments[i].text
  BY <1>4
<1> QED BY <1>5, <1>6 DEF cs

\* A reference that is the text or the id of an outcome finds that outcome.
LEMMA NamedIsFound ==
  ASSUME fragments \in Seq(Fragment), AllDistinct, NEW j \in DOMAIN fragments,
         NEW r \in {fragments[j].text, fragments[j].id}
  PROVE  MostAlike(r, WithIds(fragments)) = j
<1>1. PICK cs : cs = WithIds(fragments)
  OBVIOUS
<1>2. /\ DOMAIN fragments = 1 .. Len(fragments) /\ Len(fragments) \in Nat
      /\ DOMAIN cs = 1 .. Len(cs) /\ Len(cs) = Len(fragments)
      /\ \A i \in 1 .. Len(cs) : cs[i].id = <<fragments[i].id, 1>> /\ cs[i].text = fragments[i].text
  BY <1>1, IdsStay
<1>3. \A i \in 1 .. Len(cs) : fragments[i].id \in Names /\ fragments[i].text \in Names
  BY <1>2, FragmentFields
<1>4. PICK ref : ref = Clean[r]
  OBVIOUS
<1>12. r \in Names /\ ref \in Names /\ j \in 1 .. Len(cs)
  BY <1>2, <1>3, <1>4, GoalsAssumption
<1>5. ASSUME NEW i \in 1 .. Len(cs)
      PROVE  Score(r, cs[i]) = IF fragments[i].id = ref THEN 100
                               ELSE IF Slug[ref] = Slug[fragments[i].text] \/ Slug[ref] = Slug[fragments[i].id] THEN 80
                               ELSE 10 * Overlap[ref][fragments[i].text]
  <2>1. cs[i].id = <<ref, 1>> <=> fragments[i].id = ref
    BY <1>2
  <2>2. cs[i].id[2] = 1 /\ cs[i].id[1] = fragments[i].id /\ cs[i].text = fragments[i].text
    BY <1>2
  <2> QED BY <2>1, <2>2, <1>4 DEF Score
<1>6. ASSUME NEW i \in 1 .. Len(cs) PROVE Overlap[ref][fragments[i].text] \in Nat
  <2>1. Overlap[ref] \in [Names -> Nat]
    BY <1>12, GoalsAssumption
  <2>2. fragments[i].text \in Names
    BY <1>3
  <2> QED BY <2>1, <2>2
<1>7. \A i \in 1 .. Len(cs) : Score(r, cs[i]) \in Nat
  <2> SUFFICES ASSUME NEW i \in 1 .. Len(cs) PROVE Score(r, cs[i]) \in Nat
    OBVIOUS
  <2>1. 10 * Overlap[ref][fragments[i].text] \in Nat
    BY <1>6
  <2>2. Score(r, cs[i]) \in {100, 80, 10 * Overlap[ref][fragments[i].text]}
    BY <1>5
  <2> QED BY <2>1, <2>2
<1>8. ASSUME NEW i \in 1 .. Len(cs), i # j
      PROVE  /\ fragments[i].id # fragments[j].id
             /\ Slug[ref] # Slug[fragments[i].text] /\ Overlap[ref][fragments[i].text] < 8
  <2>1. i \in DOMAIN fragments
    BY <1>2
  <2>2. ref = fragments[j].id \/ ref = Clean[fragments[j].text]
    BY <1>4 DEF AllDistinct
  <2> QED BY <1>8, <2>1, <2>2 DEF AllDistinct
<1>9. ASSUME NEW i \in 1 .. Len(cs), i # j PROVE Score(r, cs[i]) < Score(r, cs[j])
  <2>1. CASE r = fragments[j].id
    <3>0. ref = r
      BY <2>1, <1>4 DEF AllDistinct
    <3>1. Score(r, cs[j]) = 100
      BY <2>1, <3>0, <1>12, <1>5
    <3>2. fragments[i].id # ref
      BY <2>1, <3>0, <1>8, <1>9
    <3>3. Score(r, cs[i]) = 80 \/ Score(r, cs[i]) = 10 * Overlap[ref][fragments[i].text]
      BY <3>2, <1>5
    <3>4. Overlap[ref][fragments[i].text] \in Nat /\ Overlap[ref][fragments[i].text] < 8
      BY <1>6, <1>8, <1>9
    <3> QED BY <3>1, <3>3, <3>4
  <2>2. CASE r = fragments[j].text
    <3>0. Slug[ref] = Slug[fragments[j].text]
      BY <2>2, <1>4 DEF AllDistinct
    <3>1. Score(r, cs[j]) = 100 \/ Score(r, cs[j]) = 80
      BY <3>0, <1>12, <1>5
    <3>2. Slug[fragments[i].id] # Slug[ref]
      BY <3>0, <1>2, <1>12, <1>9 DEF AllDistinct
    <3>3. fragments[i].id # ref
      BY <3>2
    <3>4. Score(r, cs[i]) = 10 * Overlap[ref][fragments[i].text]
      BY <3>2, <3>3, <1>5, <1>8, <1>9
    <3>5. Overlap[ref][fragments[i].text] \in Nat /\ Overlap[ref][fragments[i].text] < 8
      BY <1>6, <1>8, <1>9
    <3> QED BY <3>1, <3>4, <3>5
  <2> QED BY <2>1, <2>2
<1>10. Score(r, cs[j]) > 0
  <2>1. Score(r, cs[j]) = 100 \/ Score(r, cs[j]) = 80
    <3>1. ref = fragments[j].id \/ Slug[ref] = Slug[fragments[j].text]
      BY <1>4 DEF AllDistinct
    <3> QED BY <3>1, <1>12, <1>5
  <2> QED BY <2>1
<1>11. MostAlike(r, cs) = j
  BY <1>2, <1>12, <1>7, <1>9, <1>10, MostAlikeIsFound
<1> QED BY <1>1, <1>11

\* Compilation: a domain that is about everything is one that waits for none;
\* else every outcome is a domain and waits for those its references name.
LEMMA OrderIsCompiled == GoalInv /\ Compile => StatedOrderIsKept'
<1> SUFFICES ASSUME GoalInv, Compile, verdict' = "compiled", AllDistinct,
                    NEW s \in stated, NEW i \in DOMAIN domains', NEW j \in DOMAIN domains',
                    s[3] = s[2], domains'[i].text = s[1], s[2] \in {domains'[j].text, domains'[j].id[1]}
             PROVE  j \in domains'[i].waits
  <2>1. Compile => (fragments' = fragments /\ stated' = stated)
    BY DEF Compile
  <2> QED BY <2>1 DEF StatedOrderIsKept, AllDistinct
<1> DEFINE graph == Resolved(fragments)
           cs == WithIds(fragments)
<1>1. /\ fragments \in Seq(Fragment) /\ DOMAIN fragments = 1 .. Len(fragments) /\ Len(fragments) \in Nat
  BY DEF GoalInv
<1>2. /\ \A k \in DOMAIN graph : 0 \notin graph[k].waits /\ k \notin graph[k].waits
      /\ domains' = WithSurfaces(graph)
  BY DEF Compile
<1>3. PICK k \in DOMAIN fragments : fragments[k].text = s[1] /\ s[2] \in fragments[k].refs
  <2>1. PICK k \in DOMAIN fragments : fragments[k].text = s[1] /\ s[3] \in fragments[k].refs
    BY DEF GoalInv
  <2>2. s[3] = s[2]
    OBVIOUS
  <2> QED BY <2>1, <2>2
<1>4. graph = [m \in DOMAIN fragments |->
                 [id |-> cs[m].id, text |-> cs[m].text,
                  waits |-> {MostAlike(r, cs) : r \in fragments[m].refs}, owns |-> {}]]
  BY DEF Resolved
<1>5. /\ DOMAIN cs = DOMAIN fragments /\ Len(cs) = Len(fragments)
      /\ \A m \in DOMAIN fragments : cs[m].id = <<fragments[m].id, 1>> /\ cs[m].text = fragments[m].text
  BY <1>1, IdsStay
<1> HIDE DEF cs
<1>6. /\ DOMAIN graph = DOMAIN fragments /\ Len(graph) = Len(fragments)
      /\ \A m \in DOMAIN fragments :
           /\ graph[m].id = <<fragments[m].id, 1>> /\ graph[m].text = fragments[m].text
           /\ graph[m].waits = {MostAlike(r, cs) : r \in fragments[m].refs}
  <2>1. DOMAIN graph = 1 .. Len(fragments)
    BY <1>1, <1>4
  <2>2. Len(graph) = Len(fragments)
    BY <1>1, <2>1
  <2>3. ASSUME NEW m \in DOMAIN fragments
        PROVE  /\ graph[m].id = cs[m].id /\ graph[m].text = cs[m].text
               /\ graph[m].waits = {MostAlike(r, cs) : r \in fragments[m].refs}
    BY <1>4
  <2> QED BY <2>1, <2>2, <2>3, <1>1, <1>5
<1> HIDE DEF graph
<1>7. MostAlike(s[2], cs) \in graph[k].waits
  BY <1>3, <1>6
<1>8. Len(graph) # 1
  <2> SUFFICES ASSUME Len(graph) = 1 PROVE FALSE
    OBVIOUS
  <2>1. k = 1 /\ Len(cs) = 1
    BY <1>1, <1>3, <1>5, <1>6
  <2>2. MostAlike(s[2], cs) \in {0, 1}
    BY <2>1, FoundAmongOne
  <2> QED BY <2>1, <2>2, <1>2, <1>3, <1>6, <1>7
<1>9. /\ DOMAIN domains' = DOMAIN fragments
      /\ \A m \in DOMAIN fragments :
           domains'[m].id = graph[m].id /\ domains'[m].text = graph[m].text /\ domains'[m].waits = graph[m].waits
  <2>1. PICK found : found = SurfacesIn(directories)
    OBVIOUS
  <2>2. domains' = [m \in DOMAIN graph |->
                      [graph[m] EXCEPT !.owns = {d \in ToSet(found) : Last(d) \in Touches[graph[m].text]}]]
    BY <2>1, <1>2, <1>8 DEF WithSurfaces
  <2>3. \A m \in DOMAIN fragments :
           graph[m] = [id |-> cs[m].id, text |-> cs[m].text,
                       waits |-> {MostAlike(r, cs) : r \in fragments[m].refs}, owns |-> {}]
    BY <1>4 DEF graph
  <2> QED BY <2>2, <2>3, <1>6
<1>10. fragments[i].text = s[1] /\ s[2] \in {fragments[j].text, fragments[j].id}
  <2>1. (<<fragments[j].id, 1>>)[1] = fragments[j].id
    OBVIOUS
  <2> QED BY <2>1, <1>6, <1>9
<1>11. i = k
  BY <1>3, <1>9, <1>10 DEF AllDistinct
<1>12. MostAlike(s[2], cs) = j
  BY <1>1, <1>9, <1>10, NamedIsFound DEF cs
<1> QED BY <1>7, <1>9, <1>11, <1>12

\* A compiled goal keeps the order its sentence or listing states with a reference
\* to one outcome, whatever the outcomes, the clauses, the listings and the
\* directories.
THEOREM OrderKept == GoalSpec => []StatedOrderIsKept
<1> DEFINE Inv == GoalInv /\ StatedOrderIsKept
<1>1. GoalInit => Inv
  BY GoalStarts DEF GoalInit, StatedOrderIsKept
<1>2. Inv /\ [GoalNext]_goalVars => Inv'
  <2> SUFFICES ASSUME Inv, [GoalNext]_goalVars PROVE Inv'
    OBVIOUS
  <2>1. CASE ReadClause
    <3>1. verdict' # "compiled"
      BY <2>1 DEF ReadClause
    <3> QED BY <2>1, <3>1, ClauseRead DEF StatedOrderIsKept
  <2>2. CASE Compile
    <3>1. GoalInv'
      BY <2>2 DEF Compile, GoalInv
    <3> QED BY <2>2, <3>1, OrderIsCompiled
  <2>3. CASE UNCHANGED goalVars
    BY <2>3 DEF goalVars, GoalInv, StatedOrderIsKept, AllDistinct
  <2> QED BY <2>1, <2>2, <2>3 DEF GoalNext
<1> QED BY <1>1, <1>2, PTL DEF GoalSpec

-----------------------------------------------------------------------------
(* Phases *)

PhaseSpec == PhasesInit /\ [][PhasesNext]_phaseVars

Smaller == {n \in Nat \X Nat : n[1] < n[2]}

\* A set of numbers has a least one.
LEMMA LeastNumber ==
  ASSUME NEW T, T \subseteq Nat, T # {}
  PROVE  \E n \in T : \A m \in T : n <= m
<1>1. OpToRel(<, Nat) = Smaller
  BY Zenon DEF OpToRel, Smaller
<1>2. PICK x \in T : \A y \in T : <<y, x>> \notin Smaller
  BY <1>1, NatLessThanWellFounded, WFMin
<1>3. ASSUME NEW y \in T PROVE x <= y
  <2>1. x \in Nat /\ y \in Nat /\ <<y, x>> \notin Smaller
    BY <1>2
  <2>2. ~(y < x)
    BY <2>1 DEF Smaller
  <2> QED
    BY <2>1, <2>2
<1> QED
  BY <1>3

\* A set of numbers with a bound has a greatest one.
LEMMA GreatestNumber ==
  ASSUME NEW n \in Nat, NEW T, T \subseteq 1 .. n, T # {}
  PROVE  \E m \in T : \A k \in T : k <= m
<1> DEFINE Rest == {j \in 0 .. n : n - j \in T}
<1>1. \A k \in T : k \in 1 .. n /\ n - k \in 0 .. n /\ n - (n - k) = k
  OBVIOUS
<1>2. Rest \subseteq Nat /\ Rest # {}
  <2>1. PICK k \in T : k \in T
    OBVIOUS
  <2>2. n - k \in Rest
    BY <1>1, <2>1
  <2>3. Rest \subseteq Nat
    OBVIOUS
  <2> HIDE DEF Rest
  <2> QED
    BY <2>2, <2>3
<1>3. PICK x \in Rest : \A y \in Rest : x <= y
  <2> HIDE DEF Rest
  <2> QED
    BY <1>2, LeastNumber
<1>4. ASSUME NEW k \in T PROVE k <= n - x
  BY <1>1, <1>3
<1> QED
  BY <1>3, <1>4

\* What holds at 0 and is handed on from each number to the next.
LEMMA HandedOn ==
  ASSUME NEW n \in Nat, NEW K, 0 \in K, \A k \in 1 .. n : k - 1 \in K => k \in K
  PROVE  n \in K
<1> DEFINE Bad == {k \in 0 .. n : k \notin K}
<1> SUFFICES ASSUME Bad # {} PROVE FALSE
  OBVIOUS
<1>1. PICK x \in Bad : \A y \in Bad : x <= y
  <2>1. Bad \subseteq Nat
    OBVIOUS
  <2> HIDE DEF Bad
  <2> QED
    BY <2>1, LeastNumber
<1>2. x \in 1 .. n /\ x - 1 \in 0 .. n /\ x - 1 \notin Bad
  BY <1>1
<1> QED
  BY <1>1, <1>2

\* What is appended comes behind what is there.
LEMMA Longer ==
  ASSUME NEW g, NEW c, IsSequence(g), IsSequence(c)
  PROVE  /\ IsSequence(g \o c) /\ Len(g \o c) = Len(g) + Len(c)
         /\ \A i \in 1 .. Len(g) : (g \o c)[i] = g[i]
         /\ \A i \in 1 .. Len(c) : (g \o c)[Len(g) + i] = c[i]
         /\ DOMAIN g = 1 .. Len(g) /\ DOMAIN c = 1 .. Len(c) /\ DOMAIN (g \o c) = 1 .. Len(g) + Len(c)
<1> DEFINE S == {g[i] : i \in 1 .. Len(g)} \union {c[i] : i \in 1 .. Len(c)}
<1>1. g \in Seq(S) /\ c \in Seq(S)
  <2>1. \A n \in Nat : [1 .. n -> S] \subseteq Seq(S)
    BY SeqDef
  <2>2. [i \in 1 .. Len(g) |-> g[i]] \in [1 .. Len(g) -> S]
    OBVIOUS
  <2>3. [i \in 1 .. Len(c) |-> c[i]] \in [1 .. Len(c) -> S]
    OBVIOUS
  <2> QED
    BY <2>1, <2>2, <2>3 DEF IsSequence
<1>2. /\ g \o c \in Seq(S) /\ Len(g \o c) = Len(g) + Len(c)
      /\ \A i \in 1 .. Len(g) + Len(c) : (g \o c)[i] = IF i <= Len(g) THEN g[i] ELSE c[i - Len(g)]
  BY <1>1, ConcatProperties
<1> HIDE DEF S
<1>3. Len(g) \in Nat /\ Len(c) \in Nat
  BY DEF IsSequence
<1>4. IsSequence(g \o c)
  <2>1. Len(g \o c) \in Nat /\ g \o c \in [1 .. Len(g \o c) -> S]
    BY Zenon, <1>2, LenProperties
  <2>2. g \o c = [i \in 1 .. Len(g \o c) |-> (g \o c)[i]]
    BY <2>1
  <2> QED
    BY Zenon, <2>1, <2>2 DEF IsSequence
<1>5. DOMAIN g = 1 .. Len(g) /\ DOMAIN c = 1 .. Len(c) /\ DOMAIN (g \o c) = 1 .. Len(g) + Len(c)
  BY <1>1, <1>2
<1> QED
  BY <1>2, <1>3, <1>4, <1>5

\* A sequence that is not empty has a last place.
LEMMA NotEmpty ==
  ASSUME NEW g, IsSequence(g), g # <<>>
  PROVE  Len(g) \in DOMAIN g
<1>1. Len(g) \in Nat /\ DOMAIN g = 1 .. Len(g)
  BY DEF IsSequence
<1>2. Len(g) # 0
  <2>1. ASSUME Len(g) = 0 PROVE FALSE
    <3>1. g = [i \in 1 .. 0 |-> g[i]] /\ 1 .. 0 = {}
      BY <2>1 DEF IsSequence
    <3> QED
      BY <3>1
  <2> QED
    BY <2>1
<1> QED
  BY <1>1, <1>2

\* One unit more.
LEMMA OneMore ==
  ASSUME NEW g, NEW u, IsSequence(g)
  PROVE  /\ Append(g, u) = g \o <<u>> /\ IsSequence(<<u>>) /\ Len(<<u>>) = 1 /\ <<u>>[1] = u
<1> DEFINE S == {g[i] : i \in 1 .. Len(g)} \union {u}
<1>1. g \in Seq(S)
  <2>1. \A n \in Nat : [1 .. n -> S] \subseteq Seq(S)
    BY SeqDef
  <2>2. [i \in 1 .. Len(g) |-> g[i]] \in [1 .. Len(g) -> S]
    OBVIOUS
  <2> QED
    BY <2>1, <2>2 DEF IsSequence
<1>2. Append(g, u) = g \o <<u>>
  BY <1>1, AppendIsConcat
<1>3. IsSequence(<<u>>) /\ Len(<<u>>) = 1 /\ <<u>>[1] = u
  BY DEF IsSequence
<1> QED
  BY <1>2, <1>3

\* The names of roots differ, and a root is below none.
LEMMA RootNames ==
  ASSUME NEW p, NEW q
  PROVE  /\ RootOf(p) = RootOf(q) => p = q
         /\ RootOf(p) # <<>> /\ RootOf(p)[1] = p
<1>1. RootOf(p)[1] = p /\ RootOf(q)[1] = q
  BY DEF RootOf
<1>2. Len(<<p, p, 0>>) = 3 /\ Len(<<>>) = 0
  OBVIOUS
<1> QED
  BY <1>1, <1>2 DEF RootOf

\* The units right below a phase's root: its steps, and children of callers.
StepsIn(g, p) == {i \in DOMAIN g : g[i].below = RootOf(p)}

\* The numbers of steps: what is appended has its steps behind those there.
LEMMA StepsOfLonger ==
  ASSUME NEW g, NEW c, NEW p, IsSequence(g), IsSequence(c)
  PROVE  /\ \A i \in 1 .. Len(g) : i \in StepsIn(g \o c, p) <=> i \in StepsIn(g, p)
         /\ \A i \in 1 .. Len(c) : Len(g) + i \in StepsIn(g \o c, p) <=> i \in StepsIn(c, p)
         /\ \A j \in StepsIn(g \o c, p) :
              \/ j \in StepsIn(g, p) /\ j \in 1 .. Len(g)
              \/ \E i \in 1 .. Len(c) : i \in StepsIn(c, p) /\ j = Len(g) + i
         /\ StepsIn(g, p) \subseteq 1 .. Len(g) /\ StepsIn(c, p) \subseteq 1 .. Len(c)
<1>1. Len(g) \in Nat /\ Len(c) \in Nat
  BY DEF IsSequence
<1>2. /\ \A i \in 1 .. Len(g) : (g \o c)[i] = g[i]
      /\ \A i \in 1 .. Len(c) : (g \o c)[Len(g) + i] = c[i]
      /\ DOMAIN g = 1 .. Len(g) /\ DOMAIN c = 1 .. Len(c) /\ DOMAIN (g \o c) = 1 .. Len(g) + Len(c)
  BY Longer
<1>3. \A i \in 1 .. Len(c) : Len(g) + i \in 1 .. Len(g) + Len(c)
  BY <1>1
<1>4. \A j \in 1 .. Len(g) + Len(c) : j \in 1 .. Len(g) \/ \E i \in 1 .. Len(c) : j = Len(g) + i
  <2>1. ASSUME NEW j \in 1 .. Len(g) + Len(c), j \notin 1 .. Len(g) PROVE \E i \in 1 .. Len(c) : j = Len(g) + i
    <3>1. j - Len(g) \in 1 .. Len(c) /\ j = Len(g) + (j - Len(g))
      BY <1>1, <2>1
    <3> QED
      BY <3>1
  <2> QED
    BY <2>1
<1>5. \A i \in 1 .. Len(g) : i \in 1 .. Len(g) + Len(c)
  BY <1>1
<1>6. \A i \in 1 .. Len(g) : i \in StepsIn(g \o c, p) <=> i \in StepsIn(g, p)
  BY <1>2, <1>5 DEF StepsIn
<1>7. \A i \in 1 .. Len(c) : Len(g) + i \in StepsIn(g \o c, p) <=> i \in StepsIn(c, p)
  BY <1>2, <1>3 DEF StepsIn
<1>8. ASSUME NEW j \in StepsIn(g \o c, p)
      PROVE  \/ j \in StepsIn(g, p) /\ j \in 1 .. Len(g)
             \/ \E i \in 1 .. Len(c) : i \in StepsIn(c, p) /\ j = Len(g) + i
  <2>1. j \in 1 .. Len(g) + Len(c)
    BY <1>2, <1>8 DEF StepsIn
  <2> QED
    BY <1>4, <1>6, <1>7, <1>8, <2>1
<1>9. StepsIn(g, p) \subseteq 1 .. Len(g) /\ StepsIn(c, p) \subseteq 1 .. Len(c)
  BY <1>2 DEF StepsIn
<1> QED
  BY <1>6, <1>7, <1>8, <1>9

\* The phases there: those that were there, and those whose roots are appended.
LEMMA RootsOfLonger ==
  ASSUME NEW g, NEW c, NEW p, IsSequence(g), IsSequence(c)
  PROVE  IsThere(g \o c, p) <=> IsThere(g, p) \/ IsThere(c, p)
<1>1. Len(g) \in Nat /\ Len(c) \in Nat
  BY DEF IsSequence
<1>2. /\ \A i \in 1 .. Len(g) : (g \o c)[i] = g[i]
      /\ \A i \in 1 .. Len(c) : (g \o c)[Len(g) + i] = c[i]
      /\ DOMAIN g = 1 .. Len(g) /\ DOMAIN c = 1 .. Len(c) /\ DOMAIN (g \o c) = 1 .. Len(g) + Len(c)
  BY Longer
<1>3. ASSUME IsThere(g, p) PROVE IsThere(g \o c, p)
  <2>1. PICK i \in 1 .. Len(g) : RootOf(p) = NameOf(g[i])
    BY <1>2, <1>3 DEF IsThere, NamesIn
  <2>2. i \in 1 .. Len(g) + Len(c) /\ (g \o c)[i] = g[i]
    BY <1>1, <1>2
  <2> QED
    BY <1>2, <2>1, <2>2 DEF IsThere, NamesIn
<1>4. ASSUME IsThere(c, p) PROVE IsThere(g \o c, p)
  <2>1. PICK i \in 1 .. Len(c) : RootOf(p) = NameOf(c[i])
    BY <1>2, <1>4 DEF IsThere, NamesIn
  <2>2. Len(g) + i \in 1 .. Len(g) + Len(c) /\ (g \o c)[Len(g) + i] = c[i]
    BY <1>1, <1>2
  <2> QED
    BY <1>2, <2>1, <2>2 DEF IsThere, NamesIn
<1>5. ASSUME IsThere(g \o c, p) PROVE IsThere(g, p) \/ IsThere(c, p)
  <2>1. PICK j \in 1 .. Len(g) + Len(c) : RootOf(p) = NameOf((g \o c)[j])
    BY <1>2, <1>5 DEF IsThere, NamesIn
  <2>2. CASE j \in 1 .. Len(g)
    <3>1. (g \o c)[j] = g[j]
      BY <1>2, <2>2
    <3> QED
      BY <1>2, <2>1, <2>2, <3>1 DEF IsThere, NamesIn
  <2>3. CASE j \notin 1 .. Len(g)
    <3>1. j - Len(g) \in 1 .. Len(c) /\ j = Len(g) + (j - Len(g))
      BY <1>1, <2>3
    <3>2. (g \o c)[j] = c[j - Len(g)]
      BY <1>2, <3>1
    <3> QED
      BY <1>2, <2>1, <3>1, <3>2 DEF IsThere, NamesIn
  <2> QED
    BY <2>2, <2>3
<1> QED
  BY <1>3, <1>4, <1>5

\* A phase that is there has a unit.
LEMMA ThereHasUnit ==
  ASSUME NEW g, NEW p, IsThere(g, p)
  PROVE  \E i \in DOMAIN g : g[i].phase = p /\ NameOf(g[i]) = RootOf(p) /\ g[i].step = 0
<1>1. PICK i \in DOMAIN g : RootOf(p) = NameOf(g[i])
  BY DEF IsThere, NamesIn
<1>2. g[i].phase = p /\ g[i].step = 0
  BY <1>1 DEF RootOf, NameOf
<1> QED
  BY <1>1, <1>2

\* What a root is made of.
LEMMA RootFields ==
  ASSUME NEW p, NEW waits, NEW u, u = PhaseRoot(p, waits)
  PROVE  /\ u.phase = p /\ u.from = p /\ u.step = 0 /\ u.waits = waits /\ u.below = <<>>
         /\ NameOf(u) = RootOf(p)
BY DEF PhaseRoot, NameOf, RootOf

\* What a step is made of.
LEMMA StepFields ==
  ASSUME NEW p, NEW from, NEW step, NEW waits, NEW u, u = RecipeStep(p, from, step, waits)
  PROVE  /\ u.phase = p /\ u.from = from /\ u.step = step /\ u.waits = waits /\ u.below = RootOf(p)
         /\ NameOf(u) = <<p, from, step>>
BY DEF RecipeStep, NameOf

\* What a caller's child is made of.
LEMMA ChildFields ==
  ASSUME NEW parent, NEW child, NEW waits, NEW u, u = CallerChild(parent, child, waits)
  PROVE  /\ u.phase = parent[1] /\ u.from = "caller" /\ u.step = child.name /\ u.below = parent
         /\ u.own = child.own /\ (~child.own => u.waits = waits)
         /\ NameOf(u) = <<parent[1], "caller", child.name>>
BY DEF CallerChild, NameOf

\* A chain: units right below one phase's root, each waiting for the one before
\* or for what it names.
IsChain(c, p) ==
  /\ IsSequence(c)
  /\ \A k \in 1 .. Len(c) : c[k].phase = p /\ c[k].step # 0 /\ c[k].below = RootOf(p)
  /\ \A k \in 2 .. Len(c) : c[k].own \/ NameOf(c[k - 1]) \in c[k].waits

\* _phase_children make a chain of the phase that begins behind the leaf.
LEMMA ChainOfIsChain ==
  ASSUME NEW p \in PhaseNames, NEW from, NEW leaf
  PROVE  /\ IsChain(ChainOf(p, from, leaf), p) /\ Len(ChainOf(p, from, leaf)) = StepsOf[p]
         /\ StepsOf[p] \in Nat \ {0}
         /\ ChainOf(p, from, leaf)[1].waits = leaf
         /\ \A k \in 1 .. StepsOf[p] : ChainOf(p, from, leaf)[k].from = from
         /\ NameOf(ChainOf(p, from, leaf)[StepsOf[p]]) = <<p, from, StepsOf[p]>>
<1> DEFINE n == StepsOf[p]
           c == ChainOf(p, from, leaf)
<1>1. n \in Nat \ {0}
  BY PhasesAssumption DEF PhasesAssumption
<1>2. c = [k \in 1 .. n |-> RecipeStep(p, from, k, IF k = 1 THEN leaf ELSE {<<p, from, k - 1>>})]
  BY DEF ChainOf
<1> HIDE DEF c, n
<1>3. ASSUME NEW k \in 1 .. n
      PROVE  /\ c[k].phase = p /\ c[k].from = from /\ c[k].step = k /\ NameOf(c[k]) = <<p, from, k>>
             /\ c[k].waits = IF k = 1 THEN leaf ELSE {<<p, from, k - 1>>}
             /\ c[k].below = RootOf(p)
  <2>1. PICK w : w = IF k = 1 THEN leaf ELSE {<<p, from, k - 1>>}
    OBVIOUS
  <2>2. c[k] = RecipeStep(p, from, k, w)
    BY <1>2, <2>1
  <2>3. /\ c[k].phase = p /\ c[k].from = from /\ c[k].step = k /\ NameOf(c[k]) = <<p, from, k>>
        /\ c[k].waits = w /\ c[k].below = RootOf(p)
    BY <2>2, StepFields
  <2> QED
    BY <2>1, <2>3
<1>4. IsSequence(c) /\ Len(c) = n
  BY <1>1, <1>2 DEF IsSequence
<1>5. n \in 1 .. n /\ 1 \in 1 .. n /\ \A k \in 1 .. n : k # 0
  BY <1>1
<1>6. c[1].waits = leaf
  <2>1. c[1].waits = IF 1 = 1 THEN leaf ELSE {<<p, from, 1 - 1>>}
    BY <1>3, <1>5
  <2> QED
    BY <2>1
<1>7. ASSUME NEW k \in 2 .. n PROVE NameOf(c[k - 1]) \in c[k].waits
  <2>1. k \in 1 .. n /\ k # 1 /\ k - 1 \in 1 .. n
    BY <1>1
  <2>2. c[k].waits = {<<p, from, k - 1>>}
    BY <1>3, <2>1
  <2> QED
    BY <1>3, <2>1, <2>2
<1> QED
  BY <1>1, <1>3, <1>4, <1>5, <1>6, <1>7 DEF IsChain, c, n

\* Phases come in an order, without repetition.
LEMMA OrderOfPhases ==
  ASSUME NEW a, IsSequence(a.phases), IsInjective(a.phases)
  PROVE  /\ \A p \in ActivePhases(a) : \E m \in 1 .. Len(a.phases) : a.phases[m] = p
         /\ \A p, q : Before(a, p, q) <=>
              /\ p \in ActivePhases(a) /\ q \in ActivePhases(a)
              /\ \E m, n \in 1 .. Len(a.phases) : m < n /\ a.phases[m] = p /\ a.phases[n] = q
         /\ \A m, n \in 1 .. Len(a.phases) : a.phases[m] = a.phases[n] => m = n
         /\ \A p : ~Before(a, p, p)
         /\ \A p, q : Before(a, p, q) => ~Before(a, q, p)
         /\ \A p, q, r : Before(a, p, q) /\ Before(a, q, r) => Before(a, p, r)
         /\ \A p, q \in ActivePhases(a) : p = q \/ Before(a, p, q) \/ Before(a, q, p)
<1>1. Len(a.phases) \in Nat /\ DOMAIN a.phases = 1 .. Len(a.phases)
  BY DEF IsSequence
<1>2. \A p \in ActivePhases(a) : \E m \in 1 .. Len(a.phases) : a.phases[m] = p
  BY <1>1 DEF ActivePhases, ToSet
<1>3. \A p, q : Before(a, p, q) <=>
        /\ p \in ActivePhases(a) /\ q \in ActivePhases(a)
        /\ \E m, n \in 1 .. Len(a.phases) : m < n /\ a.phases[m] = p /\ a.phases[n] = q
  BY <1>1 DEF Before
<1>4. \A m, n \in 1 .. Len(a.phases) : a.phases[m] = a.phases[n] => m = n
  BY <1>1 DEF IsInjective
<1>5. \A p, q : Before(a, p, q) => ~Before(a, q, p)
  BY <1>1, <1>3, <1>4
<1>6. ASSUME NEW p, NEW q, NEW r, Before(a, p, q), Before(a, q, r) PROVE Before(a, p, r)
  <2>1. PICK m, n \in 1 .. Len(a.phases) : m < n /\ a.phases[m] = p /\ a.phases[n] = q
    BY <1>3, <1>6
  <2>2. PICK l, k \in 1 .. Len(a.phases) : l < k /\ a.phases[l] = q /\ a.phases[k] = r
    BY <1>3, <1>6
  <2>3. n = l
    BY <1>4, <2>1, <2>2
  <2>4. m < k
    BY <1>1, <2>1, <2>2, <2>3
  <2> QED
    BY <1>3, <1>6, <2>1, <2>2, <2>4
<1>7. ASSUME NEW p \in ActivePhases(a), NEW q \in ActivePhases(a) PROVE p = q \/ Before(a, p, q) \/ Before(a, q, p)
  <2>1. PICK m \in 1 .. Len(a.phases) : a.phases[m] = p
    BY <1>2
  <2>2. PICK n \in 1 .. Len(a.phases) : a.phases[n] = q
    BY <1>2
  <2>3. m = n \/ m < n \/ n < m
    BY <1>1
  <2> QED
    BY <1>3, <2>1, <2>2, <2>3
<1> QED
  BY Zenon, <1>2, <1>3, <1>4, <1>5, <1>6, <1>7

\* An active phase at an earlier place is before one at a later place.
LEMMA EarlierIsBefore ==
  ASSUME NEW a, IsSequence(a.phases), NEW m \in 1 .. Len(a.phases), NEW n \in 1 .. Len(a.phases), m < n,
         a.phases[m] \in ActivePhases(a), a.phases[n] \in ActivePhases(a)
  PROVE  Before(a, a.phases[m], a.phases[n])
<1>1. DOMAIN a.phases = 1 .. Len(a.phases)
  BY DEF IsSequence
<1> QED
  BY <1>1 DEF Before

\* q is the last phase before p.
Nearest(a, q, p) == Before(a, q, p) /\ \A r : Before(a, r, p) => r = q \/ Before(a, r, q)

\* A phase that another one is before has a last one before it.
LEMMA NearestExists ==
  ASSUME NEW a, IsSequence(a.phases), IsInjective(a.phases), NEW r, NEW p, Before(a, r, p)
  PROVE  \E q : Nearest(a, q, p)
<1> DEFINE T == {m \in 1 .. Len(a.phases) : Before(a, a.phases[m], p)}
<1>1. Len(a.phases) \in Nat /\ T \subseteq 1 .. Len(a.phases)
  BY DEF IsSequence
<1>2. \E m \in 1 .. Len(a.phases) : a.phases[m] = r
  BY OrderOfPhases
<1>3. T # {}
  BY <1>2
<1>4. PICK m \in T : \A k \in T : k <= m
  <2> HIDE DEF T
  <2> QED
    BY <1>1, <1>3, GreatestNumber
<1>5. ASSUME NEW x, Before(a, x, p) PROVE x = a.phases[m] \/ Before(a, x, a.phases[m])
  <2>1. PICK k \in 1 .. Len(a.phases) : a.phases[k] = x
    BY <1>5, OrderOfPhases
  <2>2. k \in T
    BY <1>5, <2>1
  <2>3. k <= m /\ m \in 1 .. Len(a.phases)
    BY <1>1, <1>4, <2>2
  <2>4. k = m \/ k < m
    BY <1>1, <2>3
  <2>5. x \in ActivePhases(a) /\ a.phases[m] \in ActivePhases(a)
    BY <1>5, OrderOfPhases
  <2> QED
    BY <2>1, <2>3, <2>4, <2>5, OrderOfPhases
<1> QED
  BY <1>5 DEF Nearest

\* The last step of a phase is the one that anchors the next phase.
IsLast(g, p, i) == i \in StepsIn(g, p) /\ \A m \in StepsIn(g, p) : m <= i

\* The anchor of a phase names its last step.
LEMMA LastIsAnchor ==
  ASSUME NEW g, NEW p, NEW i, IsSequence(g), IsLast(g, p, i)
  PROVE  Anchor(g, p) = {NameOf(g[i])}
<1>1. StepsIn(g, p) \subseteq Nat
  BY DEF IsSequence, StepsIn
<1>2. \A x : (x \in StepsIn(g, p) /\ \A y \in StepsIn(g, p) : x >= y) <=> x = i
  BY <1>1 DEF IsLast
<1>3. Max(StepsIn(g, p)) = i
  BY Zenon, <1>2 DEF Max
<1>4. UnitsBelow(g, RootOf(p)) = StepsIn(g, p)
  BY DEF UnitsBelow, StepsIn
<1> QED
  BY Zenon, <1>3, <1>4 DEF Anchor

\* A phase with steps has a last one.
LEMMA LastExists ==
  ASSUME NEW g, NEW p, IsSequence(g), StepsIn(g, p) # {}
  PROVE  \E i : IsLast(g, p, i)
<1>1. StepsIn(g, p) \subseteq 1 .. Len(g) /\ Len(g) \in Nat
  BY DEF IsSequence, StepsIn
<1>2. PICK i \in StepsIn(g, p) : \A m \in StepsIn(g, p) : m <= i
  BY <1>1, GreatestNumber
<1> QED
  BY <1>2 DEF IsLast

\* The unit at j, which names nothing itself, waits for the unit below the same
\* root right before it; or it is the first below its root and waits for a unit
\* of the phase before, behind which no more of the recipe's steps of that phase
\* come; or it is below a unit that is no root, and waits for one of its phase.
Behind(g, j) ==
  /\ j \in StepsIn(g, g[j].phase)
  /\ \E k \in StepsIn(g, g[j].phase) :
       /\ k < j /\ NameOf(g[k]) \in g[j].waits
       /\ \A m \in StepsIn(g, g[j].phase) : m < j => m <= k

Leads(a, g, j) ==
  /\ \A m \in StepsIn(g, g[j].phase) : j <= m
  /\ \A q : Nearest(a, q, g[j].phase) =>
       \E k \in StepsIn(g, q) :
         /\ k < j /\ NameOf(g[k]) \in g[j].waits
         /\ \A m \in StepsIn(g, q) : g[m].from # "caller" => m <= k

Inner(g, j) ==
  /\ j \notin StepsIn(g, g[j].phase)
  /\ \E k \in DOMAIN g :
       /\ k < j /\ NameOf(g[k]) \in g[j].waits
       /\ g[k].phase = g[j].phase /\ g[k].below # <<>>

Linked(a, g) ==
  \A j \in DOMAIN g : g[j].below # <<>> /\ ~g[j].own => Behind(g, j) \/ Leads(a, g, j) \/ Inner(g, j)

\* A unit below one that is no root stays so.
LEMMA InnerOfLonger ==
  ASSUME NEW g, NEW c, IsSequence(g), IsSequence(c), NEW j \in 1 .. Len(g), Inner(g, j)
  PROVE  Inner(g \o c, j)
<1>1. Len(g) \in Nat /\ Len(c) \in Nat
  BY DEF IsSequence
<1>2. /\ \A i \in 1 .. Len(g) : (g \o c)[i] = g[i]
      /\ DOMAIN g = 1 .. Len(g) /\ DOMAIN (g \o c) = 1 .. Len(g) + Len(c)
  BY Longer
<1>3. PICK k \in 1 .. Len(g) :
        /\ k < j /\ NameOf(g[k]) \in g[j].waits
        /\ g[k].phase = g[j].phase /\ g[k].below # <<>>
  BY <1>2 DEF Inner
<1>4. k \in 1 .. Len(g) + Len(c) /\ (g \o c)[k] = g[k] /\ (g \o c)[j] = g[j]
  BY <1>1, <1>2
<1>5. j \notin StepsIn(g \o c, g[j].phase)
  BY StepsOfLonger DEF Inner
<1> QED
  BY <1>2, <1>3, <1>4, <1>5 DEF Inner

\* Where what is appended is below no phase's root, links stay.
LEMMA OthersKeepLinks ==
  ASSUME NEW a, NEW g, NEW c, IsSequence(g), IsSequence(c), \A p : StepsIn(c, p) = {}, Linked(a, g),
         \A k \in 1 .. Len(c) : c[k].below = <<>> \/ c[k].own \/ Inner(g \o c, Len(g) + k)
  PROVE  Linked(a, g \o c) /\ \A p : StepsIn(g \o c, p) = StepsIn(g, p)
<1>1. Len(g) \in Nat /\ Len(c) \in Nat
  BY DEF IsSequence
<1>2. /\ \A i \in 1 .. Len(g) : (g \o c)[i] = g[i]
      /\ \A i \in 1 .. Len(c) : (g \o c)[Len(g) + i] = c[i]
      /\ DOMAIN g = 1 .. Len(g) /\ DOMAIN c = 1 .. Len(c) /\ DOMAIN (g \o c) = 1 .. Len(g) + Len(c)
  BY Longer
<1>3. ASSUME NEW p PROVE StepsIn(g \o c, p) = StepsIn(g, p)
  <2>1. StepsIn(c, p) = {}
    OBVIOUS
  <2>2. \A j \in StepsIn(g \o c, p) : j \in StepsIn(g, p)
    BY <2>1, StepsOfLonger
  <2>3. \A j \in StepsIn(g, p) : j \in 1 .. Len(g) /\ j \in StepsIn(g \o c, p)
    BY StepsOfLonger
  <2> QED
    BY <2>2, <2>3
<1>5. ASSUME NEW j \in 1 .. Len(g), g[j].below # <<>>, ~g[j].own
      PROVE  Behind(g \o c, j) \/ Leads(a, g \o c, j) \/ Inner(g \o c, j)
  <2>1. (g \o c)[j] = g[j] /\ \A q : \A k \in StepsIn(g, q) : (g \o c)[k] = g[k]
    BY <1>2 DEF StepsIn
  <2>2. CASE Behind(g, j)
    BY <1>3, <2>1, <2>2 DEF Behind
  <2>3. CASE Leads(a, g, j)
    <3>1. \A m \in StepsIn(g \o c, g[j].phase) : j <= m
      BY <1>3, <2>3 DEF Leads
    <3>2. ASSUME NEW q, Nearest(a, q, g[j].phase)
          PROVE  \E k \in StepsIn(g \o c, q) :
                   /\ k < j /\ NameOf((g \o c)[k]) \in g[j].waits
                   /\ \A m \in StepsIn(g \o c, q) : (g \o c)[m].from # "caller" => m <= k
      <4>1. PICK k \in StepsIn(g, q) :
              /\ k < j /\ NameOf(g[k]) \in g[j].waits
              /\ \A m \in StepsIn(g, q) : g[m].from # "caller" => m <= k
        BY <2>3, <3>2 DEF Leads
      <4>2. StepsIn(g \o c, q) = StepsIn(g, q) /\ \A m \in StepsIn(g, q) : (g \o c)[m] = g[m]
        BY <1>3, <2>1
      <4> QED
        BY <4>1, <4>2
    <3> QED
      BY <2>1, <3>1, <3>2 DEF Leads
  <2>4. CASE Inner(g, j)
    BY <1>1, <1>2, <1>3, <2>1, <2>4, InnerOfLonger
  <2> QED
    BY <1>2, <1>5, <2>2, <2>3, <2>4 DEF Linked
<1>6. ASSUME NEW j \in DOMAIN (g \o c), (g \o c)[j].below # <<>>, ~(g \o c)[j].own
      PROVE  Behind(g \o c, j) \/ Leads(a, g \o c, j) \/ Inner(g \o c, j)
  <2>1. CASE j \in 1 .. Len(g)
    BY <1>2, <1>5, <1>6, <2>1
  <2>2. CASE j \notin 1 .. Len(g)
    <3>1. j - Len(g) \in 1 .. Len(c) /\ j = Len(g) + (j - Len(g))
      BY <1>1, <1>2, <2>2
    <3>2. (g \o c)[j] = c[j - Len(g)]
      BY <1>2, <3>1
    <3> QED
      BY <1>6, <3>1, <3>2
  <2> QED
    BY <2>1, <2>2
<1> QED
  BY <1>3, <1>6 DEF Linked

\* A chain that is appended keeps the links: it goes on behind the last step of
\* its phase, or begins it behind the last step of the phase before, and is by a
\* caller unless its phase is the last.
LEMMA ChainKeepsLinks ==
  ASSUME NEW a, NEW g, NEW c, NEW p, IsSequence(g), IsChain(c, p), Linked(a, g),
         ~Nearest(a, p, p),
         StepsIn(g, p) # {} => \A k \in DOMAIN c : k = 1 => c[k].own \/ Anchor(g, p) \subseteq c[k].waits,
         StepsIn(g, p) = {} => \A q : Nearest(a, q, p) =>
           StepsIn(g, q) # {} /\ \A k \in DOMAIN c : k = 1 => c[k].own \/ Anchor(g, q) \subseteq c[k].waits,
         \/ \A k \in DOMAIN c : c[k].from = "caller"
         \/ \A j \in DOMAIN g : ~Nearest(a, p, g[j].phase)
  PROVE  Linked(a, g \o c)
<1>1. Len(g) \in Nat /\ Len(c) \in Nat /\ IsSequence(c)
  BY DEF IsSequence, IsChain
<1>2. /\ \A i \in 1 .. Len(g) : (g \o c)[i] = g[i]
      /\ \A i \in 1 .. Len(c) : (g \o c)[Len(g) + i] = c[i]
      /\ DOMAIN g = 1 .. Len(g) /\ DOMAIN c = 1 .. Len(c) /\ DOMAIN (g \o c) = 1 .. Len(g) + Len(c)
  BY <1>1, Longer
<1>3. ASSUME NEW q
      PROVE  /\ StepsIn(g, q) \subseteq 1 .. Len(g)
             /\ StepsIn(g, q) \subseteq StepsIn(g \o c, q)
             /\ \A m \in StepsIn(g \o c, q) : m \in Nat /\ (m \in StepsIn(g, q) \/ m > Len(g))
             /\ q # p => StepsIn(g \o c, q) = StepsIn(g, q)
  <2>1. StepsIn(g, q) \subseteq 1 .. Len(g) /\ StepsIn(c, q) \subseteq 1 .. Len(c)
    BY <1>1, StepsOfLonger
  <2>2. StepsIn(g, q) \subseteq StepsIn(g \o c, q)
    BY <1>1, <2>1, StepsOfLonger
  <2>3. \A m \in StepsIn(g \o c, q) : m \in Nat /\ (m \in StepsIn(g, q) \/ m > Len(g))
    <3>1. StepsIn(g \o c, q) \subseteq 1 .. Len(g) + Len(c)
      BY <1>2 DEF StepsIn
    <3> QED
      BY <1>1, <3>1, StepsOfLonger
  <2>4. q # p => StepsIn(c, q) = {}
    <3>1. ASSUME q # p, NEW k \in 1 .. Len(c), c[k].below = RootOf(q) PROVE FALSE
      BY <3>1, RootNames DEF IsChain
    <3> QED
      BY <1>2, <3>1 DEF StepsIn
  <2>5. q # p => StepsIn(g \o c, q) = StepsIn(g, q)
    BY <1>1, <2>2, <2>4, StepsOfLonger
  <2> QED
    BY <2>1, <2>2, <2>3, <2>5
<1>4. ASSUME NEW j \in 1 .. Len(g), g[j].below # <<>>, ~g[j].own
      PROVE  Behind(g \o c, j) \/ Leads(a, g \o c, j) \/ Inner(g \o c, j)
  <2>1. (g \o c)[j] = g[j] /\ \A q : \A k \in StepsIn(g, q) : (g \o c)[k] = g[k]
    BY <1>2, <1>3
  <2>2. CASE Behind(g, j)
    <3>1. PICK k \in StepsIn(g, g[j].phase) :
            /\ k < j /\ NameOf(g[k]) \in g[j].waits
            /\ \A m \in StepsIn(g, g[j].phase) : m < j => m <= k
      BY <2>2 DEF Behind
    <3>2. \A m \in StepsIn(g \o c, g[j].phase) : m < j => m <= k
      BY <1>1, <1>3, <3>1
    <3>3. j \in StepsIn(g \o c, g[j].phase)
      BY <1>3, <2>2 DEF Behind
    <3> QED
      BY <1>3, <2>1, <3>1, <3>2, <3>3 DEF Behind
  <2>3. CASE Leads(a, g, j)
    <3>1. \A m \in StepsIn(g \o c, g[j].phase) : j <= m
      BY <1>1, <1>3, <2>3 DEF Leads
    <3>2. ASSUME NEW q, Nearest(a, q, g[j].phase)
          PROVE  \E k \in StepsIn(g \o c, q) :
                   /\ k < j /\ NameOf((g \o c)[k]) \in g[j].waits
                   /\ \A m \in StepsIn(g \o c, q) : (g \o c)[m].from # "caller" => m <= k
      <4>1. PICK k \in StepsIn(g, q) :
              /\ k < j /\ NameOf(g[k]) \in g[j].waits
              /\ \A m \in StepsIn(g, q) : g[m].from # "caller" => m <= k
        BY <2>3, <3>2 DEF Leads
      <4>2. ASSUME NEW m \in StepsIn(g \o c, q), (g \o c)[m].from # "caller", m \notin StepsIn(g, q) PROVE FALSE
        <5>1. q = p
          BY <1>3, <4>2
        <5>2. PICK i \in 1 .. Len(c) : m = Len(g) + i
          BY <1>1, <4>2, StepsOfLonger
        <5>3. c[i].from # "caller"
          BY <1>2, <4>2, <5>2
        <5> QED
          BY <1>2, <3>2, <5>1, <5>2, <5>3
      <4> QED
        BY <1>3, <2>1, <4>1, <4>2
    <3> QED
      BY <2>1, <3>1, <3>2 DEF Leads
  <2>4. CASE Inner(g, j)
    BY <1>1, <2>4, InnerOfLonger
  <2> QED
    BY <1>2, <1>4, <2>2, <2>3, <2>4 DEF Linked
<1>5. ASSUME NEW i \in 1 .. Len(c), ~c[i].own
      PROVE  Behind(g \o c, Len(g) + i) \/ Leads(a, g \o c, Len(g) + i)
  <2>0. (g \o c)[Len(g) + i] = c[i] /\ c[i].phase = p /\ Len(g) + i \in StepsIn(g \o c, p)
    <3>1. i \in StepsIn(c, p)
      BY <1>2 DEF IsChain, StepsIn
    <3> QED
      BY <1>1, <1>2, <3>1, StepsOfLonger DEF IsChain
  <2>1. CASE i # 1
    <3>1. i \in 2 .. Len(c) /\ i - 1 \in 1 .. Len(c) /\ Len(g) + (i - 1) = Len(g) + i - 1
      BY <1>1, <2>1
    <3>2. NameOf(c[i - 1]) \in c[i].waits /\ c[i - 1].phase = p /\ c[i - 1].below = RootOf(p)
      BY <1>5, <3>1 DEF IsChain
    <3>3. i - 1 \in StepsIn(c, p)
      BY <1>2, <3>1, <3>2 DEF StepsIn
    <3>4. Len(g) + (i - 1) \in StepsIn(g \o c, p) /\ (g \o c)[Len(g) + (i - 1)] = c[i - 1]
      BY <1>1, <1>2, <3>1, <3>3, StepsOfLonger
    <3>5. \A m \in StepsIn(g \o c, p) : m < Len(g) + i => m <= Len(g) + (i - 1)
      <4>1. StepsIn(g \o c, p) \subseteq 1 .. Len(g) + Len(c)
        BY <1>2 DEF StepsIn
      <4> QED
        BY <1>1, <4>1
    <3>6. Len(g) + (i - 1) < Len(g) + i
      BY <1>1
    <3> QED
      BY <2>0, <3>2, <3>4, <3>5, <3>6 DEF Behind
  <2>2. CASE i = 1 /\ StepsIn(g, p) # {}
    <3>1. PICK k : IsLast(g, p, k)
      BY <2>2, LastExists
    <3>2. NameOf(g[k]) \in c[1].waits
      BY <1>2, <1>5, <2>2, <3>1, LastIsAnchor
    <3>3. k \in StepsIn(g \o c, p) /\ k < Len(g) + 1 /\ (g \o c)[k] = g[k]
      BY <1>1, <1>2, <1>3, <3>1 DEF IsLast
    <3>4. \A m \in StepsIn(g \o c, p) : m < Len(g) + 1 => m <= k
      BY <1>1, <1>3, <3>1 DEF IsLast
    <3> QED
      BY <2>0, <2>2, <3>2, <3>3, <3>4 DEF Behind
  <2>3. CASE i = 1 /\ StepsIn(g, p) = {}
    <3>1. \A m \in StepsIn(g \o c, p) : Len(g) + 1 <= m
      BY <1>1, <2>3, StepsOfLonger
    <3>2. ASSUME NEW q, Nearest(a, q, p)
          PROVE  \E k \in StepsIn(g \o c, q) :
                   /\ k < Len(g) + 1 /\ NameOf((g \o c)[k]) \in c[1].waits
                   /\ \A m \in StepsIn(g \o c, q) : (g \o c)[m].from # "caller" => m <= k
      <4>1. q # p
        BY <3>2
      <4>2. PICK k : IsLast(g, q, k)
        BY <2>3, <3>2, LastExists
      <4>3. NameOf(g[k]) \in c[1].waits
        BY <1>2, <1>5, <2>3, <3>2, <4>2, LastIsAnchor
      <4>4. k \in StepsIn(g \o c, q) /\ k < Len(g) + 1 /\ (g \o c)[k] = g[k]
        BY <1>1, <1>2, <1>3, <4>2 DEF IsLast
      <4> QED
        BY <1>3, <4>1, <4>2, <4>3, <4>4 DEF IsLast
    <3> QED
      BY <2>0, <2>3, <3>1, <3>2 DEF Leads
  <2> QED
    BY <2>1, <2>2, <2>3
<1>6. \A j \in DOMAIN (g \o c) : j \in 1 .. Len(g) \/ \E i \in 1 .. Len(c) : j = Len(g) + i
  <2>1. ASSUME NEW j \in 1 .. Len(g) + Len(c), j \notin 1 .. Len(g) PROVE \E i \in 1 .. Len(c) : j = Len(g) + i
    <3>1. j - Len(g) \in 1 .. Len(c) /\ j = Len(g) + (j - Len(g))
      BY <1>1, <2>1
    <3> QED
      BY <3>1
  <2> QED
    BY <1>2, <2>1
<1> QED
  BY <1>2, <1>4, <1>5, <1>6 DEF Linked

\* The numbers of the units that the unit at i waits for.
Named(g, i) == {k \in 1 .. i - 1 : NameOf(g[k]) \in g[i].waits}

\* What the first n units wait for, as WaitsFor computes it.
Waiting(g, n, f) == f = [i \in 1 .. n |-> g[i].waits \union UNION {f[j] : j \in Named(g, i)}]

\* What the first n units wait for can be computed.
LEMMA WaitsExist ==
  ASSUME NEW g, IsSequence(g)
  PROVE  \E f : Waiting(g, Len(g), f)
<1> DEFINE K == {n \in 0 .. Len(g) : \E f : Waiting(g, n, f)}
<1>0. Len(g) \in Nat
  BY DEF IsSequence
<1>1. 0 \in K
  <2>1. Waiting(g, 0, [i \in 1 .. 0 |-> {}])
    BY DEF Waiting
  <2> QED
    BY <1>0, <2>1
<1>2. ASSUME NEW n \in 1 .. Len(g), n - 1 \in K PROVE n \in K
  <2>0. n \in Nat /\ n \in 0 .. Len(g)
    BY <1>0
  <2>1. PICK f : Waiting(g, n - 1, f)
    BY <1>2
  <2> DEFINE h == [i \in 1 .. n |-> g[i].waits \union UNION {f[j] : j \in Named(g, i)}]
  <2>2. \A i \in 1 .. n - 1 : f[i] = g[i].waits \union UNION {f[j] : j \in Named(g, i)}
    BY <2>1 DEF Waiting
  <2>3. ASSUME NEW i \in 1 .. n - 1 PROVE h[i] = f[i]
    <3>1. i \in 1 .. n
      BY <2>0
    <3>2. h[i] = g[i].waits \union UNION {f[j] : j \in Named(g, i)}
      BY <3>1
    <3> QED
      BY Zenon, <2>2, <3>2
  <2>4. ASSUME NEW i \in 1 .. n PROVE h[i] = g[i].waits \union UNION {h[j] : j \in Named(g, i)}
    <3>1. \A j \in Named(g, i) : j \in 1 .. n - 1
      BY <2>0 DEF Named
    <3>2. \A j \in Named(g, i) : h[j] = f[j]
      BY <2>3, <3>1
    <3>3. h[i] = g[i].waits \union UNION {f[j] : j \in Named(g, i)}
      OBVIOUS
    <3> HIDE DEF h
    <3>4. {h[j] : j \in Named(g, i)} = {f[j] : j \in Named(g, i)}
      BY <3>2
    <3> QED
      BY Zenon, <3>3, <3>4
  <2>5. h = [i \in 1 .. n |-> h[i]]
    OBVIOUS
  <2> HIDE DEF h
  <2>6. h = [i \in 1 .. n |-> g[i].waits \union UNION {h[j] : j \in Named(g, i)}]
    BY <2>4, <2>5
  <2>7. Waiting(g, n, h)
    BY Zenon, <2>6 DEF Waiting
  <2> QED
    BY <2>0, <2>7
<1> HIDE DEF K
<1>3. Len(g) \in K
  BY <1>0, <1>1, <1>2, HandedOn
<1> QED
  BY <1>3 DEF K

\* What WaitsFor computes: what a unit names, and what those wait for.
LEMMA WaitStep ==
  ASSUME NEW g, IsSequence(g), NEW i \in 1 .. Len(g)
  PROVE  WaitsFor(g)[i] = g[i].waits \union UNION {WaitsFor(g)[j] : j \in Named(g, i)}
<1>1. DOMAIN g = 1 .. Len(g)
  BY DEF IsSequence
<1> DEFINE c == CHOOSE f : Waiting(g, Len(g), f)
<1>2. Waiting(g, Len(g), c)
  BY WaitsExist
<1>3. WaitsFor(g) = c
  BY <1>1 DEF WaitsFor, Waiting, Named
<1> HIDE DEF c
<1>4. c[i] = g[i].waits \union UNION {c[j] : j \in Named(g, i)}
  BY <1>2 DEF Waiting
<1> QED
  BY Zenon, <1>3, <1>4

\* A unit waits for what it names and for all that what it names waits for.
LEMMA WaitsAreHandedOn ==
  ASSUME NEW g, IsSequence(g), NEW j \in 1 .. Len(g)
  PROVE  /\ g[j].waits \subseteq WaitsFor(g)[j]
         /\ \A k \in 1 .. Len(g) : k < j /\ NameOf(g[k]) \in g[j].waits => WaitsFor(g)[k] \subseteq WaitsFor(g)[j]
<1> DEFINE W == WaitsFor(g)
<1>1. W[j] = g[j].waits \union UNION {W[k] : k \in Named(g, j)}
  BY WaitStep
<1>2. ASSUME NEW k \in 1 .. Len(g), k < j, NameOf(g[k]) \in g[j].waits PROVE k \in Named(g, j)
  BY <1>2 DEF IsSequence, Named
<1> HIDE DEF W
<1>3. g[j].waits \subseteq W[j] /\ \A k \in Named(g, j) : W[k] \subseteq W[j]
  BY <1>1
<1> QED
  BY <1>2, <1>3 DEF W

\* Units are of the phase of what they are below; the recipe's steps are right
\* below the root; and what is below nothing is a root.
IsPlaced(u) ==
  /\ u.below # <<>> => u.below[1] = u.phase
  /\ u.below # <<>> /\ u.from # "caller" => u.below = RootOf(u.phase)
  /\ u.below = <<>> => NameOf(u) = RootOf(u.phase)

Placed(g) == \A i \in DOMAIN g : IsPlaced(g[i])

\* What is appended in its place leaves all in their places.
LEMMA PlacedLonger ==
  ASSUME NEW g, NEW c, IsSequence(g), IsSequence(c), Placed(g), Placed(c)
  PROVE  Placed(g \o c)
<1>1. Len(g) \in Nat /\ Len(c) \in Nat
  BY DEF IsSequence
<1>2. /\ \A i \in 1 .. Len(g) : (g \o c)[i] = g[i]
      /\ \A i \in 1 .. Len(c) : (g \o c)[Len(g) + i] = c[i]
      /\ DOMAIN g = 1 .. Len(g) /\ DOMAIN c = 1 .. Len(c) /\ DOMAIN (g \o c) = 1 .. Len(g) + Len(c)
  BY Longer
<1>3. ASSUME NEW j \in 1 .. Len(g) + Len(c) PROVE IsPlaced((g \o c)[j])
  <2>1. CASE j \in 1 .. Len(g)
    BY <1>2, <2>1 DEF Placed
  <2>2. CASE j \notin 1 .. Len(g)
    <3>1. j - Len(g) \in 1 .. Len(c) /\ j = Len(g) + (j - Len(g))
      BY <1>1, <2>2
    <3>2. (g \o c)[j] = c[j - Len(g)]
      BY <1>2, <3>1
    <3> QED
      BY <1>2, <3>1, <3>2 DEF Placed
  <2> QED
    BY <2>1, <2>2
<1> QED
  BY <1>2, <1>3 DEF Placed

\* A chain is in its place.
LEMMA ChainPlaced ==
  ASSUME NEW c, NEW p, IsChain(c, p)
  PROVE  Placed(c)
<1>1. DOMAIN c = 1 .. Len(c)
  BY DEF IsChain, IsSequence
<1> QED
  BY <1>1, RootNames DEF IsChain, Placed, IsPlaced

\* A step is of its phase.
LEMMA StepsArePlaced ==
  ASSUME NEW g, Placed(g), NEW p, NEW k \in StepsIn(g, p)
  PROVE  k \in DOMAIN g /\ g[k].phase = p /\ g[k].below # <<>>
BY RootNames DEF StepsIn, Placed, IsPlaced

\* What makes a unit come after another, where no unit of their phases, or of one
\* between them, names what it waits for.
Precedes(a, g, i, j) ==
  /\ g[i].below # <<>>
  /\ \/ \E p : i \in StepsIn(g, p) /\ j \in StepsIn(g, p) /\ i < j
     \/ Before(a, g[i].phase, g[j].phase) /\ g[i].from # "caller"
  /\ \A k \in DOMAIN g : g[k].own =>
       Before(a, g[k].phase, g[i].phase) \/ Before(a, g[j].phase, g[k].phase)

\* Links make every unit wait for those before it.
LEMMA LinksMakeWait ==
  ASSUME NEW a, IsSequence(a.phases), IsInjective(a.phases), NEW g, IsSequence(g), Placed(g), Linked(a, g)
  PROVE  \A j \in DOMAIN g : g[j].below # <<>> =>
           \A i \in DOMAIN g : Precedes(a, g, i, j) => NameOf(g[i]) \in WaitsFor(g)[j]
<1> DEFINE W == WaitsFor(g)
           Bad == {j \in DOMAIN g :
                     g[j].below # <<>> /\ \E i \in DOMAIN g : Precedes(a, g, i, j) /\ NameOf(g[i]) \notin W[j]}
<1> SUFFICES ASSUME Bad # {} PROVE FALSE
  OBVIOUS
<1>0. Len(g) \in Nat /\ DOMAIN g = 1 .. Len(g)
  BY DEF IsSequence
<1>1. PICK j \in Bad : \A k \in Bad : j <= k
  <2>1. Bad \subseteq Nat
    BY <1>0
  <2> HIDE DEF Bad
  <2> QED
    BY <2>1, LeastNumber
<1>2. j \in 1 .. Len(g) /\ g[j].below # <<>>
  BY <1>0
<1>3. PICK i \in 1 .. Len(g) : Precedes(a, g, i, j) /\ NameOf(g[i]) \notin W[j]
  BY <1>0
<1>4. ASSUME NEW k \in 1 .. Len(g), k < j, g[k].below # <<>>, NameOf(g[k]) \in g[j].waits, i = k \/ Precedes(a, g, i, k)
      PROVE  FALSE
  <2>1. NameOf(g[k]) \in W[j] /\ W[k] \subseteq W[j]
    BY <1>2, <1>4, WaitsAreHandedOn
  <2>2. CASE i = k
    BY <1>3, <2>1, <2>2
  <2>3. CASE Precedes(a, g, i, k)
    <3>1. k \notin Bad
      BY <1>0, <1>1, <1>2, <1>4
    <3>2. NameOf(g[i]) \in W[k]
      BY <1>0, <1>4, <2>3, <3>1
    <3> QED
      BY <1>3, <2>1, <3>2
  <2> QED
    BY <1>4, <2>2, <2>3
<1> HIDE DEF Bad, W
<1>5. g[i].below # <<>> /\ (g[i].phase = g[j].phase \/ Before(a, g[i].phase, g[j].phase))
  BY <1>3, StepsArePlaced DEF Precedes
<1>6. ~g[j].own
  BY <1>0, <1>2, <1>3, <1>5, OrderOfPhases DEF Precedes
<1>7. ASSUME NEW k \in 1 .. Len(g), g[k].phase = g[j].phase \/ Before(a, g[k].phase, g[j].phase)
      PROVE  \A n \in DOMAIN g : g[n].own =>
               Before(a, g[n].phase, g[i].phase) \/ Before(a, g[k].phase, g[n].phase)
  BY <1>3, <1>7, OrderOfPhases DEF Precedes
<1>8. ASSUME g[i].from # "caller" PROVE i \in StepsIn(g, g[i].phase)
  BY <1>0, <1>5, <1>8 DEF Placed, IsPlaced, StepsIn
<1>9. CASE Behind(g, j)
  <2>1. PICK k \in StepsIn(g, g[j].phase) :
          /\ k < j /\ NameOf(g[k]) \in g[j].waits
          /\ \A m \in StepsIn(g, g[j].phase) : m < j => m <= k
    BY <1>9 DEF Behind
  <2>2. k \in 1 .. Len(g) /\ g[k].below # <<>> /\ g[k].phase = g[j].phase
    BY <1>0, StepsArePlaced
  <2>3. i = k \/ Precedes(a, g, i, k)
    <3>1. ASSUME NEW p, i \in StepsIn(g, p), j \in StepsIn(g, p), i < j PROVE i = k \/ Precedes(a, g, i, k)
      <4>1. p = g[j].phase
        BY <3>1, StepsArePlaced
      <4>2. i = k \/ i < k
        BY <1>0, <2>1, <2>2, <3>1, <4>1
      <4> QED
        BY <1>5, <1>7, <2>2, <3>1, <4>1, <4>2 DEF Precedes
    <3>2. CASE Before(a, g[i].phase, g[j].phase) /\ g[i].from # "caller"
      BY <1>5, <1>7, <2>2, <3>2 DEF Precedes
    <3> QED
      BY <1>3, <3>1, <3>2 DEF Precedes
  <2> QED
    BY <1>4, <2>1, <2>2, <2>3
<1>10. CASE Leads(a, g, j)
  <2>1. ASSUME NEW p, i \in StepsIn(g, p), j \in StepsIn(g, p), i < j PROVE FALSE
    <3>1. p = g[j].phase
      BY <2>1, StepsArePlaced
    <3>2. j <= i
      BY <1>10, <2>1, <3>1 DEF Leads
    <3> QED
      BY <1>0, <1>2, <2>1, <3>2
  <2>2. Before(a, g[i].phase, g[j].phase) /\ g[i].from # "caller"
    BY <1>3, <2>1 DEF Precedes
  <2>3. PICK q : Nearest(a, q, g[j].phase)
    BY <2>2, NearestExists
  <2>4. PICK k \in StepsIn(g, q) :
          /\ k < j /\ NameOf(g[k]) \in g[j].waits
          /\ \A m \in StepsIn(g, q) : g[m].from # "caller" => m <= k
    BY <1>10, <2>3 DEF Leads
  <2>5. k \in 1 .. Len(g) /\ g[k].below # <<>> /\ g[k].phase = q
    BY <1>0, StepsArePlaced
  <2>6. g[i].phase = q \/ Before(a, g[i].phase, q)
    BY <2>2, <2>3 DEF Nearest
  <2>7. i = k \/ Precedes(a, g, i, k)
    <3>0. \A n \in DOMAIN g : g[n].own =>
            Before(a, g[n].phase, g[i].phase) \/ Before(a, g[k].phase, g[n].phase)
      BY <1>7, <2>3, <2>5 DEF Nearest
    <3>1. CASE g[i].phase = q
      <4>1. i \in StepsIn(g, q)
        BY <1>8, <2>2, <3>1
      <4>2. i = k \/ i < k
        BY <1>0, <2>2, <2>4, <2>5, <4>1
      <4> QED
        BY <1>5, <3>0, <4>1, <4>2 DEF Precedes
    <3>2. CASE Before(a, g[i].phase, q)
      BY <1>5, <2>2, <2>5, <3>0, <3>2 DEF Precedes
    <3> QED
      BY <2>6, <3>1, <3>2
  <2> QED
    BY <1>4, <2>4, <2>5, <2>7
<1>11. CASE Inner(g, j)
  <2>1. PICK k \in 1 .. Len(g) :
          /\ k < j /\ NameOf(g[k]) \in g[j].waits
          /\ g[k].phase = g[j].phase /\ g[k].below # <<>>
    BY <1>0, <1>11 DEF Inner
  <2>2. Before(a, g[i].phase, g[j].phase) /\ g[i].from # "caller"
    BY <1>3, <1>11, StepsArePlaced DEF Precedes, Inner
  <2>3. Precedes(a, g, i, k)
    BY <1>5, <1>7, <2>1, <2>2 DEF Precedes
  <2> QED
    BY <1>4, <2>1, <2>3
<1> QED
  BY <1>0, <1>2, <1>6, <1>9, <1>10, <1>11 DEF Linked

\* The rounds of AllFolded.
Folding(a, p, so, n, f) ==
  f = [k \in 0 .. n |-> IF k = 0 THEN so ELSE AddFolded(f[k - 1], p, a.fold[k])]

\* The rounds of AllFolded can be computed.
LEMMA FoldingExists ==
  ASSUME NEW a, NEW p, NEW so, IsSequence(a.fold)
  PROVE  \E f : Folding(a, p, so, Len(a.fold), f)
<1> DEFINE K == {n \in 0 .. Len(a.fold) : \E f : Folding(a, p, so, n, f)}
<1>0. Len(a.fold) \in Nat
  BY DEF IsSequence
<1>1. 0 \in K
  <2>1. Folding(a, p, so, 0, [k \in 0 .. 0 |-> so])
    BY DEF Folding
  <2> QED
    BY <1>0, <2>1
<1>2. ASSUME NEW n \in 1 .. Len(a.fold), n - 1 \in K PROVE n \in K
  <2>0. n \in Nat /\ n \in 0 .. Len(a.fold) /\ n # 0
    BY <1>0
  <2>1. PICK f : Folding(a, p, so, n - 1, f)
    BY <1>2
  <2> DEFINE h == [k \in 0 .. n |-> IF k = 0 THEN so ELSE AddFolded(f[k - 1], p, a.fold[k])]
  <2>2. \A k \in 0 .. n - 1 : f[k] = IF k = 0 THEN so ELSE AddFolded(f[k - 1], p, a.fold[k])
    BY Zenon, <2>1 DEF Folding
  <2>3. ASSUME NEW k \in 0 .. n - 1 PROVE h[k] = f[k]
    <3>1. k \in 0 .. n
      BY <2>0
    <3>2. h[k] = IF k = 0 THEN so ELSE AddFolded(f[k - 1], p, a.fold[k])
      BY <3>1
    <3> QED
      BY Zenon, <2>2, <3>2
  <2>4. ASSUME NEW k \in 0 .. n PROVE h[k] = IF k = 0 THEN so ELSE AddFolded(h[k - 1], p, a.fold[k])
    <3>1. h[k] = IF k = 0 THEN so ELSE AddFolded(f[k - 1], p, a.fold[k])
      OBVIOUS
    <3>2. k # 0 => k - 1 \in 0 .. n - 1
      BY <2>0
    <3> HIDE DEF h
    <3>3. k # 0 => h[k - 1] = f[k - 1]
      BY <2>3, <3>2
    <3> QED
      BY Zenon, <3>1, <3>3
  <2>5. h = [k \in 0 .. n |-> h[k]]
    OBVIOUS
  <2> HIDE DEF h
  <2>6. h = [k \in 0 .. n |-> IF k = 0 THEN so ELSE AddFolded(h[k - 1], p, a.fold[k])]
    BY Zenon, <2>4, <2>5
  <2>7. Folding(a, p, so, n, h)
    BY Zenon, <2>6 DEF Folding
  <2> QED
    BY <2>0, <2>7
<1> HIDE DEF K
<1>3. Len(a.fold) \in K
  BY <1>0, <1>1, <1>2, HandedOn
<1> QED
  BY <1>3 DEF K

\* AllFolded goes through the entries of the fold, one by one.
LEMMA FoldingSteps ==
  ASSUME NEW a, NEW p, NEW so, IsSequence(a.fold)
  PROVE  \E f : /\ f[0] = so
                /\ \A k \in 1 .. Len(a.fold) : f[k] = AddFolded(f[k - 1], p, a.fold[k])
                /\ AllFolded(a, p, so) = f[Len(a.fold)]
<1>0. Len(a.fold) \in Nat
  BY DEF IsSequence
<1> DEFINE c == CHOOSE f : Folding(a, p, so, Len(a.fold), f)
<1>1. Folding(a, p, so, Len(a.fold), c)
  BY FoldingExists
<1>2. AllFolded(a, p, so) = c[Len(a.fold)]
  BY DEF AllFolded, Folding
<1> HIDE DEF c
<1>3. \A k \in 0 .. Len(a.fold) : c[k] = IF k = 0 THEN so ELSE AddFolded(c[k - 1], p, a.fold[k])
  BY Zenon, <1>1 DEF Folding
<1>4. 0 \in 0 .. Len(a.fold) /\ \A k \in 1 .. Len(a.fold) : k \in 0 .. Len(a.fold) /\ k # 0
  BY <1>0
<1>5. c[0] = so
  BY <1>3, <1>4
<1>6. ASSUME NEW k \in 1 .. Len(a.fold) PROVE c[k] = AddFolded(c[k - 1], p, a.fold[k])
  BY Zenon, <1>3, <1>4
<1> QED
  BY <1>2, <1>5, <1>6

\* The rounds of Materialized.
Start(g) == [graph |-> g, root |-> {}, leaf |-> {}]

Adding(a, wanted, g, n, f) ==
  f = [k \in 0 .. n |-> IF k = 0 THEN Start(g) ELSE AddPhase(a, wanted, f[k - 1], a.phases[k])]

\* The rounds of Materialized can be computed.
LEMMA AddingExists ==
  ASSUME NEW a, NEW wanted, NEW g, IsSequence(a.phases)
  PROVE  \E f : Adding(a, wanted, g, Len(a.phases), f)
<1> DEFINE K == {n \in 0 .. Len(a.phases) : \E f : Adding(a, wanted, g, n, f)}
<1>0. Len(a.phases) \in Nat
  BY DEF IsSequence
<1>1. 0 \in K
  <2>1. Adding(a, wanted, g, 0, [k \in 0 .. 0 |-> Start(g)])
    BY DEF Adding
  <2> QED
    BY <1>0, <2>1
<1>2. ASSUME NEW n \in 1 .. Len(a.phases), n - 1 \in K PROVE n \in K
  <2>0. n \in Nat /\ n \in 0 .. Len(a.phases) /\ n # 0
    BY <1>0
  <2>1. PICK f : Adding(a, wanted, g, n - 1, f)
    BY <1>2
  <2> DEFINE h == [k \in 0 .. n |-> IF k = 0 THEN Start(g) ELSE AddPhase(a, wanted, f[k - 1], a.phases[k])]
  <2>2. \A k \in 0 .. n - 1 : f[k] = IF k = 0 THEN Start(g) ELSE AddPhase(a, wanted, f[k - 1], a.phases[k])
    BY Zenon, <2>1 DEF Adding
  <2>3. ASSUME NEW k \in 0 .. n - 1 PROVE h[k] = f[k]
    <3>1. k \in 0 .. n
      BY <2>0
    <3>2. h[k] = IF k = 0 THEN Start(g) ELSE AddPhase(a, wanted, f[k - 1], a.phases[k])
      BY <3>1
    <3> QED
      BY Zenon, <2>2, <3>2
  <2>4. ASSUME NEW k \in 0 .. n PROVE h[k] = IF k = 0 THEN Start(g) ELSE AddPhase(a, wanted, h[k - 1], a.phases[k])
    <3>1. h[k] = IF k = 0 THEN Start(g) ELSE AddPhase(a, wanted, f[k - 1], a.phases[k])
      OBVIOUS
    <3>2. k # 0 => k - 1 \in 0 .. n - 1
      BY <2>0
    <3> HIDE DEF h
    <3>3. k # 0 => h[k - 1] = f[k - 1]
      BY <2>3, <3>2
    <3> QED
      BY Zenon, <3>1, <3>3
  <2>5. h = [k \in 0 .. n |-> h[k]]
    OBVIOUS
  <2> HIDE DEF h
  <2>6. h = [k \in 0 .. n |-> IF k = 0 THEN Start(g) ELSE AddPhase(a, wanted, h[k - 1], a.phases[k])]
    BY Zenon, <2>4, <2>5
  <2>7. Adding(a, wanted, g, n, h)
    BY Zenon, <2>6 DEF Adding
  <2> QED
    BY <2>0, <2>7
<1> HIDE DEF K
<1>3. Len(a.phases) \in K
  BY <1>0, <1>1, <1>2, HandedOn
<1> QED
  BY <1>3 DEF K

\* Materialized goes through the phases, one by one.
LEMMA AddingSteps ==
  ASSUME NEW a, NEW wanted, NEW g, IsSequence(a.phases)
  PROVE  \E f : /\ f[0] = Start(g)
                /\ \A k \in 1 .. Len(a.phases) : f[k] = AddPhase(a, wanted, f[k - 1], a.phases[k])
                /\ Materialized(g, a, wanted) = f[Len(a.phases)].graph
<1>0. Len(a.phases) \in Nat
  BY DEF IsSequence
<1> DEFINE c == CHOOSE f : Adding(a, wanted, g, Len(a.phases), f)
<1>1. Adding(a, wanted, g, Len(a.phases), c)
  BY AddingExists
<1>2. Materialized(g, a, wanted) = c[Len(a.phases)].graph
  BY DEF Materialized, Adding, Start
<1> HIDE DEF c
<1>3. \A k \in 0 .. Len(a.phases) : c[k] = IF k = 0 THEN Start(g) ELSE AddPhase(a, wanted, c[k - 1], a.phases[k])
  BY Zenon, <1>1 DEF Adding
<1>4. 0 \in 0 .. Len(a.phases) /\ \A k \in 1 .. Len(a.phases) : k \in 0 .. Len(a.phases) /\ k # 0
  BY <1>0
<1>5. c[0] = Start(g)
  BY <1>3, <1>4
<1>6. ASSUME NEW k \in 1 .. Len(a.phases) PROVE c[k] = AddPhase(a, wanted, c[k - 1], a.phases[k])
  BY Zenon, <1>3, <1>4
<1> QED
  BY <1>2, <1>5, <1>6

\* A policy that the pack was configured with.
AcceptedPolicy(a) == a \in PhasePolicies /\ PolicyIsSound(a)

\* What PhasePolicy accepts, and what is assumed of policies.
LEMMA PolicyFacts ==
  ASSUME NEW a, AcceptedPolicy(a)
  PROVE  /\ IsSequence(a.phases) /\ IsInjective(a.phases) /\ IsSequence(a.fold)
         /\ ActivePhases(a) \subseteq PhaseNames
         /\ DOMAIN a.fold = 1 .. Len(a.fold)
         /\ \A k \in 1 .. Len(a.fold) : a.fold[k][1] \in PhaseNames /\ a.fold[k][1] # "caller"
<1>1. IsSequence(a.phases) /\ IsSequence(a.fold)
  BY PhasesAssumption DEF PhasesAssumption, AcceptedPolicy
<1>2. IsInjective(a.phases) /\ ToSet(a.phases) \subseteq PhaseNames /\ FoldedAway(a) \subseteq ToSet(a.phases)
  BY DEF AcceptedPolicy, PolicyIsSound
<1>3. ActivePhases(a) \subseteq PhaseNames
  BY <1>2 DEF ActivePhases
<1>4. DOMAIN a.fold = 1 .. Len(a.fold)
  BY <1>1 DEF IsSequence
<1>5. ASSUME NEW k \in 1 .. Len(a.fold) PROVE a.fold[k][1] \in PhaseNames /\ a.fold[k][1] # "caller"
  <2>1. a.fold[k][1] \in FoldedAway(a)
    BY <1>4 DEF FoldedAway
  <2> QED
    BY <1>2, <2>1, PhasesAssumption DEF PhasesAssumption
<1> QED
  BY <1>1, <1>2, <1>3, <1>4, <1>5

-----------------------------------------------------------------------------
(* Phases: which of them a graph holds *)

\* Nothing but these phases.
Only(g, X) == IsSequence(g) /\ \A i \in DOMAIN g : g[i].phase \in X

\* What is appended is of these phases, too.
LEMMA OnlyLonger ==
  ASSUME NEW X, NEW g, NEW c, Only(g, X), Only(c, X)
  PROVE  Only(g \o c, X)
<1>1. Len(g) \in Nat /\ Len(c) \in Nat /\ IsSequence(g) /\ IsSequence(c)
  BY DEF IsSequence, Only
<1>2. /\ IsSequence(g \o c)
      /\ \A i \in 1 .. Len(g) : (g \o c)[i] = g[i]
      /\ \A i \in 1 .. Len(c) : (g \o c)[Len(g) + i] = c[i]
      /\ DOMAIN g = 1 .. Len(g) /\ DOMAIN c = 1 .. Len(c) /\ DOMAIN (g \o c) = 1 .. Len(g) + Len(c)
  BY <1>1, Longer
<1>3. ASSUME NEW j \in 1 .. Len(g) + Len(c) PROVE (g \o c)[j].phase \in X
  <2>1. CASE j \in 1 .. Len(g)
    BY <1>2, <2>1 DEF Only
  <2>2. CASE j \notin 1 .. Len(g)
    <3>1. j - Len(g) \in 1 .. Len(c) /\ j = Len(g) + (j - Len(g))
      BY <1>1, <2>2
    <3>2. (g \o c)[j] = c[j - Len(g)]
      BY <1>2, <3>1
    <3> QED
      BY <1>2, <3>1, <3>2 DEF Only
  <2> QED
    BY <2>1, <2>2
<1> QED
  BY <1>2, <1>3 DEF Only

\* A chain is of one phase.
LEMMA OnlyChain ==
  ASSUME NEW X, NEW p \in X, NEW c, IsChain(c, p)
  PROVE  Only(c, X)
BY DEF Only, IsChain, IsSequence

\* A root is of its phase.
LEMMA OnlyRoot ==
  ASSUME NEW X, NEW p \in X, NEW g, Only(g, X), NEW root
  PROVE  Only(Append(g, PhaseRoot(p, root)), X)
<1> DEFINE u == PhaseRoot(p, root)
<1>1. Append(g, u) = g \o <<u>> /\ IsSequence(<<u>>) /\ Len(<<u>>) = 1 /\ <<u>>[1] = u
  BY OneMore DEF Only
<1>2. u.phase = p
  BY RootFields
<1> HIDE DEF u
<1>3. Only(<<u>>, X)
  BY <1>1, <1>2 DEF Only
<1>4. Only(g \o <<u>>, X)
  BY <1>3, OnlyLonger
<1> QED
  BY <1>1, <1>4 DEF u

\* What is added to a phase: its steps, behind the leaf.
LEMMA StepsAdded ==
  ASSUME NEW so, NEW p, NEW from
  PROVE  /\ WithSteps(so, p, from).graph = so.graph \o ChainOf(p, from, so.leaf)
         /\ WithSteps(so, p, from).leaf = {<<p, from, StepsOf[p]>>}
BY DEF WithSteps

\* AddFolded and AllFolded add to the phase alone.
LEMMA OnlyFolded ==
  ASSUME NEW a, AcceptedPolicy(a), NEW X, X \subseteq PhaseNames, NEW p \in X, NEW so, Only(so.graph, X)
  PROVE  Only(AllFolded(a, p, so).graph, X)
<1>0. IsSequence(a.fold) /\ Len(a.fold) \in Nat
  BY PolicyFacts DEF IsSequence
<1>1. PICK f : /\ f[0] = so
               /\ \A k \in 1 .. Len(a.fold) : f[k] = AddFolded(f[k - 1], p, a.fold[k])
               /\ AllFolded(a, p, so) = f[Len(a.fold)]
  BY <1>0, FoldingSteps
<1> DEFINE K == {k \in 0 .. Len(a.fold) : Only(f[k].graph, X)}
<1>2. 0 \in K
  BY <1>0, <1>1
<1>3. ASSUME NEW k \in 1 .. Len(a.fold), k - 1 \in K PROVE k \in K
  <2>1. Only(f[k - 1].graph, X) /\ f[k] = AddFolded(f[k - 1], p, a.fold[k])
    BY <1>1, <1>3
  <2>2. \/ f[k] = f[k - 1]
        \/ f[k].graph = f[k - 1].graph \o ChainOf(p, a.fold[k][1], f[k - 1].leaf)
    <3>1. f[k] = f[k - 1] \/ f[k] = WithSteps(f[k - 1], p, a.fold[k][1])
      BY Zenon, <2>1 DEF AddFolded
    <3>2. WithSteps(f[k - 1], p, a.fold[k][1]).graph = f[k - 1].graph \o ChainOf(p, a.fold[k][1], f[k - 1].leaf)
      BY StepsAdded
    <3> QED
      BY Zenon, <3>1, <3>2
  <2>3. Only(f[k - 1].graph \o ChainOf(p, a.fold[k][1], f[k - 1].leaf), X)
    BY <2>1, ChainOfIsChain, OnlyChain, OnlyLonger
  <2>4. Only(f[k].graph, X)
    BY Zenon, <2>1, <2>2, <2>3
  <2> QED
    BY <1>0, <2>4
<1> HIDE DEF K
<1>4. Len(a.fold) \in K
  BY <1>0, <1>2, <1>3, HandedOn
<1> QED
  BY <1>1, <1>4 DEF K

\* What a phase adds that is new: its root, and its steps behind the leaf.
NewPhase(so, p) == Append(so.graph, PhaseRoot(p, so.root)) \o ChainOf(p, p, so.leaf)

\* A round: a phase that is not to be there, one that is there, a new one.
LEMMA RoundCases ==
  ASSUME NEW a, NEW wanted, NEW p, NEW so
  PROVE  \/ /\ p \notin ActivePhases(a) \/ (~IsThere(so.graph, p) /\ p \notin wanted)
            /\ AddPhase(a, wanted, so, p) = so
         \/ /\ p \in ActivePhases(a) /\ IsThere(so.graph, p)
            /\ \E s : /\ s.graph = so.graph /\ s.leaf = Anchor(so.graph, p)
                      /\ AddPhase(a, wanted, so, p) = AllFolded(a, p, s)
         \/ /\ p \in ActivePhases(a) /\ ~IsThere(so.graph, p) /\ p \in wanted
            /\ \E s : /\ s.graph = NewPhase(so, p) /\ s.leaf = {<<p, p, StepsOf[p]>>}
                      /\ AddPhase(a, wanted, so, p) = AllFolded(a, p, s)
<1> DEFINE s1 == [graph |-> so.graph, root |-> {RootOf(p)}, leaf |-> Anchor(so.graph, p)]
           s2 == [graph |-> Append(so.graph, PhaseRoot(p, so.root)), root |-> {RootOf(p)}, leaf |-> so.leaf]
<1>1. CASE p \notin ActivePhases(a) \/ (~IsThere(so.graph, p) /\ p \notin wanted)
  BY Zenon, <1>1 DEF AddPhase
<1>2. CASE p \in ActivePhases(a) /\ IsThere(so.graph, p)
  <2>1. AddPhase(a, wanted, so, p) = AllFolded(a, p, s1)
    BY Zenon, <1>2 DEF AddPhase
  <2>2. s1.graph = so.graph /\ s1.leaf = Anchor(so.graph, p)
    OBVIOUS
  <2> HIDE DEF s1
  <2> QED
    BY Zenon, <1>2, <2>1, <2>2
<1>3. CASE p \in ActivePhases(a) /\ ~IsThere(so.graph, p) /\ p \in wanted
  <2>1. AddPhase(a, wanted, so, p) = AllFolded(a, p, WithSteps(s2, p, p))
    BY Zenon, <1>3 DEF AddPhase
  <2>2. s2.graph = Append(so.graph, PhaseRoot(p, so.root)) /\ s2.leaf = so.leaf
    OBVIOUS
  <2> HIDE DEF s2
  <2>3. WithSteps(s2, p, p).graph = NewPhase(so, p) /\ WithSteps(s2, p, p).leaf = {<<p, p, StepsOf[p]>>}
    <3>1. WithSteps(s2, p, p).graph = s2.graph \o ChainOf(p, p, s2.leaf)
          /\ WithSteps(s2, p, p).leaf = {<<p, p, StepsOf[p]>>}
      BY StepsAdded
    <3> QED
      BY Zenon, <2>2, <3>1 DEF NewPhase
  <2> QED
    BY Zenon, <1>3, <2>1, <2>3
<1> QED
  BY Zenon, <1>1, <1>2, <1>3

\* A round adds a phase that is wanted, or to one that is there.
LEMMA OnlyRound ==
  ASSUME NEW a, AcceptedPolicy(a), NEW X, X \subseteq PhaseNames, NEW wanted, wanted \subseteq X, NEW p,
         NEW so, Only(so.graph, X)
  PROVE  Only(AddPhase(a, wanted, so, p).graph, X)
<1>1. CASE AddPhase(a, wanted, so, p) = so
  BY Zenon, <1>1
<1>2. ASSUME IsThere(so.graph, p), NEW s, s.graph = so.graph, AddPhase(a, wanted, so, p) = AllFolded(a, p, s)
      PROVE  Only(AddPhase(a, wanted, so, p).graph, X)
  <2>1. p \in X
    BY <1>2, ThereHasUnit DEF Only
  <2> QED
    BY <1>2, <2>1, OnlyFolded
<1>3. ASSUME p \in wanted, NEW s, s.graph = NewPhase(so, p), AddPhase(a, wanted, so, p) = AllFolded(a, p, s)
      PROVE  Only(AddPhase(a, wanted, so, p).graph, X)
  <2>1. Only(Append(so.graph, PhaseRoot(p, so.root)), X)
    BY <1>3, OnlyRoot
  <2>2. Only(s.graph, X)
    BY <1>3, <2>1, ChainOfIsChain, OnlyChain, OnlyLonger DEF NewPhase
  <2> QED
    BY <1>3, <2>2, OnlyFolded
<1> QED
  BY <1>1, <1>2, <1>3, RoundCases

\* materialize adds no phase but those that are wanted.
LEMMA OnlyMaterialized ==
  ASSUME NEW a, AcceptedPolicy(a), NEW X, X \subseteq PhaseNames, NEW wanted, wanted \subseteq X,
         NEW g, Only(g, X)
  PROVE  Only(Materialized(g, a, wanted), X)
<1>0. IsSequence(a.phases) /\ Len(a.phases) \in Nat
  BY PolicyFacts DEF IsSequence
<1>1. PICK f : /\ f[0] = Start(g)
               /\ \A k \in 1 .. Len(a.phases) : f[k] = AddPhase(a, wanted, f[k - 1], a.phases[k])
               /\ Materialized(g, a, wanted) = f[Len(a.phases)].graph
  BY <1>0, AddingSteps
<1> DEFINE K == {k \in 0 .. Len(a.phases) : Only(f[k].graph, X)}
<1>2. 0 \in K
  BY <1>0, <1>1 DEF Start
<1>3. ASSUME NEW k \in 1 .. Len(a.phases), k - 1 \in K PROVE k \in K
  <2>1. Only(f[k - 1].graph, X) /\ f[k] = AddPhase(a, wanted, f[k - 1], a.phases[k])
    BY <1>1, <1>3
  <2>2. Only(f[k].graph, X)
    BY <2>1, OnlyRound
  <2> QED
    BY <1>0, <2>2
<1> HIDE DEF K
<1>4. Len(a.phases) \in K
  BY <1>0, <1>2, <1>3, HandedOn
<1> QED
  BY <1>1, <1>4 DEF K

\* What is seeded is all phases, or the first ones.
LEMMA FirstOrAll ==
  ASSUME NEW a, AcceptedPolicy(a), NEW unclear \in BOOLEAN, NEW answered \in BOOLEAN
  PROVE  /\ FirstPhases(a, unclear, answered) \in {ActivePhases(a), FirstPhases(a, TRUE, FALSE)}
         /\ (a.lazy \/ unclear) /\ ~answered => FirstPhases(a, unclear, answered) = FirstPhases(a, TRUE, FALSE)
         /\ FirstPhases(a, unclear, answered) \subseteq ActivePhases(a)
<1>1. ToSet(a.initial) \subseteq ActivePhases(a)
  BY DEF AcceptedPolicy, PolicyIsSound, ActivePhases
<1>2. {p \in ActivePhases(a) : \A q \in ActivePhases(a) : ~Before(a, q, p)} \subseteq ActivePhases(a)
  OBVIOUS
<1> QED
  BY <1>1, <1>2 DEF FirstPhases

\* What the first of a unit's new children waits for.
LastOf(g, n) == IF UnitsBelow(g, n) = {} THEN {n} ELSE {NameOf(g[Max(UnitsBelow(g, n))])}

\* Children that callers add: below the unit, each waiting for the one before, or
\* for what it names.
AreChildren(g, n, c) ==
  /\ IsSequence(c)
  /\ \A k \in 1 .. Len(c) : c[k].phase = n[1] /\ c[k].from = "caller" /\ c[k].step # 0 /\ c[k].below = n
  /\ \A k \in 1 .. Len(c) : k = 1 => c[k].own \/ c[k].waits = LastOf(g, n)
  /\ \A k \in 2 .. Len(c) : c[k].own \/ NameOf(c[k - 1]) \in c[k].waits

\* Children are added so.
LEMMA ChildrenAdded ==
  ASSUME NEW g, NEW n, NEW children \in Batches
  PROVE  \E c : Extended(g, n, children) = g \o c /\ AreChildren(g, n, c)
<1>1. PICK size \in 0 .. MaxExtra : children \in [1 .. size -> CallerChildren]
  BY DEF Batches
<1>2. PICK w : w = LastOf(g, n)
  OBVIOUS
<1>3. size \in Nat /\ DOMAIN children = 1 .. size
  BY <1>1
<1> DEFINE c == [k \in 1 .. size |->
                   CallerChild(n, children[k], IF k = 1 THEN w ELSE {<<n[1], "caller", children[k - 1].name>>})]
<1>4. Extended(g, n, children) = g \o c
  BY <1>2, <1>3 DEF Extended, LastOf
<1>5. c = [k \in 1 .. size |-> c[k]] /\ DOMAIN c = 1 .. size
  OBVIOUS
<1>6. ASSUME NEW k \in 1 .. size
      PROVE  /\ c[k].phase = n[1] /\ c[k].from = "caller" /\ c[k].step = children[k].name /\ c[k].below = n
             /\ c[k].own = children[k].own /\ NameOf(c[k]) = <<n[1], "caller", children[k].name>>
             /\ ~c[k].own => c[k].waits = IF k = 1 THEN w ELSE {<<n[1], "caller", children[k - 1].name>>}
  <2>1. PICK v : v = IF k = 1 THEN w ELSE {<<n[1], "caller", children[k - 1].name>>}
    OBVIOUS
  <2>2. c[k] = CallerChild(n, children[k], v)
    BY <2>1
  <2> HIDE DEF c
  <2>3. /\ c[k].phase = n[1] /\ c[k].from = "caller" /\ c[k].step = children[k].name /\ c[k].below = n
        /\ c[k].own = children[k].own /\ (~children[k].own => c[k].waits = v)
        /\ NameOf(c[k]) = <<n[1], "caller", children[k].name>>
    BY <2>2, ChildFields
  <2> QED
    BY <2>1, <2>3
<1> HIDE DEF c
<1>7. IsSequence(c) /\ Len(c) = size
  BY <1>3, <1>5 DEF IsSequence
<1>8. ASSUME NEW k \in 1 .. size PROVE c[k].step # 0
  <2>1. children[k] \in CallerChildren
    BY <1>1
  <2>2. children[k].name \in 1 .. MaxExtra
    BY <2>1 DEF CallerChildren
  <2>3. children[k].name # 0
    BY <2>2
  <2> QED
    BY Zenon, <1>6, <2>3
<1>9. ASSUME NEW k \in 2 .. size, ~c[k].own PROVE NameOf(c[k - 1]) \in c[k].waits
  <2>1. k \in 1 .. size /\ k # 1 /\ k - 1 \in 1 .. size
    BY <1>3
  <2>2. c[k].waits = {<<n[1], "caller", children[k - 1].name>>}
    BY <1>6, <1>9, <2>1
  <2> QED
    BY <1>6, <2>1, <2>2
<1>10. ASSUME NEW k \in 1 .. size, k = 1, ~c[k].own PROVE c[k].waits = LastOf(g, n)
  BY <1>2, <1>6, <1>10
<1>11. AreChildren(g, n, c)
  BY <1>6, <1>7, <1>8, <1>9, <1>10 DEF AreChildren
<1> QED
  BY <1>4, <1>11

\* expand finds a domain that has the unit.
FirstWith(graphs, n) == Outcomes[Min({k \in DOMAIN Outcomes : n \in NamesIn(graphs[Outcomes[k]])})]

\* Where a domain has the unit, the first one found has it.
LEMMA FirstFound ==
  ASSUME NEW graphs, DOMAIN graphs = ToSet(Outcomes), NEW n, \E d \in DOMAIN graphs : n \in NamesIn(graphs[d])
  PROVE  FirstWith(graphs, n) \in DOMAIN graphs /\ n \in NamesIn(graphs[FirstWith(graphs, n)])
<1> DEFINE T == {k \in DOMAIN Outcomes : n \in NamesIn(graphs[Outcomes[k]])}
<1>1. DOMAIN Outcomes = 1 .. Len(Outcomes) /\ Len(Outcomes) \in Nat
  BY PhasesAssumption DEF PhasesAssumption, IsSequence
<1>2. T \subseteq Nat
  BY <1>1
<1>3. T # {}
  BY DEF ToSet
<1>4. \A k \in T : k \in DOMAIN Outcomes /\ n \in NamesIn(graphs[Outcomes[k]])
  OBVIOUS
<1>5. FirstWith(graphs, n) = Outcomes[Min(T)]
  BY DEF FirstWith
<1> HIDE DEF T
<1>6. \E x \in T : \A y \in T : x <= y
  BY <1>2, <1>3, LeastNumber
<1>7. Min(T) \in T
  BY Zenon, <1>6 DEF Min
<1> QED
  BY <1>4, <1>5, <1>7 DEF ToSet

-----------------------------------------------------------------------------
(* Phases: what the rounds of materialize keep *)

\* A graph whose units have their roots, and whose roots have their steps.
Rooted(a, g) ==
  /\ IsSequence(g)
  /\ \A i \in DOMAIN g : g[i].phase \in ActivePhases(a) /\ IsThere(g, g[i].phase)
  /\ \A p \in ActivePhases(a) : IsThere(g, p) => StepsIn(g, p) # {}
  /\ Placed(g)

\* A phase that is there comes with those before it.
NoneMissing(a, g) == \A p, q \in ActivePhases(a) : Before(a, p, q) /\ IsThere(g, q) => IsThere(g, p)

\* A graph in order: every phase there behind the one before it.
Chained(a, g) == Rooted(a, g) /\ NoneMissing(a, g) /\ Linked(a, g)

\* No phase behind this one is there.
NoLater(a, g, p) == \A q \in ActivePhases(a) : Before(a, p, q) => ~IsThere(g, q)

\* A chain in a phase that is there.
LEMMA ChainKeeps ==
  ASSUME NEW a, AcceptedPolicy(a), NEW g, Chained(a, g), NEW p, IsThere(g, p), NEW c, IsChain(c, p),
         \A k \in DOMAIN c : k = 1 => c[k].own \/ Anchor(g, p) \subseteq c[k].waits,
         NoLater(a, g, p) \/ \A k \in DOMAIN c : c[k].from = "caller"
  PROVE  Chained(a, g \o c) /\ \A q : IsThere(g \o c, q) <=> IsThere(g, q)
<1>1. Len(g) \in Nat /\ Len(c) \in Nat /\ IsSequence(g) /\ IsSequence(c)
  BY DEF IsSequence, Chained, Rooted, IsChain
<1>2. /\ IsSequence(g \o c)
      /\ \A i \in 1 .. Len(g) : (g \o c)[i] = g[i]
      /\ \A i \in 1 .. Len(c) : (g \o c)[Len(g) + i] = c[i]
      /\ DOMAIN g = 1 .. Len(g) /\ DOMAIN c = 1 .. Len(c) /\ DOMAIN (g \o c) = 1 .. Len(g) + Len(c)
  BY <1>1, Longer
<1>3. p \in ActivePhases(a) /\ StepsIn(g, p) # {}
  BY ThereHasUnit DEF Chained, Rooted
<1>4. ASSUME NEW q PROVE IsThere(g \o c, q) <=> IsThere(g, q)
  <2>1. ~IsThere(c, q)
    BY <1>2, ThereHasUnit DEF IsChain
  <2> QED
    BY <1>1, <2>1, RootsOfLonger
<1>5. ASSUME NEW q PROVE StepsIn(g, q) \subseteq StepsIn(g \o c, q)
  BY <1>1, StepsOfLonger
<1>6. ASSUME NEW j \in DOMAIN (g \o c)
      PROVE  (g \o c)[j].phase \in ActivePhases(a) /\ IsThere(g \o c, (g \o c)[j].phase)
  <2>1. CASE j \in 1 .. Len(g)
    BY <1>2, <1>4, <2>1 DEF Chained, Rooted
  <2>2. CASE j \notin 1 .. Len(g)
    <3>1. j - Len(g) \in 1 .. Len(c) /\ j = Len(g) + (j - Len(g))
      BY <1>1, <1>2, <2>2
    <3>2. (g \o c)[j] = c[j - Len(g)]
      BY <1>2, <3>1
    <3>3. (g \o c)[j].phase = p
      BY <3>1, <3>2 DEF IsChain
    <3> QED
      BY <1>3, <1>4, <3>3
  <2> QED
    BY <2>1, <2>2
<1>7. \A q \in ActivePhases(a) : IsThere(g \o c, q) => StepsIn(g \o c, q) # {}
  <2>1. \A q \in ActivePhases(a) : IsThere(g, q) => StepsIn(g, q) # {}
    BY DEF Chained, Rooted
  <2> QED
    BY <1>4, <1>5, <2>1
<1>8. Rooted(a, g \o c)
  <2>1. Placed(g \o c)
    BY <1>1, ChainPlaced, PlacedLonger DEF Chained, Rooted
  <2> QED
    BY <1>2, <1>6, <1>7, <2>1 DEF Rooted
<1>9. NoneMissing(a, g \o c)
  BY <1>4 DEF Chained, NoneMissing
<1>10. ~Nearest(a, p, p)
  BY PolicyFacts, OrderOfPhases DEF Nearest
<1>11. NoLater(a, g, p) => \A j \in DOMAIN g : ~Nearest(a, p, g[j].phase)
  BY DEF NoLater, Nearest, Chained, Rooted
<1>12. Linked(a, g \o c)
  BY <1>1, <1>3, <1>10, <1>11, ChainKeepsLinks DEF Chained
<1> QED
  BY <1>4, <1>8, <1>9, <1>12 DEF Chained

\* Children of a unit that is no root: they wait for units of its phase.
LEMMA InnersKeep ==
  ASSUME NEW a, NEW g, Chained(a, g), NEW n \in NamesIn(g), \A p : n # RootOf(p), NEW c, AreChildren(g, n, c)
  PROVE  Chained(a, g \o c) /\ \A q : IsThere(g \o c, q) <=> IsThere(g, q)
<1>1. Len(g) \in Nat /\ Len(c) \in Nat /\ IsSequence(g) /\ IsSequence(c) /\ Placed(g)
  BY DEF IsSequence, Chained, Rooted, AreChildren
<1>2. /\ IsSequence(g \o c)
      /\ \A i \in 1 .. Len(g) : (g \o c)[i] = g[i]
      /\ \A i \in 1 .. Len(c) : (g \o c)[Len(g) + i] = c[i]
      /\ DOMAIN g = 1 .. Len(g) /\ DOMAIN c = 1 .. Len(c) /\ DOMAIN (g \o c) = 1 .. Len(g) + Len(c)
  BY <1>1, Longer
<1>3. PICK k0 \in 1 .. Len(g) : NameOf(g[k0]) = n
  BY <1>2 DEF NamesIn
<1>4. g[k0].below # <<>> /\ g[k0].phase = n[1] /\ n # <<>>
  <2>1. g[k0].below # <<>>
    BY <1>1, <1>2, <1>3 DEF Placed, IsPlaced
  <2>2. n[1] = g[k0].phase
    BY <1>3 DEF NameOf
  <2>3. n # <<>>
    <3>1. Len(n) = 3 /\ Len(<<>>) = 0
      BY <1>3 DEF NameOf
    <3> QED
      BY <3>1
  <2> QED
    BY <2>1, <2>2, <2>3
<1>5. \A k \in 1 .. Len(c) : c[k].phase = n[1] /\ c[k].from = "caller" /\ c[k].step # 0 /\ c[k].below = n
  BY DEF AreChildren
<1>6. \A q : StepsIn(c, q) = {}
  BY <1>2, <1>5 DEF StepsIn
<1>7. PICK k1 \in 1 .. Len(g) : LastOf(g, n) = {NameOf(g[k1])} /\ g[k1].phase = n[1] /\ g[k1].below # <<>>
  <2>1. CASE UnitsBelow(g, n) = {}
    BY <1>3, <1>4, <2>1 DEF LastOf
  <2>2. CASE UnitsBelow(g, n) # {}
    <3>1. UnitsBelow(g, n) \subseteq 1 .. Len(g)
      BY <1>2 DEF UnitsBelow
    <3>2. \E x \in UnitsBelow(g, n) : \A y \in UnitsBelow(g, n) : y <= x
      BY <1>1, <2>2, <3>1, GreatestNumber
    <3>3. \E x \in UnitsBelow(g, n) : \A y \in UnitsBelow(g, n) : x >= y
      BY <1>1, <3>1, <3>2
    <3>4. PICK m : m = Max(UnitsBelow(g, n))
      OBVIOUS
    <3>5. m \in UnitsBelow(g, n)
      BY Zenon, <3>3, <3>4 DEF Max
    <3>6. m \in 1 .. Len(g) /\ g[m].below = n
      BY <1>2, <3>5 DEF UnitsBelow
    <3>7. g[m].phase = n[1]
      BY <1>1, <1>2, <1>4, <3>6 DEF Placed, IsPlaced
    <3>8. LastOf(g, n) = {NameOf(g[m])}
      BY Zenon, <2>2, <3>4 DEF LastOf
    <3> QED
      BY <1>4, <3>6, <3>7, <3>8
  <2> QED
    BY <2>1, <2>2
<1>8. ASSUME NEW k \in 1 .. Len(c) PROVE c[k].own \/ Inner(g \o c, Len(g) + k)
  <2>1. /\ (g \o c)[Len(g) + k] = c[k] /\ Len(g) + k \in Nat
        /\ Len(g) + k \notin StepsIn(g \o c, c[k].phase)
    BY <1>1, <1>2, <1>5 DEF StepsIn
  <2>2. CASE k = 1 /\ ~c[k].own
    <3>1. NameOf(g[k1]) \in c[k].waits
      BY <1>7, <2>2 DEF AreChildren
    <3>2. k1 \in 1 .. Len(g) + Len(c) /\ k1 < Len(g) + k /\ (g \o c)[k1] = g[k1]
      BY <1>1, <1>2
    <3> QED
      BY <1>2, <1>5, <1>7, <2>1, <3>1, <3>2 DEF Inner
  <2>3. CASE k # 1 /\ ~c[k].own
    <3>1. k \in 2 .. Len(c) /\ k - 1 \in 1 .. Len(c)
      BY <1>1, <2>3
    <3>2. NameOf(c[k - 1]) \in c[k].waits
      BY <2>3, <3>1 DEF AreChildren
    <3>3. /\ Len(g) + (k - 1) \in 1 .. Len(g) + Len(c) /\ Len(g) + (k - 1) < Len(g) + k
          /\ (g \o c)[Len(g) + (k - 1)] = c[k - 1]
      BY <1>1, <1>2, <3>1
    <3> QED
      BY <1>2, <1>4, <1>5, <2>1, <3>1, <3>2, <3>3 DEF Inner
  <2> QED
    BY <2>2, <2>3
<1>9. Linked(a, g \o c) /\ \A q : StepsIn(g \o c, q) = StepsIn(g, q)
  BY <1>1, <1>6, <1>8, OthersKeepLinks DEF Chained
<1>10. ASSUME NEW q PROVE IsThere(g \o c, q) <=> IsThere(g, q)
  <2>1. ~IsThere(c, q)
    BY <1>2, <1>5, ThereHasUnit
  <2> QED
    BY <1>1, <2>1, RootsOfLonger
<1>11. ASSUME NEW j \in 1 .. Len(g) + Len(c)
       PROVE  (g \o c)[j].phase \in ActivePhases(a) /\ IsThere(g \o c, (g \o c)[j].phase)
  <2>1. CASE j \in 1 .. Len(g)
    BY <1>2, <1>10, <2>1 DEF Chained, Rooted
  <2>2. CASE j \notin 1 .. Len(g)
    <3>1. j - Len(g) \in 1 .. Len(c) /\ j = Len(g) + (j - Len(g))
      BY <1>1, <2>2
    <3>2. (g \o c)[j] = c[j - Len(g)]
      BY <1>2, <3>1
    <3>3. (g \o c)[j].phase = g[k0].phase
      BY <1>4, <1>5, <3>1, <3>2
    <3> QED
      BY <1>2, <1>10, <3>3 DEF Chained, Rooted
  <2> QED
    BY <2>1, <2>2
<1>12. Placed(g \o c)
  <2>1. Placed(c)
    BY <1>2, <1>4, <1>5 DEF Placed, IsPlaced
  <2> QED
    BY <1>1, <2>1, PlacedLonger
<1>13. Rooted(a, g \o c)
  BY <1>2, <1>9, <1>10, <1>11, <1>12 DEF Chained, Rooted
<1>14. NoneMissing(a, g \o c)
  BY <1>10 DEF Chained, NoneMissing
<1> QED
  BY <1>9, <1>10, <1>13, <1>14 DEF Chained

\* The last step of a chain anchors what comes next.
LEMMA AnchorOfLonger ==
  ASSUME NEW g, IsSequence(g), NEW p, NEW c, IsChain(c, p), Len(c) # 0
  PROVE  Anchor(g \o c, p) = {NameOf(c[Len(c)])}
<1>1. Len(g) \in Nat /\ Len(c) \in Nat /\ IsSequence(c)
  BY DEF IsSequence, IsChain
<1>2. /\ IsSequence(g \o c)
      /\ \A i \in 1 .. Len(c) : (g \o c)[Len(g) + i] = c[i]
      /\ DOMAIN (g \o c) = 1 .. Len(g) + Len(c) /\ DOMAIN c = 1 .. Len(c)
  BY <1>1, Longer
<1>3. Len(c) \in 1 .. Len(c)
  BY <1>1
<1>4. Len(c) \in StepsIn(c, p)
  BY <1>2, <1>3 DEF IsChain, StepsIn
<1>5. Len(g) + Len(c) \in StepsIn(g \o c, p)
  BY <1>1, <1>3, <1>4, StepsOfLonger
<1>6. \A m \in StepsIn(g \o c, p) : m <= Len(g) + Len(c)
  BY <1>1, <1>2 DEF StepsIn
<1>7. Anchor(g \o c, p) = {NameOf((g \o c)[Len(g) + Len(c)])}
  BY <1>2, <1>5, <1>6, LastIsAnchor DEF IsLast
<1> QED
  BY <1>2, <1>3, <1>7

\* A new phase behind those before it.
LEMMA NewPhaseKeeps ==
  ASSUME NEW a, AcceptedPolicy(a), NEW so, Chained(a, so.graph), NEW p \in ActivePhases(a), ~IsThere(so.graph, p),
         \A q \in ActivePhases(a) : Before(a, q, p) => IsThere(so.graph, q),
         \A q : Nearest(a, q, p) => so.leaf = Anchor(so.graph, q)
  PROVE  /\ Chained(a, NewPhase(so, p)) /\ NoLater(a, NewPhase(so, p), p)
         /\ \A q : IsThere(NewPhase(so, p), q) <=> IsThere(so.graph, q) \/ q = p
         /\ Anchor(NewPhase(so, p), p) = {<<p, p, StepsOf[p]>>}
<1>1. PICK g : g = so.graph
  OBVIOUS
<1>2. PICK u : u = PhaseRoot(p, so.root)
  OBVIOUS
<1>3. PICK c : c = ChainOf(p, p, so.leaf)
  OBVIOUS
<1>4. PICK g1 : g1 = g \o <<u>>
  OBVIOUS
<1>5. Chained(a, g) /\ IsSequence(g) /\ Len(g) \in Nat
  BY <1>1 DEF Chained, Rooted, IsSequence
<1>6. Append(g, u) = g1 /\ IsSequence(<<u>>) /\ Len(<<u>>) = 1 /\ <<u>>[1] = u
  BY <1>4, <1>5, OneMore
<1>7. u.phase = p /\ u.below = <<>> /\ NameOf(u) = RootOf(p)
  BY <1>2, RootFields
<1>8. p \in PhaseNames
  BY PolicyFacts
<1>9. /\ IsChain(c, p) /\ Len(c) = StepsOf[p] /\ StepsOf[p] \in Nat \ {0} /\ c[1].waits = so.leaf
      /\ NameOf(c[StepsOf[p]]) = <<p, p, StepsOf[p]>> /\ IsSequence(c)
  BY <1>3, <1>8, ChainOfIsChain DEF IsChain
<1>10. NewPhase(so, p) = g1 \o c
  BY Zenon, <1>1, <1>2, <1>3, <1>6 DEF NewPhase
<1>11. /\ IsSequence(g1) /\ Len(g1) = Len(g) + 1
       /\ \A i \in 1 .. Len(g) : g1[i] = g[i]
       /\ g1[Len(g) + 1] = u
       /\ DOMAIN g = 1 .. Len(g) /\ DOMAIN g1 = 1 .. Len(g) + 1
  <2>1. 1 \in 1 .. Len(<<u>>)
    BY <1>6
  <2> QED
    BY <1>4, <1>5, <1>6, <2>1, Longer
<1>12. Linked(a, g1) /\ \A q : StepsIn(g1, q) = StepsIn(g, q)
  <2>1. \A k \in 1 .. Len(<<u>>) : <<u>>[k].below = <<>>
    BY <1>6, <1>7
  <2>2. DOMAIN <<u>> = 1 .. Len(<<u>>)
    BY <1>6 DEF IsSequence
  <2>3. \A q : StepsIn(<<u>>, q) = {}
    BY <2>1, <2>2, RootNames DEF StepsIn
  <2> QED
    BY <1>4, <1>5, <1>6, <2>1, <2>3, OthersKeepLinks DEF Chained
<1>13. ASSUME NEW q PROVE IsThere(g1, q) <=> IsThere(g, q) \/ q = p
  <2>1. IsThere(<<u>>, q) <=> q = p
    <3>1. NamesIn(<<u>>) = {NameOf(u)}
      BY <1>6 DEF NamesIn
    <3> QED
      BY <1>7, <3>1 DEF IsThere, RootOf
  <2> QED
    BY <1>4, <1>5, <1>6, <2>1, RootsOfLonger
<1>14. ASSUME NEW q PROVE IsThere(g1 \o c, q) <=> IsThere(g, q) \/ q = p
  <2>1. ~IsThere(c, q)
    BY <1>9, ThereHasUnit DEF IsChain, IsSequence
  <2> QED
    BY <1>9, <1>11, <1>13, <2>1, RootsOfLonger
<1>15. StepsIn(g, p) = {}
  BY <1>1, <1>5, StepsArePlaced DEF Chained, Rooted
<1>16. NoLater(a, g, p)
  BY <1>1, <1>5 DEF NoLater, Chained, NoneMissing
<1>17. ~Nearest(a, p, p) /\ ~Before(a, p, p)
  BY PolicyFacts, OrderOfPhases DEF Nearest
<1>18. Linked(a, g1 \o c)
  <2>1. ASSUME NEW q, Nearest(a, q, p)
        PROVE  StepsIn(g1, q) # {} /\ \A k \in DOMAIN c : k = 1 => Anchor(g1, q) \subseteq c[k].waits
    <3>1. q \in ActivePhases(a) /\ StepsIn(g, q) # {}
      BY <1>1, <1>5, <2>1 DEF Chained, Rooted, Nearest, Before
    <3>2. PICK i : IsLast(g, q, i)
      BY <1>5, <3>1, LastExists
    <3>3. IsLast(g1, q, i) /\ g1[i] = g[i]
      BY <1>11, <1>12, <3>2 DEF IsLast, StepsIn
    <3>4. Anchor(g1, q) = Anchor(g, q)
      <4>1. Anchor(g1, q) = {NameOf(g1[i])}
        BY <1>11, <3>3, LastIsAnchor
      <4>2. Anchor(g, q) = {NameOf(g[i])}
        BY <1>5, <3>2, LastIsAnchor
      <4> QED
        BY Zenon, <3>3, <4>1, <4>2
    <3> QED
      BY <1>1, <1>9, <1>12, <2>1, <3>1, <3>4
  <2>2. \A j \in DOMAIN g1 : ~Nearest(a, p, g1[j].phase)
    <3>1. ASSUME NEW j \in 1 .. Len(g) + 1 PROVE ~Nearest(a, p, g1[j].phase)
      <4>1. CASE j \in 1 .. Len(g)
        BY <1>5, <1>11, <1>16, <4>1 DEF NoLater, Nearest, Chained, Rooted
      <4>2. CASE j = Len(g) + 1
        BY <1>7, <1>11, <1>17, <4>2
      <4> QED
        BY <1>5, <4>1, <4>2
    <3> QED
      BY <1>11, <3>1
  <2> QED
    BY <1>9, <1>11, <1>12, <1>15, <1>17, <2>1, <2>2, ChainKeepsLinks
<1>19. /\ IsSequence(g1 \o c)
       /\ \A i \in 1 .. Len(g1) : (g1 \o c)[i] = g1[i]
       /\ \A i \in 1 .. Len(c) : (g1 \o c)[Len(g1) + i] = c[i]
       /\ DOMAIN (g1 \o c) = 1 .. Len(g1) + Len(c) /\ Len(g1) \in Nat /\ Len(c) \in Nat /\ DOMAIN c = 1 .. Len(c)
  <2>1. IsSequence(g1) /\ IsSequence(c)
    BY <1>9, <1>11
  <2>2. Len(g1) \in Nat /\ Len(c) \in Nat
    BY <2>1 DEF IsSequence
  <2>3. DOMAIN (g1 \o c) = 1 .. Len(g1) + Len(c) /\ DOMAIN c = 1 .. Len(c) /\ IsSequence(g1 \o c)
    BY <2>1, Longer
  <2>4. /\ \A i \in 1 .. Len(g1) : (g1 \o c)[i] = g1[i]
        /\ \A i \in 1 .. Len(c) : (g1 \o c)[Len(g1) + i] = c[i]
    BY <2>1, Longer
  <2> QED
    BY <2>2, <2>3, <2>4
<1>20. ASSUME NEW j \in DOMAIN (g1 \o c)
       PROVE  (g1 \o c)[j].phase \in ActivePhases(a) /\ IsThere(g1 \o c, (g1 \o c)[j].phase)
  <2>1. CASE j \in 1 .. Len(g)
    <3>1. (g1 \o c)[j] = g[j]
      BY <1>5, <1>11, <1>19, <2>1
    <3> QED
      BY <1>5, <1>11, <1>14, <2>1, <3>1 DEF Chained, Rooted
  <2>2. CASE j = Len(g) + 1
    <3>1. (g1 \o c)[j] = u
      BY <1>5, <1>11, <1>19, <2>2
    <3> QED
      BY <1>7, <1>14, <3>1
  <2>3. CASE j \notin 1 .. Len(g) + 1
    <3>1. j - Len(g1) \in 1 .. Len(c) /\ j = Len(g1) + (j - Len(g1))
      BY <1>11, <1>19, <2>3
    <3>2. (g1 \o c)[j] = c[j - Len(g1)]
      BY <1>19, <3>1
    <3>3. (g1 \o c)[j].phase = p
      BY <1>9, <3>1, <3>2 DEF IsChain
    <3> QED
      BY <1>14, <3>3
  <2>4. j \in 1 .. Len(g) \/ j = Len(g) + 1 \/ j \notin 1 .. Len(g) + 1
    BY <1>5
  <2> QED
    BY <2>1, <2>2, <2>3, <2>4
<1>21. ASSUME NEW q \in ActivePhases(a), IsThere(g1 \o c, q) PROVE StepsIn(g1 \o c, q) # {}
  <2>1. CASE q = p
    <3>1. 1 \in 1 .. Len(c) /\ 1 \in StepsIn(c, p)
      BY <1>9, <1>19 DEF IsChain, StepsIn
    <3>2. Len(g1) + 1 \in StepsIn(g1 \o c, p)
      BY <1>9, <1>11, <3>1, StepsOfLonger
    <3> QED
      BY <2>1, <3>2
  <2>2. CASE q # p
    <3>1. StepsIn(g1, q) # {}
      BY <1>5, <1>12, <1>14, <1>21, <2>2 DEF Chained, Rooted
    <3>2. StepsIn(g1, q) \subseteq StepsIn(g1 \o c, q)
      BY <1>9, <1>11, StepsOfLonger
    <3> QED
      BY <3>1, <3>2
  <2> QED
    BY <2>1, <2>2
<1>22. Rooted(a, g1 \o c)
  <2>1. Placed(<<u>>)
    BY <1>6, <1>7 DEF IsSequence, Placed, IsPlaced
  <2>2. Placed(g1)
    BY <1>4, <1>5, <1>6, <2>1, PlacedLonger DEF Chained, Rooted
  <2>3. Placed(g1 \o c)
    BY <1>9, <1>11, <2>2, ChainPlaced, PlacedLonger
  <2> QED
    BY <1>19, <1>20, <1>21, <2>3 DEF Rooted
<1>23. NoneMissing(a, g1 \o c)
  BY <1>1, <1>5, <1>14 DEF NoneMissing, Chained
<1>24. NoLater(a, g1 \o c, p)
  BY <1>14, <1>16, <1>17 DEF NoLater
<1>25. Anchor(g1 \o c, p) = {<<p, p, StepsOf[p]>>}
  BY <1>9, <1>11, AnchorOfLonger
<1> QED
  BY <1>1, <1>10, <1>14, <1>18, <1>22, <1>23, <1>24, <1>25 DEF Chained

\* A folded phase's steps are there; where their phase is, all are.
FoldIsThere(g, f) == \E i \in DOMAIN g : g[i].phase = f[2] /\ g[i].from = f[1]
FoldsThere(a, g) == \A m \in DOMAIN a.fold : IsThere(g, a.fold[m][2]) => FoldIsThere(g, a.fold[m])

\* A fold that is there stays.
LEMMA FoldsLonger ==
  ASSUME NEW g, NEW c, IsSequence(g), IsSequence(c), NEW f
  PROVE  FoldIsThere(g, f) => FoldIsThere(g \o c, f)
<1>1. /\ \A i \in 1 .. Len(g) : (g \o c)[i] = g[i]
      /\ DOMAIN g = 1 .. Len(g) /\ DOMAIN (g \o c) = 1 .. Len(g) + Len(c)
  BY Longer
<1>2. \A i \in 1 .. Len(g) : i \in 1 .. Len(g) + Len(c)
  BY DEF IsSequence
<1> QED
  BY <1>1, <1>2 DEF FoldIsThere

\* A round of AllFolded: it adds the steps of a fold behind the phase, unless
\* they are there.
LEMMA FoldKeeps ==
  ASSUME NEW a, AcceptedPolicy(a), NEW so, Chained(a, so.graph), NEW p, IsThere(so.graph, p),
         so.leaf = Anchor(so.graph, p), NEW x, x[1] \in PhaseNames, NEW to, to = AddFolded(so, p, x),
         NoLater(a, so.graph, p) \/ (x[2] = p => FoldIsThere(so.graph, x))
  PROVE  /\ Chained(a, to.graph) /\ to.leaf = Anchor(to.graph, p)
         /\ \A q : IsThere(to.graph, q) <=> IsThere(so.graph, q)
         /\ \A f : FoldIsThere(so.graph, f) => FoldIsThere(to.graph, f)
         /\ x[2] = p => FoldIsThere(to.graph, x)
<1>1. CASE x[2] # p \/ FoldIsThere(so.graph, x)
  <2>1. to = so
    <3>1. CASE x[2] # p
      BY Zenon, <3>1 DEF AddFolded
    <3>2. CASE x[2] = p /\ FoldIsThere(so.graph, x)
      <4>1. \E i \in DOMAIN so.graph : so.graph[i].phase = p /\ so.graph[i].from = x[1]
        BY <3>2 DEF FoldIsThere
      <4> QED
        BY Zenon, <4>1 DEF AddFolded
    <3> QED
      BY <1>1, <3>1, <3>2
  <2> QED
    BY <1>1, <2>1
<1>2. CASE x[2] = p /\ ~FoldIsThere(so.graph, x)
  <2>1. ~ \E i \in DOMAIN so.graph : so.graph[i].phase = p /\ so.graph[i].from = x[1]
    BY <1>2 DEF FoldIsThere
  <2>2. to = WithSteps(so, p, x[1])
    BY Zenon, <1>2, <2>1 DEF AddFolded
  <2>3. PICK c : c = ChainOf(p, x[1], so.leaf)
    OBVIOUS
  <2>4. to.graph = so.graph \o c /\ to.leaf = {<<p, x[1], StepsOf[p]>>}
    <3>1. PICK y : y = x[1]
      OBVIOUS
    <3>2. /\ WithSteps(so, p, y).graph = so.graph \o ChainOf(p, y, so.leaf)
          /\ WithSteps(so, p, y).leaf = {<<p, y, StepsOf[p]>>}
      BY StepsAdded
    <3> QED
      BY Zenon, <2>2, <2>3, <3>1, <3>2
  <2>5. IsSequence(so.graph) /\ p \in PhaseNames
    <3>1. p \in ActivePhases(a) /\ IsSequence(so.graph)
      BY ThereHasUnit DEF Chained, Rooted
    <3> QED
      BY <3>1, PolicyFacts
  <2>6. /\ IsChain(c, p) /\ Len(c) = StepsOf[p] /\ StepsOf[p] \in Nat \ {0} /\ c[1].waits = so.leaf
        /\ NameOf(c[StepsOf[p]]) = <<p, x[1], StepsOf[p]>>
        /\ \A m \in 1 .. StepsOf[p] : c[m].from = x[1]
    BY <2>3, <2>5, ChainOfIsChain
  <2>7. NoLater(a, so.graph, p)
    BY <1>2
  <2>8. Chained(a, so.graph \o c) /\ \A q : IsThere(so.graph \o c, q) <=> IsThere(so.graph, q)
    BY <2>6, <2>7, ChainKeeps
  <2>9. Anchor(so.graph \o c, p) = {<<p, x[1], StepsOf[p]>>}
    BY <2>5, <2>6, AnchorOfLonger
  <2>10. IsSequence(c)
    BY <2>6 DEF IsChain
  <2>11. \A f : FoldIsThere(so.graph, f) => FoldIsThere(so.graph \o c, f)
    BY <2>5, <2>10, FoldsLonger
  <2>12. FoldIsThere(so.graph \o c, x)
    <3>1. 1 \in 1 .. Len(c) /\ 1 \in 1 .. StepsOf[p] /\ Len(so.graph) \in Nat /\ Len(c) \in Nat
      BY <2>5, <2>6 DEF IsSequence
    <3>2. (so.graph \o c)[Len(so.graph) + 1] = c[1] /\ DOMAIN (so.graph \o c) = 1 .. Len(so.graph) + Len(c)
      BY <2>5, <2>10, <3>1, Longer
    <3>3. c[1].phase = p /\ c[1].from = x[1]
      BY <2>6, <3>1 DEF IsChain
    <3>4. Len(so.graph) + 1 \in 1 .. Len(so.graph) + Len(c)
      BY <2>6, <3>1
    <3> QED
      BY <1>2, <3>2, <3>3, <3>4 DEF FoldIsThere
  <2> QED
    BY Zenon, <2>4, <2>8, <2>9, <2>11, <2>12
<1> QED
  BY <1>1, <1>2

\* AllFolded keeps a graph in order where the phase is the last one there, or has
\* all its folds, and leaves the anchor of the phase as the leaf.
LEMMA FoldedKeeps ==
  ASSUME NEW a, AcceptedPolicy(a), NEW so, Chained(a, so.graph), NEW p, IsThere(so.graph, p),
         so.leaf = Anchor(so.graph, p), NEW to, to = AllFolded(a, p, so),
         \A m \in 1 .. Len(a.fold) :
           IsThere(so.graph, a.fold[m][2]) /\ a.fold[m][2] # p => FoldIsThere(so.graph, a.fold[m]),
         \/ NoLater(a, so.graph, p)
         \/ \A m \in 1 .. Len(a.fold) : a.fold[m][2] = p => FoldIsThere(so.graph, a.fold[m])
  PROVE  /\ Chained(a, to.graph) /\ to.leaf = Anchor(to.graph, p) /\ FoldsThere(a, to.graph)
         /\ \A q : IsThere(to.graph, q) <=> IsThere(so.graph, q)
<1>0. IsSequence(a.fold) /\ Len(a.fold) \in Nat /\ DOMAIN a.fold = 1 .. Len(a.fold)
  BY PolicyFacts DEF IsSequence
<1>1. PICK f : /\ f[0] = so
               /\ \A k \in 1 .. Len(a.fold) : f[k] = AddFolded(f[k - 1], p, a.fold[k])
               /\ AllFolded(a, p, so) = f[Len(a.fold)]
  BY <1>0, FoldingSteps
<1> DEFINE Fine(k) ==
             /\ Chained(a, f[k].graph) /\ f[k].leaf = Anchor(f[k].graph, p)
             /\ \A q : IsThere(f[k].graph, q) <=> IsThere(so.graph, q)
             /\ \A g : FoldIsThere(so.graph, g) => FoldIsThere(f[k].graph, g)
             /\ \A m \in 1 .. k : a.fold[m][2] = p => FoldIsThere(f[k].graph, a.fold[m])
           K == {k \in 0 .. Len(a.fold) : Fine(k)}
<1>2. 0 \in K
  <2>1. Fine(0)
    BY <1>1
  <2> HIDE DEF Fine
  <2> QED
    BY <1>0, <2>1
<1>3. ASSUME NEW k \in 1 .. Len(a.fold), k - 1 \in K PROVE k \in K
  <2>1. Fine(k - 1)
    BY <1>3
  <2>2. f[k] = AddFolded(f[k - 1], p, a.fold[k])
    BY <1>1
  <2>3. NoLater(a, f[k - 1].graph, p) \/ (a.fold[k][2] = p => FoldIsThere(f[k - 1].graph, a.fold[k]))
    BY <2>1 DEF NoLater
  <2>4. /\ Chained(a, f[k].graph) /\ f[k].leaf = Anchor(f[k].graph, p)
        /\ \A q : IsThere(f[k].graph, q) <=> IsThere(f[k - 1].graph, q)
        /\ \A g : FoldIsThere(f[k - 1].graph, g) => FoldIsThere(f[k].graph, g)
        /\ a.fold[k][2] = p => FoldIsThere(f[k].graph, a.fold[k])
    <3>1. /\ Chained(a, f[k - 1].graph) /\ f[k - 1].leaf = Anchor(f[k - 1].graph, p)
          /\ IsThere(f[k - 1].graph, p)
      BY <2>1
    <3> HIDE DEF Fine
    <3>2. PICK s, t, y : s = f[k - 1] /\ t = f[k] /\ y = a.fold[k]
      OBVIOUS
    <3>3. /\ Chained(a, s.graph) /\ s.leaf = Anchor(s.graph, p) /\ IsThere(s.graph, p)
          /\ t = AddFolded(s, p, y) /\ y[1] \in PhaseNames
          /\ NoLater(a, s.graph, p) \/ (y[2] = p => FoldIsThere(s.graph, y))
      BY Zenon, <2>2, <2>3, <3>1, <3>2, PolicyFacts
    <3>4. /\ Chained(a, t.graph) /\ t.leaf = Anchor(t.graph, p)
          /\ \A q : IsThere(t.graph, q) <=> IsThere(s.graph, q)
          /\ \A g : FoldIsThere(s.graph, g) => FoldIsThere(t.graph, g)
          /\ y[2] = p => FoldIsThere(t.graph, y)
      <4>1. Chained(a, t.graph)
        BY <3>3, FoldKeeps
      <4>2. t.leaf = Anchor(t.graph, p)
        BY <3>3, FoldKeeps
      <4>3. \A q : IsThere(t.graph, q) <=> IsThere(s.graph, q)
        BY <3>3, FoldKeeps
      <4>4. \A g : FoldIsThere(s.graph, g) => FoldIsThere(t.graph, g)
        BY <3>3, FoldKeeps
      <4>5. y[2] = p => FoldIsThere(t.graph, y)
        BY <3>3, FoldKeeps
      <4> QED
        BY <4>1, <4>2, <4>3, <4>4, <4>5
    <3> QED
      BY Zenon, <3>2, <3>4
  <2>5. ASSUME NEW m \in 1 .. k, a.fold[m][2] = p PROVE FoldIsThere(f[k].graph, a.fold[m])
    <3>1. m = k \/ m \in 1 .. k - 1
      BY <1>0
    <3> QED
      BY <2>1, <2>4, <2>5, <3>1
  <2>6. Fine(k)
    BY Zenon, <2>1, <2>4, <2>5
  <2> HIDE DEF Fine
  <2> QED
    BY <1>0, <2>6
<1> HIDE DEF K
<1>4. Len(a.fold) \in K
  BY <1>0, <1>2, <1>3, HandedOn
<1>5. Fine(Len(a.fold)) /\ to = f[Len(a.fold)]
  BY <1>1, <1>4 DEF K
<1>6. ASSUME NEW m \in DOMAIN a.fold, IsThere(to.graph, a.fold[m][2]) PROVE FoldIsThere(to.graph, a.fold[m])
  <2>1. CASE a.fold[m][2] = p
    BY <1>0, <1>5, <2>1
  <2>2. CASE a.fold[m][2] # p
    BY <1>0, <1>5, <1>6, <2>2
  <2> QED
    BY <2>1, <2>2
<1> QED
  BY <1>5, <1>6 DEF FoldsThere

\* A fold that is there stays when a phase is added.
LEMMA NewPhaseFolds ==
  ASSUME NEW so, IsSequence(so.graph), NEW p \in PhaseNames, NEW f, FoldIsThere(so.graph, f)
  PROVE  FoldIsThere(NewPhase(so, p), f)
<1>1. PICK u : u = PhaseRoot(p, so.root)
  OBVIOUS
<1>2. Append(so.graph, u) = so.graph \o <<u>> /\ IsSequence(<<u>>)
  BY OneMore
<1>3. IsSequence(so.graph \o <<u>>) /\ FoldIsThere(so.graph \o <<u>>, f)
  BY <1>2, FoldsLonger, Longer
<1>4. IsSequence(ChainOf(p, p, so.leaf))
  BY ChainOfIsChain DEF IsChain
<1>5. FoldIsThere((so.graph \o <<u>>) \o ChainOf(p, p, so.leaf), f)
  BY <1>3, <1>4, FoldsLonger
<1> QED
  BY Zenon, <1>1, <1>2, <1>5 DEF NewPhase

\* The leaf is the anchor of the last phase there.
LeafFits(a, k, so) ==
  \A m \in 1 .. k :
    (/\ a.phases[m] \in ActivePhases(a) /\ IsThere(so.graph, a.phases[m])
     /\ \A n \in m + 1 .. k : a.phases[n] \in ActivePhases(a) => ~IsThere(so.graph, a.phases[n]))
    => so.leaf = Anchor(so.graph, a.phases[m])

\* What holds after k rounds: the graph is in order, the wanted phases so far are
\* there, and the leaf fits.
Handed(a, wanted, k, so) ==
  /\ Chained(a, so.graph) /\ FoldsThere(a, so.graph)
  /\ \A m \in 1 .. k : a.phases[m] \in wanted => IsThere(so.graph, a.phases[m])
  /\ LeafFits(a, k, so)

\* What is wanted comes with the phases before it.
FromTheFirst(a, wanted) ==
  /\ wanted \subseteq ActivePhases(a)
  /\ \A p, q \in ActivePhases(a) : Before(a, p, q) /\ q \in wanted => p \in wanted

\* A round behind a phase that is there, or is added now.
LEMMA LeafFitsNow ==
  ASSUME NEW a, NEW k \in Nat \ {0}, NEW to, IsThere(to.graph, a.phases[k]), a.phases[k] \in ActivePhases(a),
         to.leaf = Anchor(to.graph, a.phases[k])
  PROVE  LeafFits(a, k, to)
<1>1. SUFFICES ASSUME NEW m \in 1 .. k,
                      \A n \in m + 1 .. k : a.phases[n] \in ActivePhases(a) => ~IsThere(to.graph, a.phases[n])
               PROVE  to.leaf = Anchor(to.graph, a.phases[m])
  BY DEF LeafFits
<1>2. m = k \/ k \in m + 1 .. k
  OBVIOUS
<1> QED
  BY <1>1, <1>2

\* A round of materialize hands on what holds after the round before.
LEMMA RoundKeeps ==
  ASSUME NEW a, AcceptedPolicy(a), NEW wanted, FromTheFirst(a, wanted), NEW k \in 1 .. Len(a.phases),
         NEW so, Handed(a, wanted, k - 1, so), NEW to, to = AddPhase(a, wanted, so, a.phases[k])
  PROVE  Handed(a, wanted, k, to)
<1>0. /\ Len(a.phases) \in Nat /\ k \in Nat \ {0} /\ IsSequence(a.phases) /\ IsInjective(a.phases)
      /\ \A m \in 1 .. k : m = k \/ m \in 1 .. k - 1
  <2>1. IsSequence(a.phases) /\ IsInjective(a.phases)
    BY PolicyFacts
  <2>2. Len(a.phases) \in Nat
    BY <2>1 DEF IsSequence
  <2>3. k \in Nat \ {0} /\ \A m \in 1 .. k : m = k \/ m \in 1 .. k - 1
    BY <2>2
  <2> QED
    BY <2>1, <2>2, <2>3
<1>1. PICK p : p = a.phases[k]
  OBVIOUS
<1>2. /\ Chained(a, so.graph) /\ FoldsThere(a, so.graph) /\ IsSequence(so.graph)
      /\ \A m \in 1 .. k - 1 : a.phases[m] \in wanted => IsThere(so.graph, a.phases[m])
      /\ LeafFits(a, k - 1, so)
  BY DEF Handed, Chained, Rooted
<1>3. DOMAIN a.fold = 1 .. Len(a.fold) /\ \A m \in 1 .. Len(a.fold) :
        IsThere(so.graph, a.fold[m][2]) => FoldIsThere(so.graph, a.fold[m])
  BY <1>2, PolicyFacts DEF FoldsThere
<1>4. CASE /\ p \notin ActivePhases(a) \/ (~IsThere(so.graph, p) /\ p \notin wanted)
           /\ to = so
  <2>1. p \notin wanted
    BY <1>4 DEF FromTheFirst
  <2>2. \A m \in 1 .. k : a.phases[m] \in wanted => IsThere(to.graph, a.phases[m])
    BY <1>0, <1>1, <1>2, <1>4, <2>1
  <2>3. ASSUME NEW m \in 1 .. k, a.phases[m] \in ActivePhases(a), IsThere(so.graph, a.phases[m]),
               \A n \in m + 1 .. k : a.phases[n] \in ActivePhases(a) => ~IsThere(so.graph, a.phases[n])
        PROVE  so.leaf = Anchor(so.graph, a.phases[m])
    <3>1. m \in 1 .. k - 1
      BY <1>0, <1>1, <1>4, <2>3
    <3>2. \A n \in m + 1 .. k - 1 : n \in m + 1 .. k
      BY <1>0
    <3> QED
      BY <1>2, <2>3, <3>1, <3>2 DEF LeafFits
  <2>4. LeafFits(a, k, to)
    BY <1>4, <2>3 DEF LeafFits
  <2> QED
    BY <1>2, <1>4, <2>2, <2>4 DEF Handed
<1>5. ASSUME p \in ActivePhases(a), IsThere(so.graph, p), NEW s, s.graph = so.graph, s.leaf = Anchor(so.graph, p),
             to = AllFolded(a, p, s)
      PROVE  Handed(a, wanted, k, to)
  <2>1. /\ Chained(a, s.graph) /\ IsThere(s.graph, p) /\ s.leaf = Anchor(s.graph, p)
        /\ \A m \in 1 .. Len(a.fold) : IsThere(s.graph, a.fold[m][2]) => FoldIsThere(s.graph, a.fold[m])
    BY <1>2, <1>3, <1>5
  <2>2. /\ Chained(a, to.graph) /\ to.leaf = Anchor(to.graph, p) /\ FoldsThere(a, to.graph)
        /\ \A q : IsThere(to.graph, q) <=> IsThere(s.graph, q)
    BY <1>5, <2>1, FoldedKeeps
  <2>3. \A m \in 1 .. k : a.phases[m] \in wanted => IsThere(to.graph, a.phases[m])
    BY <1>0, <1>1, <1>2, <1>5, <2>2
  <2>4. LeafFits(a, k, to)
    BY <1>0, <1>1, <1>5, <2>2, LeafFitsNow
  <2> QED
    BY <2>2, <2>3, <2>4 DEF Handed
<1>6. ASSUME p \in ActivePhases(a), ~IsThere(so.graph, p), p \in wanted,
             NEW s, s.graph = NewPhase(so, p), s.leaf = {<<p, p, StepsOf[p]>>}, to = AllFolded(a, p, s)
      PROVE  Handed(a, wanted, k, to)
  <2>1. ASSUME NEW q \in ActivePhases(a), Before(a, q, p)
        PROVE  \E m \in 1 .. k - 1 : a.phases[m] = q /\ IsThere(so.graph, q)
    <3>1. PICK m, n \in 1 .. Len(a.phases) : m < n /\ a.phases[m] = q /\ a.phases[n] = p
      BY <1>0, <2>1, OrderOfPhases
    <3>2. n = k
      BY <1>0, <1>1, <3>1, OrderOfPhases
    <3>3. m \in 1 .. k - 1
      BY <1>0, <3>1, <3>2
    <3>4. q \in wanted
      BY <1>6, <2>1 DEF FromTheFirst
    <3> QED
      BY <1>2, <3>1, <3>3, <3>4
  <2>2. ASSUME NEW q, Nearest(a, q, p) PROVE so.leaf = Anchor(so.graph, q)
    <3>1. q \in ActivePhases(a) /\ Before(a, q, p)
      BY <2>2 DEF Nearest, Before
    <3>2. PICK m \in 1 .. k - 1 : a.phases[m] = q /\ IsThere(so.graph, q)
      BY <2>1, <3>1
    <3>3. ASSUME NEW n \in m + 1 .. k - 1, a.phases[n] \in ActivePhases(a) PROVE FALSE
      <4>1. m < n /\ n < k /\ m \in 1 .. Len(a.phases) /\ n \in 1 .. Len(a.phases)
        BY <1>0
      <4>2. Before(a, q, a.phases[n]) /\ Before(a, a.phases[n], p)
        BY <1>0, <1>1, <1>6, <3>1, <3>2, <3>3, <4>1, EarlierIsBefore
      <4>3. a.phases[n] = q \/ Before(a, a.phases[n], q)
        BY <2>2, <4>2 DEF Nearest
      <4> QED
        BY <1>0, <4>2, <4>3, OrderOfPhases
    <3> QED
      BY <1>2, <3>1, <3>2, <3>3 DEF LeafFits
  <2>3. /\ Chained(a, s.graph) /\ NoLater(a, s.graph, p)
        /\ \A q : IsThere(s.graph, q) <=> IsThere(so.graph, q) \/ q = p
        /\ s.leaf = Anchor(s.graph, p)
    BY <1>2, <1>6, <2>1, <2>2, NewPhaseKeeps
  <2>4. ASSUME NEW m \in 1 .. Len(a.fold), IsThere(s.graph, a.fold[m][2]), a.fold[m][2] # p
        PROVE  FoldIsThere(s.graph, a.fold[m])
    <3>1. FoldIsThere(so.graph, a.fold[m])
      BY <1>3, <2>3, <2>4
    <3>2. p \in PhaseNames
      BY <1>6, PolicyFacts
    <3> QED
      BY <1>2, <1>6, <3>1, <3>2, NewPhaseFolds
  <2>5. IsThere(s.graph, p)
    BY <2>3
  <2>6. /\ Chained(a, to.graph) /\ to.leaf = Anchor(to.graph, p) /\ FoldsThere(a, to.graph)
        /\ \A q : IsThere(to.graph, q) <=> IsThere(s.graph, q)
    BY <1>6, <2>3, <2>4, <2>5, FoldedKeeps
  <2>7. \A m \in 1 .. k : a.phases[m] \in wanted => IsThere(to.graph, a.phases[m])
    BY <1>0, <1>1, <1>2, <2>3, <2>6
  <2>8. LeafFits(a, k, to)
    BY <1>0, <1>1, <1>6, <2>5, <2>6, LeafFitsNow
  <2> QED
    BY <2>6, <2>7, <2>8 DEF Handed
<1> QED
  BY <1>1, <1>4, <1>5, <1>6, RoundCases

\* materialize keeps a graph in order.
LEMMA MaterializedKeeps ==
  ASSUME NEW a, AcceptedPolicy(a), NEW wanted, FromTheFirst(a, wanted), NEW g, Chained(a, g), FoldsThere(a, g)
  PROVE  Chained(a, Materialized(g, a, wanted)) /\ FoldsThere(a, Materialized(g, a, wanted))
<1>0. IsSequence(a.phases) /\ Len(a.phases) \in Nat
  BY PolicyFacts DEF IsSequence
<1>1. PICK f : /\ f[0] = Start(g)
               /\ \A k \in 1 .. Len(a.phases) : f[k] = AddPhase(a, wanted, f[k - 1], a.phases[k])
               /\ Materialized(g, a, wanted) = f[Len(a.phases)].graph
  BY <1>0, AddingSteps
<1> DEFINE K == {k \in 0 .. Len(a.phases) : Handed(a, wanted, k, f[k])}
<1>2. 0 \in K
  <2>1. Start(g).graph = g
    BY DEF Start
  <2>2. Handed(a, wanted, 0, Start(g))
    BY <2>1 DEF Handed, LeafFits
  <2> QED
    BY <1>0, <1>1, <2>2
<1>3. ASSUME NEW k \in 1 .. Len(a.phases), k - 1 \in K PROVE k \in K
  <2>1. Handed(a, wanted, k - 1, f[k - 1]) /\ f[k] = AddPhase(a, wanted, f[k - 1], a.phases[k])
    BY <1>1, <1>3
  <2>2. Handed(a, wanted, k, f[k])
    BY <2>1, RoundKeeps
  <2> QED
    BY <1>0, <2>2
<1> HIDE DEF K
<1>4. Len(a.phases) \in K
  BY <1>0, <1>2, <1>3, HandedOn
<1> QED
  BY <1>1, <1>4 DEF K, Handed

\* A domain without units is in order.
LEMMA EmptyIsChained ==
  ASSUME NEW a, NEW X
  PROVE  Only(<<>>, X) /\ Chained(a, <<>>) /\ FoldsThere(a, <<>>)
<1>1. Len(<<>>) = 0 /\ DOMAIN <<>> = {} /\ IsSequence(<<>>)
  BY DEF IsSequence
<1>2. \A p : ~IsThere(<<>>, p)
  BY <1>1 DEF IsThere, NamesIn
<1> QED
  BY <1>1, <1>2 DEF Only, Chained, Rooted, Placed, NoneMissing, Linked, FoldsThere

\* The phases seeded come with those before them, where they are the first ones.
LEMMA SeedFromTheFirst ==
  ASSUME NEW a, AcceptedPolicy(a), SeededInOrder(a), NEW unclear \in BOOLEAN, NEW answered \in BOOLEAN
  PROVE  /\ FromTheFirst(a, FirstPhases(a, unclear, answered))
         /\ FromTheFirst(a, ActivePhases(a))
<1>1. FromTheFirst(a, ActivePhases(a))
  BY DEF FromTheFirst
<1>2. FirstPhases(a, TRUE, FALSE) \subseteq ActivePhases(a)
  BY FirstOrAll
<1>3. FromTheFirst(a, FirstPhases(a, TRUE, FALSE))
  BY <1>2 DEF FromTheFirst, SeededInOrder
<1> QED
  BY <1>1, <1>3, FirstOrAll

-----------------------------------------------------------------------------
(* Phases: what the calls keep *)

\* The graphs of the domains: no phase but these, and all in order.
GraphsFit(a, X, graphs) ==
  /\ DOMAIN graphs = ToSet(Outcomes)
  /\ \A d \in DOMAIN graphs : Only(graphs[d], X)
  /\ SeededInOrder(a) => \A d \in DOMAIN graphs : Chained(a, graphs[d]) /\ FoldsThere(a, graphs[d])

\* The phases a domain may have: until the answers come, those the configuration
\* names first.
MayBeThere == IF unanswered THEN FirstPhases(recipe, TRUE, FALSE) ELSE ActivePhases(recipe)

\* The inductive invariant: the graphs hold only phases that may be there, and where
\* the phases seeded first are the first of the recipe, they are in order.
PhaseInv == AcceptedPolicy(recipe) /\ GraphsFit(recipe, MayBeThere, lanes)

\* expand_after_clarification leaves graphs in order.
LEMMA MaterializedFits ==
  ASSUME NEW a, AcceptedPolicy(a), NEW X, X \subseteq ActivePhases(a), NEW graphs, GraphsFit(a, X, graphs)
  PROVE  GraphsFit(a, ActivePhases(a), [d \in DOMAIN graphs |-> Materialized(graphs[d], a, ActivePhases(a))])
<1> DEFINE m == [d \in DOMAIN graphs |-> Materialized(graphs[d], a, ActivePhases(a))]
<1>1. DOMAIN m = DOMAIN graphs /\ \A d \in DOMAIN graphs : m[d] = Materialized(graphs[d], a, ActivePhases(a))
  OBVIOUS
<1> HIDE DEF m
<1>2. ASSUME NEW d \in DOMAIN graphs PROVE Only(m[d], ActivePhases(a))
  <2>1. Only(graphs[d], ActivePhases(a))
    BY DEF GraphsFit, Only
  <2>2. ActivePhases(a) \subseteq PhaseNames
    BY PolicyFacts
  <2> QED
    BY <1>1, <2>1, <2>2, OnlyMaterialized
<1>3. ASSUME SeededInOrder(a), NEW d \in DOMAIN graphs PROVE Chained(a, m[d]) /\ FoldsThere(a, m[d])
  <2>1. Chained(a, graphs[d]) /\ FoldsThere(a, graphs[d])
    BY <1>3 DEF GraphsFit
  <2>2. FromTheFirst(a, ActivePhases(a))
    BY <1>3, SeedFromTheFirst
  <2> QED
    BY <1>1, <2>1, <2>2, MaterializedKeeps
<1>4. GraphsFit(a, ActivePhases(a), m)
  BY <1>1, <1>2, <1>3 DEF GraphsFit
<1> QED
  BY <1>4 DEF m

\* Adding children leaves graphs in order.
LEMMA ExtendedFits ==
  ASSUME NEW a, AcceptedPolicy(a), NEW X, NEW graphs, GraphsFit(a, X, graphs), NEW x \in DOMAIN graphs,
         NEW n \in NamesIn(graphs[x]), NEW children \in Batches
  PROVE  GraphsFit(a, X, [graphs EXCEPT ![x] = Extended(@, n, children)])
<1>1. PICK g : g = graphs[x]
  OBVIOUS
<1>2. PICK c : Extended(g, n, children) = g \o c /\ AreChildren(g, n, c)
  BY ChildrenAdded
<1> DEFINE m == [graphs EXCEPT ![x] = Extended(@, n, children)]
<1>3. DOMAIN m = DOMAIN graphs /\ m[x] = g \o c /\ \A d \in DOMAIN graphs : d # x => m[d] = graphs[d]
  BY <1>1, <1>2
<1> HIDE DEF m
<1>4. PICK k0 \in DOMAIN g : NameOf(g[k0]) = n
  BY <1>1 DEF NamesIn
<1>5. g[k0].phase = n[1]
  BY <1>4 DEF NameOf
<1>6. Only(g, X) /\ n[1] \in X
  BY <1>1, <1>5 DEF GraphsFit, Only
<1>7. Only(g \o c, X)
  <2>1. Only(c, X)
    BY <1>2, <1>6 DEF AreChildren, Only, IsSequence
  <2> QED
    BY <1>6, <2>1, OnlyLonger
<1>8. ASSUME SeededInOrder(a) PROVE Chained(a, g \o c) /\ FoldsThere(a, g \o c)
  <2>1. Chained(a, g) /\ FoldsThere(a, g)
    BY <1>1, <1>8 DEF GraphsFit
  <2>2. IsSequence(g) /\ IsSequence(c)
    BY <1>2, <2>1 DEF Chained, Rooted, AreChildren
  <2>3. Chained(a, g \o c) /\ \A q : IsThere(g \o c, q) <=> IsThere(g, q)
    <3>1. ASSUME NEW p, n = RootOf(p) PROVE Chained(a, g \o c) /\ \A q : IsThere(g \o c, q) <=> IsThere(g, q)
      <4>1. n[1] = p /\ IsThere(g, p)
        BY <1>1, <3>1, RootNames DEF IsThere
      <4>2. IsChain(c, p) /\ \A k \in DOMAIN c : c[k].from = "caller"
        BY <1>2, <2>2, <3>1, <4>1 DEF AreChildren, IsChain, IsSequence
      <4>3. StepsIn(g, p) # {}
        BY <2>1, <4>1, ThereHasUnit DEF Chained, Rooted
      <4>4. LastOf(g, n) = Anchor(g, p)
        <5>1. UnitsBelow(g, RootOf(p)) = StepsIn(g, p)
          BY DEF UnitsBelow, StepsIn
        <5> QED
          BY Zenon, <3>1, <4>3, <5>1 DEF LastOf, Anchor
      <4>5. \A k \in DOMAIN c : k = 1 => c[k].own \/ Anchor(g, p) \subseteq c[k].waits
        BY <1>2, <2>2, <4>4 DEF AreChildren, IsSequence
      <4> QED
        BY <2>1, <4>1, <4>2, <4>5, ChainKeeps
    <3>2. CASE \A p : n # RootOf(p)
      BY <1>1, <1>2, <2>1, <3>2, InnersKeep
    <3> QED
      BY <3>1, <3>2
  <2>4. FoldsThere(a, g \o c)
    BY <2>1, <2>2, <2>3, FoldsLonger DEF FoldsThere
  <2> QED
    BY <2>3, <2>4
<1>9. GraphsFit(a, X, m)
  BY <1>3, <1>7, <1>8 DEF GraphsFit
<1> QED
  BY <1>9 DEF m

\* expand adds the children or leaves the domains as they are.
LEMMA AddedFits ==
  ASSUME NEW a, AcceptedPolicy(a), NEW X, NEW now, GraphsFit(a, X, now), NEW x \in DOMAIN now,
         NEW n \in NamesIn(now[x]), NEW children \in Batches, AddChildren(now, x, n, children)
  PROVE  GraphsFit(a, X, lanes')
<1>1. lanes' = [now EXCEPT ![x] = Extended(@, n, children)] \/ lanes' = now
  BY Zenon DEF AddChildren
<1> QED
  BY <1>1, ExtendedFits

\* compile_domains makes graphs in order.
LEMMA PhasesStart ==
  ASSUME PhasesInit
  PROVE  PhaseInv
<1>1. PICK policy \in PhasePolicies, unclear \in BOOLEAN, answered \in BOOLEAN :
        /\ PolicyIsSound(policy) /\ recipe = policy
        /\ lanes = [d \in ToSet(Outcomes) |-> Seeded(policy, unclear, answered)]
        /\ unanswered = ((policy.lazy \/ unclear) /\ ~answered)
  BY DEF PhasesInit
<1> DEFINE wanted == FirstPhases(policy, unclear, answered)
<1>2. AcceptedPolicy(policy)
  BY <1>1 DEF AcceptedPolicy
<1>3. DOMAIN lanes = ToSet(Outcomes) /\ \A d \in ToSet(Outcomes) : lanes[d] = Materialized(<<>>, policy, wanted)
  BY <1>1 DEF Seeded
<1>4. wanted \subseteq MayBeThere /\ MayBeThere \subseteq PhaseNames
  <2>1. /\ wanted \subseteq ActivePhases(policy) /\ FirstPhases(policy, TRUE, FALSE) \subseteq ActivePhases(policy)
        /\ ActivePhases(policy) \subseteq PhaseNames
    BY <1>2, FirstOrAll, PolicyFacts
  <2>2. (policy.lazy \/ unclear) /\ ~answered => wanted = FirstPhases(policy, TRUE, FALSE)
    BY <1>2, FirstOrAll
  <2> QED
    BY <1>1, <2>1, <2>2 DEF MayBeThere
<1> HIDE DEF wanted
<1>5. Only(Materialized(<<>>, policy, wanted), MayBeThere)
  BY <1>2, <1>4, EmptyIsChained, OnlyMaterialized
<1>6. ASSUME SeededInOrder(policy)
      PROVE  /\ Chained(policy, Materialized(<<>>, policy, wanted))
             /\ FoldsThere(policy, Materialized(<<>>, policy, wanted))
  <2>1. FromTheFirst(policy, wanted)
    BY <1>2, <1>6, SeedFromTheFirst DEF wanted
  <2> QED
    BY <1>2, <2>1, EmptyIsChained, MaterializedKeeps
<1>7. GraphsFit(recipe, MayBeThere, lanes)
  BY <1>1, <1>3, <1>5, <1>6 DEF GraphsFit
<1> QED
  BY <1>1, <1>2, <1>7 DEF PhaseInv

\* Every call keeps them so.
LEMMA PhasesStep ==
  ASSUME PhaseInv, [PhasesNext]_phaseVars
  PROVE  PhaseInv'
<1>1. AcceptedPolicy(recipe) /\ GraphsFit(recipe, MayBeThere, lanes)
  BY DEF PhaseInv
<1>2. MayBeThere \subseteq ActivePhases(recipe)
  BY <1>1, FirstOrAll DEF MayBeThere
<1>3. GraphsFit(recipe, ActivePhases(recipe), AllMaterialized)
  BY <1>1, <1>2, MaterializedFits DEF AllMaterialized
<1>4. CASE UNCHANGED phaseVars
  BY <1>1, <1>4 DEF PhaseInv, phaseVars, MayBeThere
<1>5. ASSUME NEW answer \in Answers, NEW limit \in Limits \union {NoLimit}, ExpandAfterClarification(answer, limit)
      PROVE  PhaseInv'
  <2>1. lanes' = AllMaterialized /\ unanswered' = FALSE /\ recipe' = recipe
    BY <1>5 DEF ExpandAfterClarification
  <2>2. MayBeThere' = ActivePhases(recipe)
    BY <2>1 DEF MayBeThere
  <2> QED
    BY <1>1, <1>3, <2>1, <2>2 DEF PhaseInv
<1>6. ASSUME NEW n, NEW children \in Batches, NEW answer, NEW limit, ExpandBelow(n, children, answer, limit)
      PROVE  PhaseInv'
  <2>1. PICK gated \in BOOLEAN :
          gated <=> /\ n \in {RootOf(p) : p \in ActivePhases(recipe)}
                    /\ ~ \E d \in DOMAIN lanes : n \in NamesIn(lanes[d])
                    /\ unanswered
    OBVIOUS
  <2>2. PICK now : now = IF gated THEN AllMaterialized ELSE lanes
    OBVIOUS
  <2>3. /\ \E d \in DOMAIN now : n \in NamesIn(now[d])
        /\ AddChildren(now, FirstWith(now, n), n, children)
        /\ unanswered' = (unanswered /\ ~gated) /\ recipe' = recipe
    BY Zenon, <1>6, <2>1, <2>2 DEF ExpandBelow, FirstWith
  <2>4. GraphsFit(recipe, MayBeThere', now)
    <3>1. CASE gated
      BY <1>3, <2>1, <2>2, <2>3, <3>1 DEF MayBeThere
    <3>2. CASE ~gated
      BY <1>1, <2>1, <2>2, <2>3, <3>2 DEF MayBeThere
    <3> QED
      BY <2>1, <3>1, <3>2
  <2>5. FirstWith(now, n) \in DOMAIN now /\ n \in NamesIn(now[FirstWith(now, n)])
    BY <2>3, <2>4, FirstFound DEF GraphsFit
  <2>6. GraphsFit(recipe, MayBeThere', lanes')
    BY <1>1, <2>3, <2>4, <2>5, AddedFits
  <2> QED
    BY <1>1, <2>3, <2>6 DEF PhaseInv
<1>7. ASSUME NEW d \in DOMAIN lanes, NEW children \in Batches, NEW limit, ExpandDomain(d, children, limit)
      PROVE  PhaseInv'
  <2>1. /\ AddChildren(lanes, d, NameOf(Last(lanes[d])), children) /\ lanes[d] # <<>>
        /\ unanswered' = unanswered /\ recipe' = recipe
    BY <1>7 DEF ExpandDomain
  <2>2. NameOf(Last(lanes[d])) \in NamesIn(lanes[d])
    <3>1. PICK g : g = lanes[d]
      OBVIOUS
    <3>2. IsSequence(g) /\ g # <<>>
      BY <1>1, <2>1, <3>1 DEF GraphsFit, Only
    <3>3. Len(g) \in DOMAIN g
      BY <3>2, NotEmpty
    <3> QED
      BY <3>1, <3>3 DEF Last, NamesIn
  <2>3. GraphsFit(recipe, MayBeThere, lanes')
    BY <1>1, <2>1, <2>2, AddedFits
  <2>4. MayBeThere' = MayBeThere
    BY <2>1 DEF MayBeThere
  <2> QED
    BY <1>1, <2>1, <2>3, <2>4 DEF PhaseInv
<1> QED
  BY <1>4, <1>5, <1>6, <1>7 DEF PhasesNext

\* Graphs in order have what PhasesAreGated says.
LEMMA PhasesInOrder ==
  ASSUME PhaseInv
  PROVE  PhasesAreGated
<1>1. AcceptedPolicy(recipe) /\ GraphsFit(recipe, MayBeThere, lanes)
  BY DEF PhaseInv
<1>2. NothingBeforeTheAnswers
  BY <1>1 DEF NothingBeforeTheAnswers, GraphsFit, MayBeThere, Only
<1>3. ASSUME SeededInOrder(recipe), NEW d \in DOMAIN lanes, NEW i \in DOMAIN lanes[d], NEW j \in DOMAIN lanes[d],
             Before(recipe, lanes[d][i].phase, lanes[d][j].phase),
             lanes[d][i].below # <<>>, lanes[d][i].from # "caller", lanes[d][j].below # <<>>,
             \A k \in DOMAIN lanes[d] : lanes[d][k].own =>
               \/ Before(recipe, lanes[d][k].phase, lanes[d][i].phase)
               \/ Before(recipe, lanes[d][j].phase, lanes[d][k].phase)
      PROVE  NameOf(lanes[d][i]) \in WaitsFor(lanes[d])[j]
  <2>1. PICK a, g : a = recipe /\ g = lanes[d]
    OBVIOUS
  <2>2. IsSequence(g) /\ Placed(g) /\ Linked(a, g) /\ IsSequence(a.phases) /\ IsInjective(a.phases)
    BY <1>1, <1>3, <2>1, PolicyFacts DEF GraphsFit, Chained, Rooted
  <2>3. Precedes(a, g, i, j) /\ g[j].below # <<>> /\ i \in DOMAIN g /\ j \in DOMAIN g
    BY <1>3, <2>1 DEF Precedes
  <2>4. NameOf(g[i]) \in WaitsFor(g)[j]
    BY <2>2, <2>3, LinksMakeWait
  <2> QED
    BY Zenon, <2>1, <2>4
<1>4. StepsWaitForEarlierPhases
  BY Zenon, <1>3 DEF StepsWaitForEarlierPhases
<1> QED
  BY <1>2, <1>4 DEF PhasesAreGated

\* Whatever is added when, by answers or by callers, the units below a phase wait
\* for the recipe's steps of the phases before it, where no child of these phases
\* or of one between them names its own dependencies; and no phase is there before
\* the answers that the configuration did not name first: materialize, expand.
THEOREM PhasesGated == PhaseSpec => []PhasesAreGated
<1>1. PhasesInit => PhaseInv
  BY PhasesStart
<1>2. PhaseInv /\ [PhasesNext]_phaseVars => PhaseInv'
  BY PhasesStep
<1>3. PhaseInv => PhasesAreGated
  BY PhasesInOrder
<1> QED
  BY <1>1, <1>2, <1>3, PTL DEF PhaseSpec
=============================================================================
