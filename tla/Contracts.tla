------------------------------ MODULE Contracts ------------------------------
(***************************************************************************)
(* The revisions of one contract.  Authors read a revision and later write *)
(* the next: as a ContractDelta (compare and insert in one transaction), as*)
(* a whole revision through the repository's put, or through the Store,    *)
(* which inserts and, when the version exists, answers with the row that   *)
(* is there.  Several processes write; each repository remembers the keys  *)
(* it applied, in memory only.                                             *)
(***************************************************************************)
EXTENDS Naturals, FiniteSets

CONSTANTS
  Repositories, \* processes with a ContractRepository on the database
  DeltaKeys,    \* idempotency keys of deltas
  ItemChange,   \* what each key's delta does: [remove, change, add], sets of items
  FirstItems,   \* the items of the first revision
  MaxRevision   \* bound: versions

VARIABLES
  revisions, \* committed rows: [v, items, by, read, key]
  unsettled, \* rows of the outer transaction that is open
  outer,     \* the process whose transaction that is, or Nobody
  applied,   \* _applied_delta_keys of each repository: [key, v]
  drafts     \* what authors have prepared: [key, base, proposed]

contractVars == <<revisions, unsettled, outer, applied, drafts>>
Nobody == "nobody"

ASSUME RepositoriesAreNamed == Nobody \notin Repositories

ContractInit ==
  /\ revisions = {[v |-> 1, items |-> FirstItems, by |-> "create", read |-> 0, key |-> Nobody]}
  /\ unsettled = {} /\ outer = Nobody /\ drafts = {}
  /\ applied = [p \in Repositories |-> {}]

VisibleRows(p) == revisions \union (IF outer = p THEN unsettled ELSE {})
Version(rows) == CHOOSE v \in {r.v : r \in rows} : \A r \in rows : r.v <= v
RowAt(rows, v) == CHOOSE r \in rows : r.v = v

\* One connection writes at a time; outside a transaction it commits at once.
Insert(p, row) ==
  /\ outer \in {Nobody, p} /\ row.v <= MaxRevision
  /\ IF outer = p THEN unsettled' = unsettled \union {row} /\ UNCHANGED revisions
                  ELSE revisions' = revisions \union {row} /\ UNCHANGED unsettled

\* ContractDelta: immutable once made; it may propose to skip revisions.
DraftDelta(p, k, skip) ==
  LET base == Version(VisibleRows(p)) IN
  /\ base + 1 + skip <= MaxRevision
  /\ drafts' = drafts \union {[key |-> k, base |-> base, proposed |-> base + 1 + skip]}
  /\ UNCHANGED <<revisions, unsettled, outer, applied>>

Fits(items, c) ==
  c.remove \subseteq items /\ c.add \intersect ((items \ c.remove) \union c.change) = {}
ItemsAfter(items, c) == (items \ c.remove) \union c.change \union c.add

\* A plausible slip: the base is compared with the version it proposes only.
NextInLine(d, current) == d.proposed = current + 1

Fresh(d, current) == d.base = current /\ d.proposed = current + 1

\* ContractRepository.apply_delta: a key it remembers is answered from memory,
\* or refused; the rest is compared, built from the current row and inserted.
ApplyDelta(p, d) ==
  LET current == RowAt(VisibleRows(p), Version(VisibleRows(p))) IN
  /\ \A a \in applied[p] : a.key # d.key
  /\ Fresh(d, current.v) /\ Fits(current.items, ItemChange[d.key])
  /\ Insert(p, [v |-> d.proposed, items |-> ItemsAfter(current.items, ItemChange[d.key]),
                by |-> "delta", read |-> d.base, key |-> d.key])
  /\ applied' = [applied EXCEPT ![p] = @ \union {[key |-> d.key, v |-> d.proposed]}]
  /\ UNCHANGED <<outer, drafts>>

Whole(p, d) ==
  [v |-> d.proposed, items |-> ItemsAfter(RowAt(VisibleRows(p), d.base).items, ItemChange[d.key]),
   by |-> "whole", read |-> d.base, key |-> d.key]

\* ContractRepository.put: a whole revision, contiguous with what is there.
PutRevision(p, d) ==
  /\ d.base \in {r.v : r \in VisibleRows(p)} /\ d.proposed = Version(VisibleRows(p)) + 1
  /\ Insert(p, Whole(p, d)) /\ UNCHANGED <<outer, applied, drafts>>

\* Store.create_contract_revision and put_contract, after the base was read.
StoreRevision(p, d) ==
  /\ d.base \in {r.v : r \in VisibleRows(p)}
  /\ IF d.proposed \in {r.v : r \in VisibleRows(p)}
     THEN UNCHANGED <<revisions, unsettled>> ELSE Insert(p, Whole(p, d))
  /\ UNCHANGED <<outer, applied, drafts>>

BeginOuter(p) ==
  outer = Nobody /\ outer' = p /\ UNCHANGED <<revisions, unsettled, applied, drafts>>

\* The savepoints of the calls inside end with the transaction around them.
EndOuter(p, kept) ==
  /\ outer = p /\ outer' = Nobody /\ unsettled' = {}
  /\ revisions' = IF kept THEN revisions \union unsettled ELSE revisions
  /\ UNCHANGED <<applied, drafts>>

\* A crash: the transaction is rolled back and the keys are forgotten.
RestartRepository(p) ==
  /\ applied' = [applied EXCEPT ![p] = {}] /\ UNCHANGED <<revisions, drafts>>
  /\ IF outer = p THEN outer' = Nobody /\ unsettled' = {} ELSE UNCHANGED <<outer, unsettled>>

ContractNext == \E p \in Repositories :
  \/ \E k \in DeltaKeys, skip \in {0, 1} : DraftDelta(p, k, skip)
  \/ \E d \in drafts : ApplyDelta(p, d) \/ PutRevision(p, d) \/ StoreRevision(p, d)
  \/ BeginOuter(p) \/ EndOuter(p, TRUE) \/ EndOuter(p, FALSE) \/ RestartRepository(p)

-----------------------------------------------------------------------------
\* A delta becomes a revision at most once, however often it is sent, by
\* whichever process and after whichever restart, and it follows the version
\* its author read: nobody's revision in between is passed over.
DeltasAreAppliedOnce ==
  \A r \in revisions : r.by = "delta" =>
    /\ \A q \in revisions : q.v < r.v => q.v <= r.read
    /\ r.read \in {q.v : q \in revisions}
    /\ \A q \in revisions : q.by = "delta" /\ q.key = r.key /\ q.read = r.read => q = r
=============================================================================
