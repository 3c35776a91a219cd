----------------------------- MODULE Snapshots -----------------------------
(***************************************************************************)
(* The context kernel: snapshots that extend a base by a delta, are read   *)
(* by following replacements, are rewritten when they are compacted or     *)
(* rebuilt, and become stale when something they were made from changes.   *)
(*                                                                         *)
(* Nothing here is one transaction.  A write reads the latest revision and *)
(* what it builds on, inserts the row, then its input rows, then the       *)
(* replacement; an invalidation reads the current rows and then updates    *)
(* them one at a time.  Other processes, and crashes, come in between.     *)
(***************************************************************************)
EXTENDS Naturals, Sequences, FiniteSets

CONSTANTS
  Kernels,       \* processes with a ContextKernel on the database
  Invalidators,  \* those that are told of changes
  Mortal,        \* those that may die in the middle of a call
  Markers,       \* contracts, decisions, artifacts... that may change
  Fields,        \* keys of a snapshot's body
  AlwaysKept,    \* keys that a compaction keeps, whatever it preserves
  Deltas,        \* deltas written: from some fields to a marker or Deleted
  ExplicitInputs,\* sets of inputs a caller names
  Deleted,       \* the value None
  MaxSnapshots   \* bound: snapshots of the scope

\* What a body or a content may be.
Bodies == UNION {[written -> Markers \union {Deleted}] : written \in SUBSET Fields}

ASSUME SnapshotConstants ==
  /\ AlwaysKept \subseteq Fields /\ Deleted \notin Markers /\ Deltas \subseteq Bodies
  /\ Mortal \union Invalidators \subseteq Kernels /\ ExplicitInputs \subseteq SUBSET Markers /\ MaxSnapshots \in Nat

VARIABLES
  snaps,    \* the snapshots, by revision: [base, delta, inputs, refs, validity]
  indexed,  \* the snapshots with their rows in snapshot_inputs
  heir,     \* snapshot_supersessions: heir[s], or 0
  kpc,      \* each kernel: where it is
  kdraft,   \* the snapshot it is writing
  krev,     \* the revision it found free
  kold,     \* the snapshot its draft replaces, or 0
  kmark,    \* the marker it invalidates
  ktodo,    \* the rows it has yet to mark
  kknown    \* history: the snapshots whose lineage it could see

memoryOfKernels == <<kdraft, krev, kold, kmark, ktodo, kknown>>
snapVars == <<snaps, indexed, heir, kpc, memoryOfKernels>>

None == [base |-> 0, delta |-> <<>>, inputs |-> {}, refs |-> {}, validity |-> "current"]

SnapInit ==
  /\ snaps = <<>> /\ indexed = {} /\ heir = [s \in 1 .. MaxSnapshots |-> 0]
  /\ kpc = [p \in Kernels |-> "idle"] /\ kdraft = [p \in Kernels |-> None]
  /\ krev = [p \in Kernels |-> 0] /\ kold = [p \in Kernels |-> 0]
  /\ kmark = [p \in Kernels |-> Deleted] /\ ktodo = [p \in Kernels |-> {}]
  /\ kknown = [p \in Kernels |-> {}]

SnapshotIds == 1 .. Len(snaps)

\* A call that returned, raised or died keeps nothing.
ForgetCall(p) ==
  /\ kpc' = [kpc EXCEPT ![p] = "idle"]  /\ kdraft' = [kdraft EXCEPT ![p] = None]
  /\ krev' = [krev EXCEPT ![p] = 0]     /\ kold' = [kold EXCEPT ![p] = 0]
  /\ kmark' = [kmark EXCEPT ![p] = Deleted]
  /\ ktodo' = [ktodo EXCEPT ![p] = {}]  /\ kknown' = [kknown EXCEPT ![p] = {}]

\* _resolve_replacement
TipOf(s) ==
  LET Tip[i \in SnapshotIds] == IF heir[i] = 0 THEN i ELSE Tip[heir[i]] IN Tip[s]

\* _deep_merge: a None deletes the key, but only a key that is there.
MergeInto(content, delta) ==
  LET gone == {f \in DOMAIN content \intersect DOMAIN delta : delta[f] = Deleted} IN
  [f \in (DOMAIN content \union DOMAIN delta) \ gone |->
     IF f \in DOMAIN delta THEN delta[f] ELSE content[f]]

\* reconstruct_content: the chain of bases, oldest first.
ContentIn(rows, s) ==
  LET Of[i \in 0 .. Len(rows)] ==
        IF i = 0 THEN <<>> ELSE MergeInto(Of[rows[i].base], rows[i].delta)
  IN Of[s]
Content(s) == ContentIn(snaps, s)

\* _input_refs
RefsIn(body) == {body[f] : f \in DOMAIN body} \ {Deleted}

-----------------------------------------------------------------------------
(* Writing *)

\* What _write is given; the revision is read now and used later.
Draft(p, base, delta, explicit, old) ==
  /\ kpc[p] = "idle" /\ Len(snaps) < MaxSnapshots
  /\ kpc' = [kpc EXCEPT ![p] = "insert"]
  /\ kdraft' = [kdraft EXCEPT ![p] =
       [base |-> base, delta |-> delta, validity |-> "current",
        inputs |-> explicit \union RefsIn(delta),
        refs |-> IF base = 0 THEN {} ELSE {base}]]
  /\ krev' = [krev EXCEPT ![p] = Len(snaps) + 1]
  /\ kold' = [kold EXCEPT ![p] = old]
  /\ UNCHANGED <<snaps, indexed, heir, kmark, ktodo, kknown>>

BuildSnapshot(p) == \E d \in Deltas, x \in ExplicitInputs : Draft(p, 0, d, x, 0)

\* The base may be stale: nobody asks.
DeriveSnapshot(p, s) == \E d \in Deltas : Draft(p, TipOf(s), d, {}, 0)

\* promote: the whole content again, on top of its source.
PromoteSnapshot(p, s) == Draft(p, TipOf(s), Content(TipOf(s)), {}, 0)

\* compact: without a base; keys that are not preserved are lost.
CompactSnapshot(p, s) ==
  \E keep \in {AlwaysKept, Fields} :
    LET all == Content(TipOf(s)) IN
    Draft(p, 0, [f \in DOMAIN all \intersect keep |-> all[f]],
          {}, TipOf(s))

\* Mutant: the delta of the stale snapshot instead of its content.
RebuildDelta(p, s) ==
  /\ snaps[TipOf(s)].validity # "current"
  /\ Draft(p, 0, snaps[TipOf(s)].delta, {}, TipOf(s))

\* reconstruct: reading what is stale or invalid writes a current replacement.
RebuildSnapshot(p, s) ==
  /\ snaps[TipOf(s)].validity # "current"
  /\ Draft(p, 0, Content(TipOf(s)), {}, TipOf(s))

\* The row; the scope's revisions are unique, so the slower of two fails.
InsertSnapshot(p) ==
  /\ kpc[p] = "insert"
  /\ IF krev[p] = Len(snaps) + 1
     THEN /\ snaps' = Append(snaps, kdraft[p])
          /\ kpc' = [kpc EXCEPT ![p] = "index"]
          /\ UNCHANGED memoryOfKernels
     ELSE ForgetCall(p) /\ UNCHANGED snaps
  /\ UNCHANGED <<indexed, heir>>

\* replace_snapshot_inputs
IndexSnapshot(p) ==
  /\ kpc[p] = "index"
  /\ indexed' = indexed \union {krev[p]}
  /\ IF kold[p] = 0 THEN ForgetCall(p)
     ELSE kpc' = [kpc EXCEPT ![p] = "supersede"] /\ UNCHANGED memoryOfKernels
  /\ UNCHANGED <<snaps, heir>>

\* put_snapshot_supersession: the last of several replacements stays.
SupersedeSnapshot(p) ==
  /\ kpc[p] = "supersede"
  /\ heir' = [heir EXCEPT ![kold[p]] = krev[p]]
  /\ ForgetCall(p)
  /\ UNCHANGED <<snaps, indexed>>

-----------------------------------------------------------------------------
(* Invalidating *)

Current(s) == snaps[s].validity = "current"

\* The snapshot was made from the marker, or from one of those.
MadeFrom(s, m, those) == m \in snaps[s].inputs \/ snaps[s].refs \intersect those # {}

\* Mutant: the snapshots made from the marker, not those made from them.
AffectedDirectly(m) == {s \in SnapshotIds : Current(s) /\ m \in snaps[s].inputs}

\* list_snapshot_dependents: by the input rows, of any snapshot, until nothing
\* more is found.
Dependents(m) ==
  {s \in SnapshotIds : \A found \in SUBSET SnapshotIds :
     (\A t \in indexed : MadeFrom(t, m, found) => t \in found) => s \in found}

\* invalidate: those, and what the bodies of the current ones say.
Affected(m) ==
  {s \in SnapshotIds : Current(s) /\ \A found \in SUBSET SnapshotIds :
     (/\ Dependents(m) \subseteq found
      /\ \A t \in SnapshotIds : Current(t) /\ MadeFrom(t, m, found) => t \in found) => s \in found}

\* All that the snapshot was made from, and itself, has its input rows.
InRows(s) == \E lineage \in SUBSET indexed : s \in lineage /\ \A t \in lineage : snaps[t].refs \subseteq lineage

\* The inputs of an unfinished write are in its body only, which counts while
\* the snapshot is current.
Visible ==
  {s \in SnapshotIds : \E lineage \in SUBSET SnapshotIds :
     /\ s \in lineage
     /\ \A t \in lineage : InRows(t) \/ (Current(t) /\ snaps[t].refs \subseteq lineage)}

InvalidateMarker(p, m) ==
  /\ p \in Invalidators /\ kpc[p] = "idle" /\ snaps # <<>>
  /\ ktodo' = [ktodo EXCEPT ![p] = Affected(m)]
  /\ kmark' = [kmark EXCEPT ![p] = m]
  /\ kknown' = [kknown EXCEPT ![p] = Visible]
  /\ kpc' = [kpc EXCEPT ![p] = "mark"]
  /\ UNCHANGED <<snaps, indexed, heir, kdraft, krev, kold>>

MarkStale(p, s) ==
  /\ kpc[p] = "mark" /\ s \in ktodo[p]
  /\ snaps' = [snaps EXCEPT ![s].validity = "stale"]
  /\ ktodo' = [ktodo EXCEPT ![p] = @ \ {s}]
  /\ UNCHANGED <<indexed, heir, kpc, kdraft, krev, kold, kmark, kknown>>

\* The event with the references that became stale is returned.
InvalidateEnd(p) ==
  /\ kpc[p] = "mark" /\ ktodo[p] = {}
  /\ ForgetCall(p)
  /\ UNCHANGED <<snaps, indexed, heir>>

\* invalidate of one record: only that one.
InvalidateRecord(p, s) ==
  /\ p \in Invalidators /\ kpc[p] = "idle"
  /\ snaps' = [snaps EXCEPT ![TipOf(s)].validity = "invalid"]
  /\ UNCHANGED <<indexed, heir, kpc, memoryOfKernels>>

CrashKernel(p) ==
  /\ p \in Mortal /\ kpc[p] # "idle"
  /\ ForgetCall(p)
  /\ UNCHANGED <<snaps, indexed, heir>>

SnapNext ==
  \E p \in Kernels :
    \/ BuildSnapshot(p) \/ InsertSnapshot(p) \/ IndexSnapshot(p) \/ SupersedeSnapshot(p)
    \/ \E s \in SnapshotIds : \/ DeriveSnapshot(p, s) \/ PromoteSnapshot(p, s)
                      \/ CompactSnapshot(p, s) \/ RebuildSnapshot(p, s)
                      \/ InvalidateRecord(p, s) \/ MarkStale(p, s)
    \/ \E m \in Markers : InvalidateMarker(p, m)
    \/ InvalidateEnd(p) \/ CrashKernel(p)

-----------------------------------------------------------------------------

SnapTypes ==
  /\ \A s \in SnapshotIds : /\ snaps[s].base < s /\ snaps[s].inputs \subseteq Markers
                    /\ snaps[s].validity \in {"current", "stale", "invalid"}
  /\ indexed \subseteq SnapshotIds
  /\ kpc \in [Kernels -> {"idle", "insert", "index", "supersede", "mark"}]

\* A reference keeps its meaning however often what it names is compacted or
\* rebuilt, by whomever and in whatever order: following it ends, at content
\* that agrees on every key, and the keys a compaction must keep are there.
ReferencesKeepMeaning ==
  \A s \in SnapshotIds :
    LET was == Content(s)
        now == Content(TipOf(s))
    IN /\ heir[s] = 0 \/ heir[s] > s
       /\ DOMAIN now \subseteq DOMAIN was
       /\ \A f \in DOMAIN now : now[f] = was[f]
       /\ AlwaysKept \intersect DOMAIN was \subseteq DOMAIN now

\* The snapshots that name m, or were made from one that does.
TracesTo(m) ==
  {s \in SnapshotIds : \A those \in SUBSET SnapshotIds :
     (\A t \in SnapshotIds : MadeFrom(t, m, those) => t \in those) => s \in those}

\* When an invalidation returns, no snapshot that was there when it began and
\* traces back to the marker is still current, although rows are updated one by
\* one beside other writers; except behind a snapshot that is no longer current
\* and whose write was cut short before its input rows.
InvalidationReaches ==
  \A p \in Kernels :
    kpc[p] = "mark" /\ ktodo[p] = {} =>
      \A s \in TracesTo(kmark[p]) \intersect kknown[p] : ~Current(s)

=============================================================================
