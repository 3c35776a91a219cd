-------------------------- MODULE ResearchRuntime --------------------------
(***************************************************************************)
(* The state of a Research Pack: records that only grow, decisions of      *)
(* people, the boundaries they authorize, and the canonical state, which a *)
(* promotion moves to the route a decision chose, and a downgrade to       *)
(* whatever its caller names.  Every call builds the next pack, compiles   *)
(* it whole, its canonical state left out, and keeps it when it compiles.  *)
(* A host may keep a snapshot and open the pack from it again.             *)
(***************************************************************************)
EXTENDS Naturals, FiniteSets

CONSTANTS
  Candidates, \* routes of the packet
  Packet,     \* what it brings along: claims, unknowns, regimes
  Findings,   \* what may be recorded: [id, kind, route, refs]
  Rewinds,    \* what may be proposed: [id, route, target]
  Decisions,  \* what people may decide: [id, status, scope, selects]
  Scopes,     \* scopes of the authorizations asked for
  Open,       \* no route; a canonical state that is no route
  MaxLifecycle \* bound: lifecycle records

\* A canonical state that is no route is none of the routes.
ASSUME OpenIsNoRoute == Open \notin Candidates

VARIABLES
  pack,  \* the pack: its records, the canonical state, the decision of its last
         \* transition (Open for a downgrade), its lifecycle's length
  kept   \* the snapshot a host keeps

researchVars == <<pack, kept>>

Fresh0 ==
  [status |-> [r \in Candidates |-> "candidate"], findings |-> Packet, rewinds |-> {}, applied |-> {},
   decisions |-> {}, authorizations |-> {}, current |-> Open, last |-> Open, length |-> 0]

KnownIds(p) == Candidates \union {x.id : x \in p.findings \union p.rewinds \union p.decisions}
OfKind(p, kinds) == {x.id : x \in {y \in p.findings : y.kind \in kinds}}

Confirmed(p, id) == \E d \in p.decisions : d.id = id /\ d.status = "confirmed"
AuthorizedRoutes(p) ==
  {a.route : a \in {b \in p.authorizations : b.status = "authorized" /\ Confirmed(p, b.by)}}

\* What a record may refer to.
Refers(p, kind) ==
  CASE kind = "evidence" -> OfKind(p, {"claim"})
    [] kind = "failure"  -> OfKind(p, {"evidence", "regime"})
    [] kind = "problem"  -> OfKind(p, {"unknown", "failure"})
    [] kind = "lesson"   -> KnownIds(p)
    [] OTHER -> {}

\* compile: a single route would need a reason, and the pack does not carry the
\* reason of its packet.
Compiles(p) ==
  /\ Cardinality(Candidates) > 1
  /\ \A x \in p.findings : x.route \in Candidates \union {Open} /\ x.refs \subseteq Refers(p, x.kind)
  /\ \A w \in p.rewinds : w.route \in Candidates /\ w.target \in KnownIds(p)
  /\ \A a \in p.authorizations : \E d \in p.decisions :
       /\ d.id = a.by /\ d.selects \in {Open, a.route}
       /\ a.status = "authorized" => d.status = "confirmed"
  /\ \A r \in Candidates : p.status[r] = "authorized" => r \in AuthorizedRoutes(p)

\* Every change adds a lifecycle record.
Grown(p) == [p EXCEPT !.length = @ + 1]
Commit(p) == p.length < MaxLifecycle /\ Compiles(Grown(p)) /\ pack' = Grown(p) /\ UNCHANGED kept

ResearchInit == pack = Fresh0 /\ Compiles(pack) /\ kept = Fresh0

Unused(x) == x.id \notin KnownIds(pack)
Put(x) == Commit([pack EXCEPT !.findings = @ \union {x}])

RecordEvidence(x) == x.kind = "evidence" /\ Unused(x) /\ Put(x)
RecordFailure(x) ==
  x.kind = "failure" /\ Unused(x) /\ x.refs \subseteq OfKind(pack, {"evidence", "regime"}) /\ Put(x)
RecordLesson(x) == x.kind = "lesson" /\ Unused(x) /\ x.refs \subseteq KnownIds(pack) /\ Put(x)
ReopenProblem(x) ==
  x.kind = "problem" /\ Unused(x) /\ x.refs \subseteq OfKind(pack, {"unknown", "failure"}) /\ Put(x)

ProposeRewind(w) ==
  /\ Unused(w) /\ w.target \in KnownIds(pack)
  /\ Commit([pack EXCEPT !.rewinds = @ \union {w}])

WithDecision(p, d) == [p EXCEPT !.decisions = @ \union {d}]
RecordDecision(d) == Unused(d) /\ Commit(WithDecision(pack, d))

\* request_route_authorization: a decision brought along is recorded first, and
\* stays recorded when it then turns out to select another route.
Boundary(r, scope, d) ==
  [route |-> r, scope |-> scope, by |-> d.id,
   status |-> CASE d.status = "confirmed" -> "authorized" [] d.status = "rejected" -> "rejected"
                [] OTHER -> "pending"]
Authorize(r, scope, d) ==
  LET known == d \in pack.decisions
      first == IF known THEN pack
               ELSE Grown(WithDecision(pack, d))
  IN
  /\ known \/ Unused(d)
  /\ \/ d.selects \in {Open, r}
        /\ Commit([first EXCEPT !.authorizations = @ \union {Boundary(r, scope, d)}])
     \/ d.selects \notin {Open, r} /\ ~known /\ Commit(WithDecision(pack, d))

\* downgrade_canonical: takes any state for the next one, a route too, and no
\* decision.
Downgrade(next) == Commit([pack EXCEPT !.current = next, !.last = Open])

Decides(d, scopes) == d \in pack.decisions /\ d.status = "confirmed" /\ d.scope \in scopes

\* apply_rewind: the canonical state is left where it is.
ApplyRewind(w, d) ==
  /\ w \in pack.rewinds \ pack.applied /\ Decides(d, {"rewind", "route"})
  /\ Commit([pack EXCEPT !.applied = @ \union {w}, !.status[w.route] = "rewound"])

\* A plausible slip: any authorization of the route will do.
AnyBoundaryOf(r, d) == d.selects \in {Open, r} /\ r \in AuthorizedRoutes(pack)

\* promote_canonical's boundary
MayPromote(r, d) ==
  /\ d.selects \in {Open, r}
  /\ \E a \in pack.authorizations :
       a.route = r /\ a.status = "authorized" /\ a.scope = "canonical-promotion"
Promote(r, d) ==
  /\ Decides(d, {"canonical-promotion"}) /\ MayPromote(r, d)
  /\ Commit([pack EXCEPT !.current = r, !.last = d.id, !.status[r] = "authorized"])

\* The host keeps a snapshot, and opens the pack from it: the canonical state
\* is never compiled.
KeepSnapshot == kept' = pack /\ UNCHANGED pack
OpenSnapshot == Compiles(kept) /\ pack' = [kept EXCEPT !.current = Open] /\ UNCHANGED kept

ResearchNext ==
  \/ \E x \in Findings : RecordEvidence(x) \/ RecordFailure(x) \/ RecordLesson(x) \/ ReopenProblem(x)
  \/ \E w \in Rewinds : ProposeRewind(w) \/ \E d \in Decisions : ApplyRewind(w, d)
  \/ \E d \in Decisions : RecordDecision(d)
  \/ \E d \in Decisions, r \in Candidates : Promote(r, d) \/ \E scope \in Scopes : Authorize(r, scope, d)
  \/ \E next \in Candidates \union {Open} : Downgrade(next)
  \/ KeepSnapshot \/ OpenSnapshot

\* A route that became canonical by promotion stands on two things that agree on
\* it: the decision its last transition names, confirmed and meant to promote it,
\* and an authorized boundary for promotion that a confirmed decision backs,
\* whatever was downgraded, rewound or reopened before (promote_canonical,
\* request_route_authorization, and the compilation that every change passes).
CanonicalIsBacked ==
  pack.current \in Candidates /\ pack.last # Open =>
    /\ \E d \in pack.decisions : d.id = pack.last /\ d.status = "confirmed"
                                 /\ d.scope = "canonical-promotion" /\ d.selects \in {Open, pack.current}
    /\ \E a \in pack.authorizations : a.route = pack.current /\ a.scope = "canonical-promotion"
                                      /\ Confirmed(pack, a.by)
=============================================================================
