----------------------------- MODULE Boundaries -----------------------------
(***************************************************************************)
(* What a lane cannot settle alone: requests to promote a work unit to a   *)
(* task of its own, which the coordinators decide, and corrections, which  *)
(* go to the thread that did the work.  A lane calls itself completed when *)
(* its units are and none of these is open.                                *)
(*                                                                         *)
(* The coordinators share the database and nothing else: each reads the    *)
(* open requests once and then works through its list.                     *)
(***************************************************************************)
EXTENDS Naturals, Sequences, FiniteSets

CONSTANTS
  Coordinators, Lanes,  \* processes that decide, and that correct and report
  Requests, Corrections,\* identities of promotion requests and of corrections
  Wishes,               \* payloads: [complete, decide, needs], needs a request or NoRequest
  NoRequest,
  MayDie,               \* processes that may die in the middle of a call
  MaxDelivered          \* bound: times a correction reaches its thread

VARIABLES
  wish,      \* payload_json of each request
  promotion, \* state of each request
  promoted,  \* the requests whose task exists
  announced, \* signals: for each request, the operations told of it
  fix,       \* state of each correction
  threaded,  \* the corrections whose worker's thread is known
  answered,  \* the corrections with a stored host receipt
  delivered, \* times each correction reached its thread
  unitsDone, \* every unit of the lane is completed
  handoff,   \* the status of the handoff synthesized last, or "none" since a new one began
  bpc, btodo, brow,  \* each process: where it is, its list, its row
  bopen      \* history: what was open when its synthesis began

requestVars == <<wish, promotion, promoted, announced>>
correctionVars == <<fix, threaded, answered, delivered>>
boundaryVars == <<requestVars, correctionVars, unitsDone, handoff, bpc, btodo, brow, bopen>>

BoundaryProcesses == Coordinators \union Lanes

\* A request is not a correction, and nothing dies that does not run.
ASSUME RowsAreApart ==
  Requests \intersect Corrections = {} /\ MayDie \subseteq BoundaryProcesses

BoundaryInit ==
  /\ wish \in [Requests -> Wishes] /\ promotion = [r \in Requests |-> "none"]
  /\ promoted = {} /\ announced = [r \in Requests |-> <<>>]
  /\ fix = [k \in Corrections |-> "none"] /\ threaded = {} /\ answered = {}
  /\ delivered = [k \in Corrections |-> 0]
  /\ unitsDone = FALSE /\ handoff = "none"
  /\ bpc = [p \in BoundaryProcesses |-> "idle"] /\ btodo = [p \in BoundaryProcesses |-> {}]
  /\ brow = [p \in BoundaryProcesses |-> NoRequest] /\ bopen = [p \in BoundaryProcesses |-> {}]

Moves(p, from, to) == bpc[p] = from /\ bpc' = [bpc EXCEPT ![p] = to]
KeepsList == UNCHANGED <<btodo, brow, bopen>>
ToRow(p, row) == brow' = [brow EXCEPT ![p] = row] /\ UNCHANGED <<btodo, bopen>>
\* Done with its row, the process takes the next one.
DropRow(p) == /\ btodo' = [btodo EXCEPT ![p] = @ \ {brow[p]}]
              /\ UNCHANGED <<brow, bopen>>
Gone(p) == /\ bpc' = [bpc EXCEPT ![p] = "idle"]         /\ btodo' = [btodo EXCEPT ![p] = {}]
           /\ brow' = [brow EXCEPT ![p] = NoRequest]    /\ bopen' = [bopen EXCEPT ![p] = {}]

-----------------------------------------------------------------------------
(* Promotion requests *)

\* request_promotion: the row and its signal.
RequestPromotion(r) ==
  /\ promotion[r] = "none" /\ promotion' = [promotion EXCEPT ![r] = "requested"]
  /\ UNCHANGED <<wish, promoted, announced, correctionVars, unitsDone, handoff, bpc, btodo, brow, bopen>>

\* process_promotion_requests: the requested rows, read once.
ReadRequests(p) ==
  /\ Moves(p, "idle", "next")
  /\ btodo' = [btodo EXCEPT ![p] = {r \in Requests : promotion[r] = "requested"}]
  /\ btodo'[p] # {}
  /\ UNCHANGED <<requestVars, correctionVars, unitsDone, handoff, brow, bopen>>

\* _promotion_rejection
Unacceptable(r) ==
  ~wish[r].complete \/ (wish[r].needs # NoRequest /\ wish[r].needs \notin promoted)

Consider(p, r) ==
  /\ r \in btodo[p] /\ ToRow(p, r)
  /\ Moves(p, "next", IF wish[r].decide THEN "ask" ELSE IF Unacceptable(r) THEN "reject" ELSE "accept")
  /\ UNCHANGED <<requestVars, correctionVars, unitsDone, handoff>>

Announce(r, operation) == announced' = [announced EXCEPT ![r] = Append(@, operation)]

\* A user's decision is asked for when no signal asks for it yet.
LooksForSignal(p) ==
  /\ Moves(p, "ask", IF "decision" \in {announced[brow[p]][i] : i \in DOMAIN announced[brow[p]]} THEN "skip" ELSE "signal")
  /\ KeepsList /\ UNCHANGED <<requestVars, correctionVars, unitsDone, handoff>>
AskDecision(p) ==
  /\ \/ Moves(p, "signal", "next") /\ Announce(brow[p], "decision")
     \/ Moves(p, "skip", "next") /\ UNCHANGED announced
  /\ DropRow(p) /\ UNCHANGED <<wish, promotion, promoted, correctionVars, unitsDone, handoff>>

\* The row changes if it is still requested; the signal is sent whatever it is.
Reject(p) ==
  /\ Moves(p, "reject", "next") /\ DropRow(p)
  /\ promotion' = [promotion EXCEPT ![brow[p]] = IF @ = "requested" THEN "rejected" ELSE @]
  /\ Announce(brow[p], "rejected")
  /\ UNCHANGED <<wish, promoted, correctionVars, unitsDone, handoff>>

\* A plausible slip: the state read before is trusted.
AcceptAsRead(p) ==
  /\ Moves(p, "accept", "next") /\ DropRow(p)
  /\ promotion' = [promotion EXCEPT ![brow[p]] = "accepted"]
  /\ promoted' = promoted \union {brow[p]} /\ Announce(brow[p], "created")
  /\ UNCHANGED <<wish, correctionVars, unitsDone, handoff>>

\* _accept_promotion: one transaction that reads the row again.
Accept(p) ==
  /\ Moves(p, "accept", "next") /\ DropRow(p)
  /\ IF promotion[brow[p]] # "requested" THEN UNCHANGED <<promotion, promoted, announced>>
     ELSE /\ promotion' = [promotion EXCEPT ![brow[p]] = "accepted"]
          /\ promoted' = promoted \union {brow[p]} /\ Announce(brow[p], "created")
  /\ UNCHANGED <<wish, correctionVars, unitsDone, handoff>>

Processed(p) ==
  /\ bpc[p] = "next" /\ btodo[p] = {} /\ Gone(p)
  /\ UNCHANGED <<requestVars, correctionVars, unitsDone, handoff>>

-----------------------------------------------------------------------------
(* Corrections *)

\* correct: for the newest attempt, whose receipt may not have come yet.
RequestCorrection(k) ==
  /\ fix[k] = "none" /\ fix' = [fix EXCEPT ![k] = "requested"]
  /\ \E known \in BOOLEAN : threaded' = IF known THEN threaded \union {k} ELSE threaded
  /\ UNCHANGED <<requestVars, answered, delivered, unitsDone, handoff, bpc, btodo, brow, bopen>>
ThreadBecomesKnown(k) ==
  /\ fix[k] # "none" /\ k \notin threaded /\ threaded' = threaded \union {k}
  /\ UNCHANGED <<requestVars, fix, answered, delivered, unitsDone, handoff, bpc, btodo, brow, bopen>>

\* process_corrections: rows whose thread is unknown are passed over.
ReadCorrections(p) ==
  /\ Moves(p, "idle", "fix")
  /\ btodo' = [btodo EXCEPT ![p] = {k \in threaded : fix[k] \in {"requested", "sent"}}]
  /\ btodo'[p] # {}
  /\ UNCHANGED <<requestVars, correctionVars, unitsDone, handoff, brow, bopen>>

MarkSent(p, k) ==
  /\ k \in btodo[p] /\ ToRow(p, k) /\ Moves(p, "fix", "deliver")
  /\ fix' = [fix EXCEPT ![k] = IF @ \in {"requested", "sent"} THEN "sent" ELSE @]
  /\ UNCHANGED <<requestVars, threaded, answered, delivered, unitsDone, handoff>>

\* bridge.dispatch: a stored receipt answers for the host.  Otherwise the
\* thread gets the message, and the host names the thread, or does not, or raises.
Deliver(p) ==
  LET k == brow[p] IN
  /\ bpc[p] = "deliver" /\ KeepsList
  /\ IF k \in answered THEN Moves(p, "deliver", "resolve") /\ UNCHANGED delivered
     ELSE /\ delivered[k] < MaxDelivered /\ delivered' = [delivered EXCEPT ![k] = @ + 1]
          /\ \E next \in {"store", "unsure", "fail"} : Moves(p, "deliver", next)
  /\ UNCHANGED <<requestVars, fix, threaded, answered, unitsDone, handoff>>

StoreAnswer(p) ==
  /\ Moves(p, "store", "resolve") /\ answered' = answered \union {brow[p]} /\ KeepsList
  /\ UNCHANGED <<requestVars, fix, threaded, delivered, unitsDone, handoff>>

\* The row takes what this process saw, whatever another has written.
Settle(p) ==
  /\ \/ /\ Moves(p, "resolve", "fix") /\ DropRow(p) /\ fix' = [fix EXCEPT ![brow[p]] = "resolved"]
     \/ /\ Moves(p, "unsure", "fix")  /\ DropRow(p) /\ fix' = [fix EXCEPT ![brow[p]] = "sent"]
     \/ /\ bpc[p] = "fail" /\ Gone(p) /\ fix' = [fix EXCEPT ![brow[p]] = "failed"]
  /\ UNCHANGED <<requestVars, threaded, answered, delivered, unitsDone, handoff>>

Corrected(p) ==
  /\ bpc[p] = "fix" /\ btodo[p] = {} /\ Gone(p)
  /\ UNCHANGED <<requestVars, correctionVars, unitsDone, handoff>>

-----------------------------------------------------------------------------
(* The lane's handoff *)

WorkDone ==
  /\ ~unitsDone /\ unitsDone' = TRUE
  /\ UNCHANGED <<requestVars, correctionVars, handoff, bpc, btodo, brow, bopen>>

OpenRequests == {r \in Requests : promotion[r] = "requested"}
\* A plausible slip: a correction that failed counts as settled.
UnsentCorrections == {k \in Corrections : fix[k] \in {"requested", "sent"}}
OpenCorrections == {k \in Corrections : fix[k] \in {"requested", "sent", "failed"}}
Unresolved == OpenRequests \union {k \in Corrections : fix[k] \in {"requested", "sent", "failed"}}

\* synthesize_handoff: the units, the requests and the corrections are three
\* reads, and requests and corrections may be opened in between.
ReadUnits(p) ==
  /\ Moves(p, "idle", IF unitsDone THEN "requests" ELSE "blocked")
  /\ bopen' = [bopen EXCEPT ![p] = Unresolved] /\ handoff' = "none"
  /\ UNCHANGED <<requestVars, correctionVars, unitsDone, btodo, brow>>
ReadOpenRequests(p) ==
  /\ Moves(p, "requests", IF OpenRequests = {} THEN "corrections" ELSE "blocked") /\ KeepsList
  /\ UNCHANGED <<requestVars, correctionVars, unitsDone, handoff>>
Synthesize(p) ==
  /\ bpc[p] \in {"corrections", "blocked"} /\ Gone(p)
  /\ handoff' = IF bpc[p] = "corrections" /\ OpenCorrections = {} THEN "completed" ELSE "blocked"
  /\ UNCHANGED <<requestVars, correctionVars, unitsDone>>

Dies(p) == /\ bpc[p] # "idle" /\ Gone(p)
           /\ UNCHANGED <<requestVars, correctionVars, unitsDone, handoff>>

BoundaryNext ==
  \/ \E r \in Requests : RequestPromotion(r)
  \/ \E k \in Corrections : RequestCorrection(k) \/ ThreadBecomesKnown(k)
  \/ WorkDone
  \/ \E p \in Coordinators :
       \/ ReadRequests(p) \/ \E r \in Requests : Consider(p, r)
       \/ LooksForSignal(p) \/ AskDecision(p) \/ Reject(p) \/ Accept(p) \/ Processed(p)
  \/ \E p \in Lanes :
       \/ ReadCorrections(p) \/ \E k \in Corrections : MarkSent(p, k)
       \/ Deliver(p) \/ StoreAnswer(p) \/ Settle(p) \/ Corrected(p)
       \/ ReadUnits(p) \/ ReadOpenRequests(p) \/ Synthesize(p)
  \/ \E p \in MayDie : Dies(p)

-----------------------------------------------------------------------------
\* The signals that told of a task of r, one exactly when there is a task.
Announcements(r) == {i \in DOMAIN announced[r] : announced[r][i] = "created"}
AnnouncedOnce(r) == IF r \in promoted THEN \E i \in DOMAIN announced[r] : Announcements(r) = {i} ELSE Announcements(r) = {}

\* A request is decided once, whatever lists the coordinators still hold: a
\* decided one keeps its state, and its task exists, and was announced, exactly
\* when it was accepted.
PromotionDecidedOnce ==
  [][\A r \in Requests :
       /\ promotion[r] \in {"rejected", "accepted"} => promotion'[r] = promotion[r]
       /\ r \in promoted' <=> promotion'[r] = "accepted"
       /\ AnnouncedOnce(r)']_boundaryVars

\* A handoff says completed only when the units are, nothing that was open when
\* its synthesis began is open still, and every correction among it reached its
\* thread.
CompletedHandoffLeavesNothingOpen ==
  [][handoff # "completed" /\ handoff' = "completed" =>
       \E p \in Lanes :
         /\ bpc[p] = "corrections" /\ bpc'[p] = "idle" /\ unitsDone
         /\ bopen[p] \intersect Unresolved = {}
         /\ \A k \in bopen[p] \intersect Corrections : delivered[k] > 0]_boundaryVars
=============================================================================
