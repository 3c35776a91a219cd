--------------------------- MODULE Handoff_proofs ---------------------------
(***************************************************************************)
(* What a handoff says is so, for any number of coordinators, lanes,       *)
(* requests, files, commits and procedures.                                *)
(*                                                                         *)
(* Boundaries: a lane that hands its work over as completed has left       *)
(* nothing open that was open when it began to look. The three reads of    *)
(* the synthesis are not one transaction: what each has found is kept true *)
(* by every other process until the handoff is written. And a promotion    *)
(* request is decided once: whatever a coordinator read of it earlier, an  *)
(* acceptance looks at the request, makes the task and tells of it in one  *)
(* transaction.                                                            *)
(*                                                                         *)
(* Evidence: what a bundle says of paths and commands was so when it was   *)
(* made. The invariant follows each of the collector's reads to the        *)
(* bundle, since files and commits may change between any two of them.     *)
(***************************************************************************)
EXTENDS Boundaries, Evidence, TLAPS

-----------------------------------------------------------------------------
(* Boundaries: the three reads of a synthesis *)

BoundarySpec == BoundaryInit /\ [][BoundaryNext]_boundaryVars

Places == {"idle", "next", "ask", "signal", "skip", "reject", "accept", "fix", "deliver", "store",
           "resolve", "unsure", "fail", "requests", "corrections", "blocked"}

BoundaryTypes ==
  /\ promotion \in [Requests -> {"none", "requested", "rejected", "accepted"}]
  /\ fix \in [Corrections -> {"none", "requested", "sent", "resolved", "failed"}]
  /\ delivered \in [Corrections -> Nat]
  /\ bpc \in [BoundaryProcesses -> Places]
  /\ bopen \in [BoundaryProcesses -> SUBSET (Requests \union Corrections)]
  /\ brow \in [BoundaryProcesses -> Requests \union Corrections \union {NoRequest}]
  /\ unitsDone \in BOOLEAN

\* A correction that is answered, settled, or about to be, reached its thread.
Reached ==
  /\ \A k \in Corrections : k \in answered \/ fix[k] = "resolved" => delivered[k] > 0
  /\ \A p \in BoundaryProcesses : \A k \in Corrections :
       bpc[p] \in {"store", "resolve"} /\ brow[p] = k => delivered[k] > 0
  /\ \A p \in BoundaryProcesses :
       bpc[p] \in {"deliver", "store", "resolve", "unsure", "fail"} => brow[p] \in Corrections

\* What a lane in the middle of its synthesis has found.
Found ==
  \A p \in BoundaryProcesses :
    /\ bpc[p] \in {"requests", "corrections"} => unitsDone
    /\ \A r \in bopen[p] \intersect Requests : promotion[r] # "none"
    /\ \A k \in bopen[p] \intersect Corrections : fix[k] # "none"
    /\ bpc[p] = "corrections" => \A r \in bopen[p] \intersect Requests : promotion[r] # "requested"

HandoffInv == BoundaryTypes /\ Reached /\ Found

LEMMA Processes ==
  /\ Coordinators \subseteq BoundaryProcesses /\ Lanes \subseteq BoundaryProcesses
  /\ MayDie \subseteq BoundaryProcesses
BY RowsAreApart DEF BoundaryProcesses

\* A process that ends, or dies, has nothing in hand.
LEMMA GoneKeeps ==
  ASSUME HandoffInv, NEW p \in BoundaryProcesses, Gone(p),
         UNCHANGED <<promotion, fix, delivered, answered, unitsDone>>
  PROVE  HandoffInv'
<1>1. /\ bpc' \in [BoundaryProcesses -> Places] /\ bpc'[p] = "idle"
      /\ brow' \in [BoundaryProcesses -> Requests \union Corrections \union {NoRequest}]
      /\ bopen' \in [BoundaryProcesses -> SUBSET (Requests \union Corrections)] /\ bopen'[p] = {}
  BY DEF HandoffInv, BoundaryTypes, Gone, Places
<1>2. \A q \in BoundaryProcesses \ {p} : bpc'[q] = bpc[q] /\ brow'[q] = brow[q] /\ bopen'[q] = bopen[q]
  BY DEF HandoffInv, BoundaryTypes, Gone
<1>3. BoundaryTypes'
  BY <1>1 DEF HandoffInv, BoundaryTypes
<1>4. Reached'
  BY <1>1, <1>2 DEF HandoffInv, Reached
<1>5. Found'
  BY <1>1, <1>2 DEF HandoffInv, Found
<1> QED
  BY <1>3, <1>4, <1>5 DEF HandoffInv

LEMMA InitHandoff == BoundaryInit => HandoffInv
<1> SUFFICES ASSUME BoundaryInit PROVE HandoffInv
  OBVIOUS
<1>1. BoundaryTypes
  BY DEF BoundaryInit, BoundaryTypes, Places
<1>2. Reached
  BY DEF BoundaryInit, Reached
<1>3. Found
  BY DEF BoundaryInit, Found
<1> QED
  BY <1>1, <1>2, <1>3 DEF HandoffInv

-----------------------------------------------------------------------------
\* Requests: only a request that is "none" is opened, and none is opened twice.
LEMMA RequestSteps ==
  ASSUME HandoffInv,
         \/ \E r \in Requests : RequestPromotion(r)
         \/ \E p \in Coordinators :
              \/ ReadRequests(p) \/ \E r \in Requests : Consider(p, r)
              \/ LooksForSignal(p) \/ AskDecision(p) \/ Reject(p) \/ Accept(p) \/ Processed(p)
  PROVE  HandoffInv'
<1> USE DEF HandoffInv, Places, BoundaryTypes, Reached, Found, requestVars, correctionVars
<1>1. CASE \E r \in Requests : RequestPromotion(r)
  BY <1>1 DEF RequestPromotion
<1>2. ASSUME NEW p \in Coordinators, ReadRequests(p) PROVE HandoffInv'
  BY <1>2, Processes DEF ReadRequests, Moves
<1>3. ASSUME NEW p \in Coordinators, NEW r \in Requests, Consider(p, r) PROVE HandoffInv'
  BY <1>3, Processes DEF Consider, Moves, ToRow
<1>4. ASSUME NEW p \in Coordinators, LooksForSignal(p) PROVE HandoffInv'
  BY <1>4, Processes DEF LooksForSignal, Moves, KeepsList
<1>5. ASSUME NEW p \in Coordinators, AskDecision(p) PROVE HandoffInv'
  BY <1>5, Processes DEF AskDecision, Moves, DropRow
<1>6. ASSUME NEW p \in Coordinators, Reject(p) PROVE HandoffInv'
  <2>1. BoundaryTypes'
    BY <1>6, Processes DEF Reject, Moves, DropRow
  <2>2. Reached'
    BY <1>6, Processes DEF Reject, Moves, DropRow
  <2>3. Found'
    BY <1>6, Processes DEF Reject, Moves, DropRow
  <2> QED
    BY <2>1, <2>2, <2>3
<1>7. ASSUME NEW p \in Coordinators, Accept(p) PROVE HandoffInv'
  <2>1. BoundaryTypes'
    BY <1>7, Processes DEF Accept, Moves, DropRow
  <2>2. Reached'
    BY <1>7, Processes DEF Accept, Moves, DropRow
  <2>3. Found'
    BY <1>7, Processes DEF Accept, Moves, DropRow
  <2> QED
    BY <2>1, <2>2, <2>3
<1>8. ASSUME NEW p \in Coordinators, Processed(p) PROVE HandoffInv'
  BY <1>8, Processes, GoneKeeps DEF Processed
<1> QED
  BY <1>1, <1>2, <1>3, <1>4, <1>5, <1>6, <1>7, <1>8

\* Corrections: whoever settles one has a thread that was told.
LEMMA CorrectionSteps ==
  ASSUME HandoffInv,
         \/ \E k \in Corrections : RequestCorrection(k) \/ ThreadBecomesKnown(k)
         \/ \E p \in Lanes :
              \/ ReadCorrections(p) \/ \E k \in Corrections : MarkSent(p, k)
              \/ Deliver(p) \/ StoreAnswer(p) \/ Settle(p) \/ Corrected(p)
  PROVE  HandoffInv'
<1> USE DEF HandoffInv, Places, BoundaryTypes, Reached, Found, requestVars, correctionVars
<1>1. ASSUME NEW k \in Corrections, RequestCorrection(k) PROVE HandoffInv'
  <2>1. BoundaryTypes'
    BY <1>1 DEF RequestCorrection
  <2>2. Reached'
    BY <1>1 DEF RequestCorrection
  <2>3. Found'
    BY <1>1 DEF RequestCorrection
  <2> QED
    BY <2>1, <2>2, <2>3
<1>2. ASSUME NEW k \in Corrections, ThreadBecomesKnown(k) PROVE HandoffInv'
  <2>1. BoundaryTypes'
    BY <1>2 DEF ThreadBecomesKnown
  <2>2. Reached'
    BY <1>2 DEF ThreadBecomesKnown
  <2>3. Found'
    BY <1>2 DEF ThreadBecomesKnown
  <2> QED
    BY <2>1, <2>2, <2>3
<1>3. ASSUME NEW p \in Lanes, ReadCorrections(p) PROVE HandoffInv'
  BY <1>3, Processes DEF ReadCorrections, Moves
<1>4. ASSUME NEW p \in Lanes, NEW k \in Corrections, MarkSent(p, k) PROVE HandoffInv'
  BY <1>4, Processes DEF MarkSent, Moves, ToRow
<1>5. ASSUME NEW p \in Lanes, Deliver(p) PROVE HandoffInv'
  BY <1>5, Processes DEF Deliver, Moves, KeepsList
<1>6. ASSUME NEW p \in Lanes, StoreAnswer(p) PROVE HandoffInv'
  BY <1>6, Processes DEF StoreAnswer, Moves, KeepsList
<1>7. ASSUME NEW p \in Lanes, Settle(p) PROVE HandoffInv'
  <2>1. BoundaryTypes'
    BY <1>7, Processes DEF Settle, Moves, DropRow, Gone
  <2>2. Reached'
    BY <1>7, Processes DEF Settle, Moves, DropRow, Gone
  <2>3. Found'
    BY <1>7, Processes DEF Settle, Moves, DropRow, Gone
  <2> QED
    BY <2>1, <2>2, <2>3
<1>8. ASSUME NEW p \in Lanes, Corrected(p) PROVE HandoffInv'
  BY <1>8, Processes, GoneKeeps DEF Corrected
<1> QED
  BY <1>1, <1>2, <1>3, <1>4, <1>5, <1>6, <1>7, <1>8

\* The synthesis, the end of the units, and a death.
LEMMA SynthesisSteps ==
  ASSUME HandoffInv,
         \/ WorkDone
         \/ \E p \in Lanes : ReadUnits(p) \/ ReadOpenRequests(p) \/ Synthesize(p)
         \/ \E p \in MayDie : Dies(p)
  PROVE  HandoffInv'
<1> USE DEF HandoffInv, Places, BoundaryTypes, Reached, Found, requestVars, correctionVars
<1>1. CASE WorkDone
  BY <1>1 DEF WorkDone
<1>2. ASSUME NEW p \in Lanes, ReadUnits(p) PROVE HandoffInv'
  BY <1>2, Processes, RowsAreApart DEF ReadUnits, Moves, Unresolved, OpenRequests
<1>3. ASSUME NEW p \in Lanes, ReadOpenRequests(p) PROVE HandoffInv'
  BY <1>3, Processes DEF ReadOpenRequests, Moves, KeepsList, OpenRequests
<1>4. ASSUME NEW p \in Lanes, Synthesize(p) PROVE HandoffInv'
  BY <1>4, Processes DEF Synthesize, Gone
<1>5. ASSUME NEW p \in MayDie, Dies(p) PROVE HandoffInv'
  BY <1>5, Processes DEF Dies, Gone
<1> QED
  BY <1>1, <1>2, <1>3, <1>4, <1>5

LEMMA HandoffKept == HandoffInv /\ [BoundaryNext]_boundaryVars => HandoffInv'
<1>1. HandoffInv /\ BoundaryNext => HandoffInv'
  BY RequestSteps, CorrectionSteps, SynthesisSteps DEF BoundaryNext
<1>2. HandoffInv /\ UNCHANGED boundaryVars => HandoffInv'
  BY DEF HandoffInv, BoundaryTypes, Reached, Found, boundaryVars, requestVars, correctionVars
<1> QED
  BY <1>1, <1>2

-----------------------------------------------------------------------------
\* Only the last read of a synthesis writes "completed", and by then the units
\* are done, the requests it began with are decided and the corrections sent.
LEMMA HandoffIsTrue ==
  ASSUME HandoffInv, BoundaryNext, handoff # "completed", handoff' = "completed"
  PROVE  \E p \in Lanes :
           /\ bpc[p] = "corrections" /\ bpc'[p] = "idle" /\ unitsDone
           /\ bopen[p] \intersect Unresolved = {}
           /\ \A k \in bopen[p] \intersect Corrections : delivered[k] > 0
<1>1. handoff' # handoff
  OBVIOUS
<1>2. ~\E r \in Requests : RequestPromotion(r)
  BY <1>1 DEF RequestPromotion
<1>3. ~\E k \in Corrections : RequestCorrection(k) \/ ThreadBecomesKnown(k)
  BY <1>1 DEF RequestCorrection, ThreadBecomesKnown
<1>4. ~\E p \in Coordinators :
         \/ ReadRequests(p) \/ \E r \in Requests : Consider(p, r)
         \/ LooksForSignal(p) \/ AskDecision(p) \/ Reject(p) \/ Accept(p) \/ Processed(p)
  BY <1>1 DEF ReadRequests, Consider, LooksForSignal, AskDecision, Reject, Accept, Processed
<1>5. ~\E p \in Lanes :
         \/ ReadCorrections(p) \/ \E k \in Corrections : MarkSent(p, k)
         \/ Deliver(p) \/ StoreAnswer(p) \/ Settle(p) \/ Corrected(p) \/ ReadOpenRequests(p)
  BY <1>1 DEF ReadCorrections, MarkSent, Deliver, StoreAnswer, Settle, Corrected, ReadOpenRequests
<1>6. ~WorkDone /\ ~\E p \in MayDie : Dies(p)
  BY <1>1 DEF WorkDone, Dies
<1>7. ~\E p \in Lanes : ReadUnits(p)
  BY DEF ReadUnits
<1>8. PICK p \in Lanes : Synthesize(p)
  BY <1>2, <1>3, <1>4, <1>5, <1>6, <1>7 DEF BoundaryNext
<1>9. bpc[p] = "corrections" /\ OpenCorrections = {} /\ bpc' = [bpc EXCEPT ![p] = "idle"]
  BY <1>8 DEF Synthesize, Gone
<1>10. p \in BoundaryProcesses
  BY DEF BoundaryProcesses
<1>11. unitsDone /\ \A r \in bopen[p] \intersect Requests : promotion[r] # "requested"
  BY <1>9, <1>10 DEF HandoffInv, Found
<1>12. bopen[p] \intersect Unresolved = {}
  BY <1>9, <1>11 DEF Unresolved, OpenRequests, OpenCorrections
<1>13. \A k \in bopen[p] \intersect Corrections : fix[k] = "resolved"
  <2> SUFFICES ASSUME NEW k \in bopen[p] \intersect Corrections PROVE fix[k] = "resolved"
    OBVIOUS
  <2>1. fix[k] # "none"
    BY <1>10 DEF HandoffInv, Found
  <2>2. fix[k] \notin {"requested", "sent", "failed"}
    BY <1>9 DEF OpenCorrections
  <2> QED
    BY <2>1, <2>2 DEF HandoffInv, BoundaryTypes
<1> QED
  BY <1>9, <1>10, <1>11, <1>12, <1>13 DEF HandoffInv, BoundaryTypes, Reached

\* A handoff that says completed leaves nothing open of what was open when its
\* synthesis began: units, promotion requests and corrections.
THEOREM CompletedIsClosed == BoundarySpec => CompletedHandoffLeavesNothingOpen
<1>1. BoundarySpec => []HandoffInv
  BY InitHandoff, HandoffKept, PTL DEF BoundarySpec
<1>2. HandoffInv /\ [BoundaryNext]_boundaryVars =>
        [handoff # "completed" /\ handoff' = "completed" =>
           \E p \in Lanes :
             /\ bpc[p] = "corrections" /\ bpc'[p] = "idle" /\ unitsDone
             /\ bopen[p] \intersect Unresolved = {}
             /\ \A k \in bopen[p] \intersect Corrections : delivered[k] > 0]_boundaryVars
  BY HandoffIsTrue
<1> QED
  BY <1>1, <1>2, PTL DEF BoundarySpec, CompletedHandoffLeavesNothingOpen

-----------------------------------------------------------------------------
(* Boundaries: a promotion request is decided once *)

\* A request is accepted together with its task and the signal of it.
DecidedInv ==
  /\ promotion \in [Requests -> {"none", "requested", "rejected", "accepted"}]
  /\ announced \in [Requests -> Seq({"decision", "rejected", "created"})]
  /\ \A r \in Requests : (r \in promoted <=> promotion[r] = "accepted") /\ AnnouncedOnce(r)

\* What a signal of another kind, and the one of the task, add.
LEMMA OneMoreSignal ==
  ASSUME DecidedInv, NEW x, NEW o \in {"decision", "rejected", "created"}, Announce(x, o)
  PROVE  /\ announced' \in [Requests -> Seq({"decision", "rejected", "created"})]
         /\ \A r \in Requests \ {x} : announced'[r] = announced[r]
         /\ x \in Requests =>
              LET n == Len(announced[x]) + 1 IN
              /\ n \in DOMAIN announced'[x]
              /\ Announcements(x)' = IF o = "created" THEN Announcements(x) \union {n} ELSE Announcements(x)
              /\ DOMAIN announced[x] \subseteq DOMAIN announced'[x]
<1>1. CASE x \notin Requests
  BY <1>1 DEF DecidedInv, Announce
<1>2. CASE x \in Requests
  <2> DEFINE s == announced[x]
             n == Len(s) + 1
  <2>1. s \in Seq({"decision", "rejected", "created"})
    BY <1>2 DEF DecidedInv
  <2>2. Append(s, o) \in Seq({"decision", "rejected", "created"})
    BY <2>1
  <2>3. /\ announced' \in [Requests -> Seq({"decision", "rejected", "created"})]
        /\ \A r \in Requests \ {x} : announced'[r] = announced[r]
        /\ announced'[x] = Append(s, o)
    BY <1>2, <2>2 DEF DecidedInv, Announce
  <2>4. /\ DOMAIN s = 1 .. Len(s) /\ DOMAIN Append(s, o) = 1 .. n /\ Len(s) \in Nat /\ Append(s, o)[n] = o
        /\ \A i \in DOMAIN s : Append(s, o)[i] = s[i]
    BY <2>1
  <2>5. DOMAIN Append(s, o) = DOMAIN s \union {n} /\ n \notin DOMAIN s
    BY <2>4
  <2> HIDE DEF s, n
  <2>6. Announcements(x) = {i \in DOMAIN s : s[i] = "created"}
    BY DEF Announcements, s
  <2>7. Announcements(x)' = {i \in DOMAIN Append(s, o) : Append(s, o)[i] = "created"}
    BY <2>3 DEF Announcements
  <2>8. Announcements(x)' = IF o = "created" THEN Announcements(x) \union {n} ELSE Announcements(x)
    BY <2>4, <2>5, <2>6, <2>7
  <2> QED
    BY <2>3, <2>5, <2>8 DEF s, n
<1> QED
  BY <1>1, <1>2

\* A signal of another kind leaves all as it is.
LEMMA OtherSignal ==
  ASSUME DecidedInv, NEW x, NEW o \in {"decision", "rejected"}, Announce(x, o), UNCHANGED promoted
  PROVE  /\ announced' \in [Requests -> Seq({"decision", "rejected", "created"})]
         /\ \A r \in Requests : AnnouncedOnce(r)'
<1>1. /\ announced' \in [Requests -> Seq({"decision", "rejected", "created"})]
      /\ \A r \in Requests \ {x} : announced'[r] = announced[r]
      /\ x \in Requests => Announcements(x)' = Announcements(x) /\ DOMAIN announced[x] \subseteq DOMAIN announced'[x]
  BY OneMoreSignal
<1>2. \A r \in Requests : Announcements(r)' = Announcements(r) /\ DOMAIN announced[r] \subseteq DOMAIN announced'[r]
  BY <1>1 DEF Announcements
<1> QED
  BY <1>1, <1>2 DEF DecidedInv, AnnouncedOnce

\* An acceptance makes the task and tells of it, once.
LEMMA Acceptance ==
  ASSUME DecidedInv, NEW x, promotion[x] = "requested", promotion' = [promotion EXCEPT ![x] = "accepted"],
         promoted' = promoted \union {x}, Announce(x, "created")
  PROVE  /\ DecidedInv'
         /\ \A r \in Requests : promotion[r] \in {"rejected", "accepted"} => promotion'[r] = promotion[r]
<1>1. /\ promotion' \in [Requests -> {"none", "requested", "rejected", "accepted"}]
      /\ \A r \in Requests : promotion'[r] = IF r = x THEN "accepted" ELSE promotion[r]
  BY DEF DecidedInv
<1>2. /\ announced' \in [Requests -> Seq({"decision", "rejected", "created"})]
      /\ \A r \in Requests \ {x} : announced'[r] = announced[r]
      /\ x \in Requests =>
           /\ Len(announced[x]) + 1 \in DOMAIN announced'[x]
           /\ Announcements(x)' = Announcements(x) \union {Len(announced[x]) + 1}
  BY OneMoreSignal
<1>3. ASSUME x \in Requests PROVE AnnouncedOnce(x)'
  <2>1. Announcements(x) = {}
    BY <1>3 DEF DecidedInv, AnnouncedOnce
  <2>2. Announcements(x)' = {Len(announced[x]) + 1} /\ Len(announced[x]) + 1 \in DOMAIN announced'[x]
    BY <1>2, <1>3, <2>1
  <2> QED
    BY <2>2 DEF AnnouncedOnce
<1>4. ASSUME NEW r \in Requests \ {x} PROVE AnnouncedOnce(r)'
  <2>1. announced'[r] = announced[r] /\ (r \in promoted' <=> r \in promoted)
    BY <1>2
  <2>2. AnnouncedOnce(r)
    BY DEF DecidedInv
  <2> QED
    BY <2>1, <2>2 DEF AnnouncedOnce, Announcements
<1>5. \A r \in Requests : AnnouncedOnce(r)'
  BY <1>3, <1>4
<1>6. \A r \in Requests : r \in promoted' <=> promotion'[r] = "accepted"
  BY <1>1 DEF DecidedInv
<1> QED
  BY <1>1, <1>2, <1>5, <1>6 DEF DecidedInv

\* The steps that decide, and those that leave requests alone.
LEMMA DecisionSteps ==
  ASSUME DecidedInv, [BoundaryNext]_boundaryVars
  PROVE  /\ DecidedInv'
         /\ \A r \in Requests : promotion[r] \in {"rejected", "accepted"} => promotion'[r] = promotion[r]
<1> DEFINE Kept == \A r \in Requests : promotion[r] \in {"rejected", "accepted"} => promotion'[r] = promotion[r]
<1>1. ASSUME UNCHANGED <<promotion, promoted, announced>> PROVE DecidedInv' /\ Kept
  BY <1>1 DEF DecidedInv, AnnouncedOnce, Announcements
<1>2. ASSUME NEW r \in Requests, RequestPromotion(r) PROVE DecidedInv' /\ Kept
  BY <1>2 DEF RequestPromotion, DecidedInv, AnnouncedOnce, Announcements
<1>3. ASSUME NEW p, AskDecision(p) PROVE DecidedInv' /\ Kept
  <2>1. UNCHANGED <<promotion, promoted>> /\ (Announce(brow[p], "decision") \/ UNCHANGED announced)
    BY <1>3 DEF AskDecision
  <2> QED
    BY <1>1, <2>1, OtherSignal DEF DecidedInv
<1>4. ASSUME NEW p, Reject(p) PROVE DecidedInv' /\ Kept
  <2>1. /\ promotion' = [promotion EXCEPT ![brow[p]] = IF @ = "requested" THEN "rejected" ELSE @]
        /\ Announce(brow[p], "rejected") /\ UNCHANGED promoted
    BY <1>4 DEF Reject
  <2>2. /\ promotion' \in [Requests -> {"none", "requested", "rejected", "accepted"}]
        /\ \A r \in Requests : promotion'[r] = "accepted" <=> promotion[r] = "accepted"
        /\ Kept
    BY <2>1 DEF DecidedInv
  <2> QED
    BY <2>1, <2>2, OtherSignal DEF DecidedInv
<1>5. ASSUME NEW p, Accept(p) PROVE DecidedInv' /\ Kept
  <2>1. CASE UNCHANGED <<promotion, promoted, announced>>
    BY <1>1, <2>1
  <2>2. CASE /\ promotion[brow[p]] = "requested" /\ promotion' = [promotion EXCEPT ![brow[p]] = "accepted"]
             /\ promoted' = promoted \union {brow[p]} /\ Announce(brow[p], "created")
    BY <2>2, Acceptance
  <2> QED
    BY <1>5, <2>1, <2>2 DEF Accept
<1>6. CASE \E p \in Coordinators : \/ ReadRequests(p) \/ \E r \in Requests : Consider(p, r)
                                  \/ LooksForSignal(p) \/ Processed(p)
  BY <1>1, <1>6 DEF ReadRequests, Consider, LooksForSignal, Processed, requestVars
<1>7. CASE WorkDone \/ \E k \in Corrections : RequestCorrection(k) \/ ThreadBecomesKnown(k)
  BY <1>1, <1>7 DEF WorkDone, RequestCorrection, ThreadBecomesKnown, requestVars
<1>8. CASE \E p \in Lanes : \/ ReadCorrections(p) \/ \E k \in Corrections : MarkSent(p, k)
                            \/ Deliver(p) \/ StoreAnswer(p) \/ Settle(p) \/ Corrected(p)
  BY <1>1, <1>8 DEF ReadCorrections, MarkSent, Deliver, StoreAnswer, Settle, Corrected, requestVars
<1>9. CASE \/ \E p \in Lanes : ReadUnits(p) \/ ReadOpenRequests(p) \/ Synthesize(p)
           \/ \E p \in MayDie : Dies(p)
  BY <1>1, <1>9 DEF ReadUnits, ReadOpenRequests, Synthesize, Dies, requestVars
<1>10. CASE UNCHANGED boundaryVars
  BY <1>1, <1>10 DEF boundaryVars, requestVars
<1> QED
  BY <1>2, <1>3, <1>4, <1>5, <1>6, <1>7, <1>8, <1>9, <1>10 DEF BoundaryNext

\* For any requests and coordinators with lists of any age, and whoever dies: a
\* decided request keeps its state, and has its task, announced once, exactly
\* when it was accepted (process_promotion_requests, _accept_promotion).
THEOREM DecidedOnce == BoundarySpec => PromotionDecidedOnce
<1>1. BoundaryInit => DecidedInv
  BY DEF BoundaryInit, DecidedInv, AnnouncedOnce, Announcements
<1>2. DecidedInv /\ [BoundaryNext]_boundaryVars => DecidedInv'
  BY DecisionSteps
<1>3. DecidedInv /\ [BoundaryNext]_boundaryVars =>
        [\A r \in Requests :
           /\ promotion[r] \in {"rejected", "accepted"} => promotion'[r] = promotion[r]
           /\ r \in promoted' <=> promotion'[r] = "accepted"
           /\ AnnouncedOnce(r)']_boundaryVars
  BY DecisionSteps DEF DecidedInv
<1> QED
  BY <1>1, <1>2, <1>3, PTL DEF BoundarySpec, PromotionDecidedOnce

-----------------------------------------------------------------------------
(* Evidence: what a bundle says was so when it was made, and stays so        *)

EvidenceSpec == EvidenceInit /\ [][EvidenceNext]_evidenceVars

Commit == [parent : Nat, tree : SUBSET Files]

WorktreeInv ==
  /\ commits \in Seq(Commit) /\ head \in DOMAIN commits /\ working \subseteq Files
  /\ 1 \in DOMAIN commits /\ commits[1].tree = {}

\* Commits are only ever added.
Grows == DOMAIN commits \subseteq DOMAIN commits' /\ \A c \in DOMAIN commits : commits'[c] = commits[c]

\* The paths a bundle or a job claims for the commit c are what c changed.
ClaimFits(c, paths) ==
  setting.adapter = "git" /\ setting.base /\ c > 1 => paths = Changed(TreeOf(1), TreeOf(c))

\* A receipt shows conditions of one of the contract's procedures.
FromContract(r) == \E s \in contract.specs : s.kind \in Automatable /\ r.satisfies = s.satisfies

\* One of the receipts is the command's, and a pass means that it ran.
Answered(s, receipts) == \E r \in receipts : r.id = s.id /\ (Passes(r) => s \in ran)

JobFields ==
  {"pc", "todo", "writing", "receipt", "receipts", "head", "claimed", "tip", "quiet"}
ReceiptFields == {"id", "status", "satisfies", "refs"}
OfWorktree == {"claims", "again", "status"}

\* The receipts there are, the one in the making included.
Receipts == job.receipts \union (IF job.pc = "storing" THEN {job.receipt} ELSE {})

JobInv ==
  /\ job = [f \in JobFields |-> job[f]] /\ job.todo \subseteq Commands
  /\ job.quiet \in BOOLEAN
  /\ job.pc \in {"idle", "checks", "storing"} \union OfWorktree
  /\ \A r \in Receipts : FromContract(r) /\ r = [f \in ReceiptFields |-> r[f]]
  /\ job.pc # "idle" => \A s \in Commands \ job.todo : Answered(s, Receipts)
  /\ job.pc \in OfWorktree =>
       /\ job.todo = {} /\ setting.adapter # "none"
       /\ job.head \in DOMAIN commits /\ (job.quiet => job.head = head)
  /\ job.pc \in {"again", "status"} => ClaimFits(job.head, job.claimed)
  /\ job.pc = "status" => job.tip \in DOMAIN commits /\ (job.quiet => job.tip = head)

Owns(paths) == paths \subseteq Owned \ Protected

SoundBundle(b) ==
  /\ setting.adapter # "none" => b.head \in DOMAIN commits
  /\ setting.adapter # "none" /\ b.valid => Owns(b.paths) /\ ClaimFits(b.head, b.paths)
  /\ /\ b.quiet /\ setting.adapter = "git" /\ setting.base /\ b.head > 1
     /\ Owns(Changed(TreeOf(1), TreeOf(b.head)))
     => b.valid
  /\ b.verified => b.valid /\ ~AsksSomebody /\ \A r \in b.receipts : Passes(r)
  /\ \A r \in b.receipts : FromContract(r)
  /\ \A s \in Commands : Answered(s, b.receipts)

BundleInv ==
  /\ \A b \in bundles : SoundBundle(b)
  /\ accepted \subseteq bundles
  /\ \A b \in accepted : b.verified /\ \A c \in contract.conditions : Satisfied(c, b.receipts)

EvidenceInv ==
  /\ WorktreeInv /\ JobInv /\ BundleInv
  /\ \A s \in ran : Evaluate(s) = "trusted"

LEMMA InitEvidence == EvidenceInit => EvidenceInv
<1> SUFFICES ASSUME EvidenceInit PROVE EvidenceInv
  OBVIOUS
<1>1. WorktreeInv
  BY DEF EvidenceInit, WorktreeInv, Commit
<1>2. /\ job = [f \in JobFields |-> job[f]] /\ job.todo = {} /\ job.pc = "idle" /\ job.receipts = {}
      /\ job.quiet = TRUE
  BY DEF EvidenceInit, NotCollecting, JobFields
<1>3. JobInv
  BY <1>2 DEF JobInv, Receipts, OfWorktree
<1> QED
  BY <1>1, <1>3 DEF EvidenceInit, EvidenceInv, BundleInv

\* What a bundle says stays true while commits and commands are only added.
LEMMA BundlesStay ==
  ASSUME EvidenceInv, Grows, UNCHANGED <<contract, setting, accepted>>, ran \subseteq ran',
         NEW b, SoundBundle(b)
  PROVE  SoundBundle(b)'
<1>1. SoundBundle(b)
  OBVIOUS
<1>2. \A c \in DOMAIN commits : TreeOf(c)' = TreeOf(c)
  BY DEF Grows, TreeOf
<1>3. 1 \in DOMAIN commits
  BY DEF EvidenceInv, WorktreeInv
<1>4. \A r : FromContract(r)' <=> FromContract(r)
  BY DEF FromContract
<1>5. Commands' = Commands /\ (AsksSomebody' <=> AsksSomebody)
  BY DEF Commands, AsksSomebody
<1>6. \A s, receipts : Answered(s, receipts) => Answered(s, receipts)'
  BY DEF Answered
<1>7. ClaimFits(b.head, b.paths) /\ b.head \in DOMAIN commits => ClaimFits(b.head, b.paths)'
  BY <1>2, <1>3 DEF ClaimFits
<1>8. setting.adapter = "git" => Changed(TreeOf(1), TreeOf(b.head))' = Changed(TreeOf(1), TreeOf(b.head))
  BY <1>1, <1>2, <1>3 DEF SoundBundle, Changed
<1>9. b.head \in DOMAIN commits => b.head \in DOMAIN commits'
  BY DEF Grows
<1> QED
  BY <1>1, <1>4, <1>5, <1>6, <1>7, <1>8, <1>9 DEF SoundBundle

LEMMA WorkerKeeps ==
  ASSUME EvidenceInv, WorktreeInv', Grows, Disturbs
  PROVE  EvidenceInv'
<1>1. UNCHANGED <<contract, setting, bundles, accepted, ran>> /\ job' = [job EXCEPT !.quiet = FALSE]
  BY DEF Disturbs
<1>2. job = [f \in JobFields |-> job[f]]
  BY DEF EvidenceInv, JobInv
<1>3. /\ job' = [f \in JobFields |-> job'[f]] /\ job'.quiet = FALSE /\ job'.todo = job.todo /\ job'.pc = job.pc
      /\ job'.receipts = job.receipts /\ job'.receipt = job.receipt /\ job'.head = job.head
      /\ job'.claimed = job.claimed /\ job'.tip = job.tip
  BY <1>1, <1>2 DEF JobFields
<1>4. Receipts' = Receipts /\ Commands' = Commands
  BY <1>1, <1>3 DEF Receipts, Commands
<1>5. \A r : FromContract(r)' <=> FromContract(r)
  BY <1>1 DEF FromContract
<1>6. \A s, receipts : Answered(s, receipts)' <=> Answered(s, receipts)
  BY <1>1 DEF Answered
<1>7. ASSUME job.head \in DOMAIN commits, ClaimFits(job.head, job.claimed)
      PROVE  ClaimFits(job.head, job.claimed)'
  <2>1. TreeOf(1)' = TreeOf(1) /\ TreeOf(job.head)' = TreeOf(job.head)
    BY <1>3, <1>7 DEF Grows, TreeOf, EvidenceInv, WorktreeInv
  <2> QED
    BY <1>1, <1>3, <1>7, <2>1 DEF ClaimFits, Changed
<1>8. JobInv'
  <2>1. \A c \in DOMAIN commits : c \in DOMAIN commits'
    BY DEF Grows
  <2> QED
    BY <1>1, <1>3, <1>4, <1>5, <1>6, <1>7, <2>1 DEF EvidenceInv, JobInv, OfWorktree
<1>9. BundleInv'
  <2>1. \A b \in bundles : SoundBundle(b)'
    BY <1>1, BundlesStay DEF EvidenceInv, BundleInv
  <2> QED
    BY <1>1, <2>1 DEF EvidenceInv, BundleInv, Satisfied
<1> QED
  BY <1>1, <1>8, <1>9 DEF EvidenceInv

\* A step of the collector that makes no bundle only has to keep its own part.
LEMMA CollectorKeeps ==
  ASSUME EvidenceInv, Collects, bundles' = bundles, JobInv',
         ran \subseteq ran', \A s \in ran' : Evaluate(s) = "trusted"
  PROVE  EvidenceInv'
<1>1. UNCHANGED <<contract, setting, accepted, commits, head, working>>
  BY DEF Collects, worktree
<1>2. Grows /\ WorktreeInv'
  BY <1>1 DEF Grows, EvidenceInv, WorktreeInv
<1>3. \A b \in bundles : SoundBundle(b)'
  BY <1>1, <1>2, BundlesStay DEF EvidenceInv, BundleInv
<1>4. BundleInv'
  BY <1>1, <1>3 DEF EvidenceInv, BundleInv, Satisfied
<1> QED
  BY <1>2, <1>4 DEF EvidenceInv

\* The procedures whose commands run are the contract's, and may be asked.
LEMMA CommandFits ==
  ASSUME JobInv, NEW s \in job.todo, NEW status
  PROVE  LET r == Receipt(s, status) IN
         /\ s \in Commands /\ FromContract(r) /\ r = [f \in ReceiptFields |-> r[f]]
         /\ r.id = s.id /\ r.status = status
<1>1. s \in Commands /\ s \in contract.specs /\ s.kind = "command"
  BY DEF JobInv, Commands
<1> QED
  BY <1>1 DEF FromContract, Automatable, Receipt, ReceiptFields

LEMMA ChecksKeep ==
  ASSUME EvidenceInv,
         \/ StartCollecting \/ CheckDone
         \/ \E s \in job.todo : HoldBack(s)
         \/ \E s \in job.todo : \E status \in {"pass", "fail", "timeout"}, out, err \in Outputs \union {Silent} :
              RunCheck(s, status, out, err)
  PROVE  EvidenceInv'
<1>0. JobInv /\ job = [f \in JobFields |-> job[f]] /\ \A s \in ran : Evaluate(s) = "trusted"
  BY DEF EvidenceInv, JobInv
<1>1. CASE StartCollecting
  <2>1. /\ job' = [NotCollecting EXCEPT !.pc = "checks", !.todo = Commands]
        /\ Collects /\ UNCHANGED <<artifacts, bundles, ran>>
    BY <1>1 DEF StartCollecting
  <2>2. /\ job' = [f \in JobFields |-> job'[f]] /\ job'.todo = Commands /\ job'.receipts = {}
        /\ job'.quiet = TRUE /\ job'.pc = "checks"
    BY <2>1 DEF NotCollecting, JobFields
  <2>3. Commands' = Commands /\ Receipts' = {}
    BY <2>1, <2>2 DEF Commands, Collects, Receipts
  <2>4. JobInv'
    BY <2>2, <2>3 DEF JobInv, OfWorktree
  <2> QED
    BY <1>0, <2>1, <2>4, CollectorKeeps
<1>2. ASSUME NEW s \in job.todo, HoldBack(s) PROVE EvidenceInv'
  <2> DEFINE r == Receipt(s, Evaluate(s))
  <2>1. /\ job' = [job EXCEPT !.todo = @ \ {s}, !.receipts = @ \union {r}]
        /\ Collects /\ UNCHANGED <<artifacts, bundles, ran>> /\ job.pc = "checks" /\ Evaluate(s) # "trusted"
    BY <1>2 DEF HoldBack
  <2>2. FromContract(r) /\ r = [f \in ReceiptFields |-> r[f]] /\ r.id = s.id /\ ~Passes(r) /\ s \in Commands
    <3>1. Evaluate(s) # "pass"
      BY DEF Evaluate
    <3>2. r.status = Evaluate(s)
      BY DEF Receipt
    <3> QED
      BY <1>0, <3>1, <3>2, CommandFits DEF Passes
  <2> HIDE DEF r
  <2>3. /\ job' = [f \in JobFields |-> job'[f]] /\ job'.todo = job.todo \ {s} /\ job'.pc = "checks"
        /\ job'.receipts = job.receipts \union {r} /\ job'.quiet = job.quiet
    BY <1>0, <2>1 DEF JobFields
  <2>4. Commands' = Commands /\ Receipts = job.receipts /\ Receipts' = job.receipts \union {r}
    BY <2>1, <2>3 DEF Commands, Collects, Receipts
  <2>5. \A q : FromContract(q)' <=> FromContract(q)
    BY <2>1 DEF FromContract, Collects
  <2>6. \A c \in Commands \ job'.todo : Answered(c, Receipts)'
    <3>1. Answered(s, Receipts)'
      BY <2>2, <2>4 DEF Answered
    <3>2. ASSUME NEW c \in Commands, c \notin job.todo PROVE Answered(c, Receipts)'
      <4>1. Answered(c, Receipts)
        BY <1>0, <2>1, <3>2 DEF JobInv
      <4> QED
        BY <2>1, <2>4, <4>1 DEF Answered
    <3> QED
      BY <2>3, <3>1, <3>2
  <2>7. JobInv'
    BY <1>0, <2>2, <2>3, <2>4, <2>5, <2>6 DEF JobInv, OfWorktree
  <2> QED
    BY <1>0, <2>1, <2>7, CollectorKeeps
<1>3. ASSUME NEW s \in job.todo, NEW status, NEW out, NEW err, RunCheck(s, status, out, err)
      PROVE  EvidenceInv'
  <2> DEFINE r == Receipt(s, status)
             writing == SelectSeq(<<<<out, "check-log">>, <<err, "tool-log">>>>, LAMBDA w : w[1] # Silent)
  <2>1. /\ job' = [job EXCEPT !.pc = "storing", !.todo = @ \ {s}, !.receipt = r, !.writing = writing]
        /\ ran' = ran \union {s} /\ Evaluate(s) = "trusted" /\ job.pc = "checks"
        /\ Collects /\ UNCHANGED <<artifacts, bundles>>
    BY <1>3 DEF RunCheck
  <2>2. FromContract(r) /\ r = [f \in ReceiptFields |-> r[f]] /\ r.id = s.id /\ s \in Commands
    BY <1>0, CommandFits
  <2> HIDE DEF r, writing
  <2>3. /\ job' = [f \in JobFields |-> job'[f]] /\ job'.todo = job.todo \ {s} /\ job'.pc = "storing"
        /\ job'.receipts = job.receipts /\ job'.receipt = r /\ job'.quiet = job.quiet
    BY <1>0, <2>1 DEF JobFields
  <2>4. Commands' = Commands /\ Receipts = job.receipts /\ Receipts' = job.receipts \union {r}
    BY <2>1, <2>3 DEF Commands, Collects, Receipts
  <2>5. \A q : FromContract(q)' <=> FromContract(q)
    BY <2>1 DEF FromContract, Collects
  <2>6. \A c \in Commands \ job'.todo : Answered(c, Receipts)'
    <3>1. Answered(s, Receipts)'
      BY <2>1, <2>2, <2>4 DEF Answered
    <3>2. ASSUME NEW c \in Commands, c \notin job.todo PROVE Answered(c, Receipts)'
      <4>1. Answered(c, Receipts)
        BY <1>0, <2>1, <3>2 DEF JobInv
      <4> QED
        BY <2>1, <2>4, <4>1 DEF Answered
    <3> QED
      BY <2>3, <3>1, <3>2
  <2>7. JobInv'
    BY <1>0, <2>2, <2>3, <2>4, <2>5, <2>6 DEF JobInv, OfWorktree
  <2>8. \A c \in ran' : Evaluate(c) = "trusted"
    BY <1>0, <2>1
  <2> QED
    BY <2>1, <2>7, <2>8, CollectorKeeps
<1>4. CASE CheckDone
  <2>1. /\ job' = [job EXCEPT !.pc = "checks", !.receipts = @ \union {job.receipt}, !.receipt = {}]
        /\ Collects /\ UNCHANGED <<artifacts, bundles, ran>> /\ job.pc = "storing"
    BY <1>4 DEF CheckDone
  <2>2. /\ job' = [f \in JobFields |-> job'[f]] /\ job'.todo = job.todo /\ job'.pc = "checks"
        /\ job'.receipts = job.receipts \union {job.receipt} /\ job'.quiet = job.quiet
    BY <1>0, <2>1 DEF JobFields
  <2>3. Commands' = Commands /\ Receipts' = Receipts
    BY <2>1, <2>2 DEF Commands, Collects, Receipts
  <2>4. \A q : FromContract(q)' <=> FromContract(q)
    BY <2>1 DEF FromContract, Collects
  <2>5. \A s, receipts : Answered(s, receipts)' <=> Answered(s, receipts)
    BY <2>1 DEF Answered
  <2>6. JobInv'
    BY <1>0, <2>1, <2>2, <2>3, <2>4, <2>5 DEF JobInv, OfWorktree
  <2> QED
    BY <1>0, <2>1, <2>6, CollectorKeeps
<1> QED
  BY <1>1, <1>2, <1>3, <1>4

LEMMA StoreKeeps == EvidenceInv /\ StoreOutput => EvidenceInv'
<1> SUFFICES ASSUME EvidenceInv, StoreOutput PROVE EvidenceInv'
  OBVIOUS
<1>1. PICK o, kind : PutArtifact(o, kind)
  BY DEF StoreOutput
<1>2. Collects /\ UNCHANGED <<bundles, ran>> /\ job.pc = "storing"
  BY DEF StoreOutput
<1>3. JobInv /\ job = [f \in JobFields |-> job[f]] /\ \A s \in ran : Evaluate(s) = "trusted"
  BY DEF EvidenceInv, JobInv
<1>4. FromContract(job.receipt) /\ job.receipt = [f \in ReceiptFields |-> job.receipt[f]]
  BY <1>2, <1>3 DEF JobInv, Receipts
<1>5. Commands' = Commands /\ \A q : FromContract(q)' <=> FromContract(q)
  BY <1>2 DEF Commands, FromContract, Collects
<1>6. \A s, receipts : Answered(s, receipts)' <=> Answered(s, receipts)
  BY <1>2 DEF Answered
<1>7. CASE job' = NotCollecting
  <2>1. /\ job' = [f \in JobFields |-> job'[f]] /\ job'.todo = {} /\ job'.pc = "idle" /\ job'.receipts = {}
        /\ job'.quiet = TRUE
    BY <1>7 DEF NotCollecting, JobFields
  <2>2. JobInv'
    BY <2>1 DEF JobInv, Receipts, OfWorktree
  <2> QED
    BY <1>2, <1>3, <2>2, CollectorKeeps
<1>8. ASSUME NEW r, NEW writing, job' = [job EXCEPT !.writing = writing, !.receipt = r],
             r = [f \in ReceiptFields |-> r[f]], r.id = job.receipt.id, r.satisfies = job.receipt.satisfies,
             Passes(r) => Passes(job.receipt)
      PROVE  EvidenceInv'
  <2>1. /\ job' = [f \in JobFields |-> job'[f]] /\ job'.todo = job.todo /\ job'.pc = "storing"
        /\ job'.receipts = job.receipts /\ job'.receipt = r /\ job'.quiet = job.quiet
    BY <1>2, <1>3, <1>8 DEF JobFields
  <2>2. Receipts = job.receipts \union {job.receipt} /\ Receipts' = job.receipts \union {r}
    BY <1>2, <2>1 DEF Receipts
  <2>3. FromContract(r)
    BY <1>4, <1>8 DEF FromContract
  <2>4. \A s : Answered(s, Receipts) => Answered(s, Receipts')
    BY <1>8, <2>2 DEF Answered
  <2>5. JobInv'
    BY <1>2, <1>3, <1>5, <1>6, <1>8, <2>1, <2>2, <2>3, <2>4 DEF JobInv, OfWorktree
  <2> QED
    BY <1>2, <1>3, <2>5, CollectorKeeps
<1>9. CASE job' = [job EXCEPT !.writing = <<>>, !.receipt.status = "error", !.receipt.refs = {}]
  <2> DEFINE r == [job.receipt EXCEPT !.status = "error", !.refs = {}]
  <2>1. job' = [job EXCEPT !.writing = <<>>, !.receipt = r]
    BY <1>3, <1>9 DEF JobFields
  <2>2. /\ r = [f \in ReceiptFields |-> r[f]] /\ r.id = job.receipt.id /\ r.satisfies = job.receipt.satisfies
        /\ ~Passes(r)
    BY <1>4 DEF ReceiptFields, Passes
  <2> HIDE DEF r
  <2> QED
    BY <1>8, <2>1, <2>2
<1>10. CASE job' = [job EXCEPT !.writing = Tail(@), !.receipt.refs = @ \union {o}]
  <2> DEFINE r == [job.receipt EXCEPT !.refs = @ \union {o}]
  <2>1. job' = [job EXCEPT !.writing = Tail(job.writing), !.receipt = r]
    BY <1>3, <1>10 DEF JobFields
  <2>2. /\ r = [f \in ReceiptFields |-> r[f]] /\ r.id = job.receipt.id /\ r.satisfies = job.receipt.satisfies
        /\ r.status = job.receipt.status
    BY <1>4 DEF ReceiptFields
  <2> HIDE DEF r
  <2> QED
    BY <1>8, <2>1, <2>2 DEF Passes
<1> QED
  BY <1>1, <1>7, <1>9, <1>10 DEF PutArtifact

LEMMA ReadsKeep == EvidenceInv /\ (ReadHead \/ ClaimPaths \/ ReadHeadAgain) => EvidenceInv'
<1> SUFFICES ASSUME EvidenceInv, ReadHead \/ ClaimPaths \/ ReadHeadAgain PROVE EvidenceInv'
  OBVIOUS
<1>1. JobInv /\ WorktreeInv /\ job = [f \in JobFields |-> job[f]] /\ \A s \in ran : Evaluate(s) = "trusted"
  BY DEF EvidenceInv, JobInv
<1>2. /\ Collects /\ UNCHANGED <<artifacts, bundles, ran>>
      /\ job' = [f \in JobFields |-> job'[f]] /\ job'.todo = job.todo /\ job'.receipts = job.receipts
      /\ job'.receipt = job.receipt /\ job'.quiet = job.quiet
  BY <1>1 DEF ReadHead, ClaimPaths, ReadHeadAgain, Reads, JobFields
<1>3. UNCHANGED <<contract, setting, commits, head>>
  BY <1>2 DEF Collects, worktree
<1>4. Commands' = Commands /\ \A q : FromContract(q)' <=> FromContract(q)
  BY <1>3 DEF Commands, FromContract
<1>5. \A s, receipts : Answered(s, receipts)' <=> Answered(s, receipts)
  BY <1>2 DEF Answered
<1>6. job.pc \in {"checks", "claims", "again"} /\ job'.pc \in OfWorktree
  BY <1>1, <1>2 DEF ReadHead, ClaimPaths, ReadHeadAgain, Reads, OfWorktree, JobFields
<1>7. Receipts' = Receipts
  BY <1>2, <1>6 DEF Receipts, OfWorktree
<1>8. CASE ReadHead
  <2>1. job.todo = {} /\ setting.adapter # "none" /\ job'.pc = "claims" /\ job'.head = head
    BY <1>1, <1>8 DEF ReadHead, Reads, JobFields
  <2>2. JobInv'
    BY <1>1, <1>2, <1>3, <1>4, <1>5, <1>6, <1>7, <2>1 DEF JobInv, WorktreeInv, OfWorktree
  <2> QED
    BY <1>1, <1>2, <2>2, CollectorKeeps
<1>9. CASE ClaimPaths
  <2>1. job.pc = "claims" /\ job'.pc = "again" /\ job'.head = job.head /\ job'.claimed = ClaimedPaths
    BY <1>1, <1>9 DEF ClaimPaths, Reads, JobFields
  <2>2. ClaimFits(job.head, ClaimedPaths)
    BY DEF ClaimFits, ClaimedPaths, PathsOf
  <2>3. ClaimFits(job.head, job.claimed)'
    BY <1>3, <2>1, <2>2 DEF ClaimFits, TreeOf, Changed
  <2>4. JobInv'
    BY <1>1, <1>2, <1>3, <1>4, <1>5, <1>6, <1>7, <2>1, <2>3 DEF JobInv, OfWorktree
  <2> QED
    BY <1>1, <1>2, <2>4, CollectorKeeps
<1>10. CASE ReadHeadAgain
  <2>1. /\ job.pc = "again" /\ job'.pc = "status" /\ job'.head = job.head /\ job'.claimed = job.claimed
        /\ job'.tip = head
    BY <1>1, <1>10 DEF ReadHeadAgain, Reads, JobFields
  <2>2. ClaimFits(job.head, job.claimed)'
    BY <1>1, <1>3, <2>1 DEF JobInv, ClaimFits, TreeOf, Changed
  <2>3. JobInv'
    BY <1>1, <1>2, <1>3, <1>4, <1>5, <1>6, <1>7, <2>1, <2>2 DEF JobInv, WorktreeInv, OfWorktree
  <2> QED
    BY <1>1, <1>2, <2>3, CollectorKeeps
<1> QED
  BY <1>8, <1>9, <1>10

\* The claim of a worker that left its worktree alone holds.
LEMMA HonestHolds ==
  ASSUME EvidenceInv, job.pc = "status", job.quiet, working \intersect Protected = {},
         setting.adapter = "git", setting.base, job.head > 1, Owns(Changed(TreeOf(1), TreeOf(job.head)))
  PROVE  ClaimHolds
<1>1. job.head = head /\ job.tip = head /\ ClaimFits(job.head, job.claimed)
  BY DEF EvidenceInv, JobInv, OfWorktree
<1>2. TreeOf(1) = {}
  BY DEF EvidenceInv, WorktreeInv, TreeOf
<1>3. ActualPaths = Changed(TreeOf(1), TreeOf(head)) /\ job.claimed = Changed(TreeOf(1), TreeOf(head))
  BY <1>1 DEF ActualPaths, ClaimFits
<1>4. TreeOf(head) \subseteq Owned \ Protected
  BY <1>1, <1>2 DEF Owns, Changed
<1>5. StatusPaths \intersect Protected = {}
  BY <1>4 DEF StatusPaths, Changed
<1> QED
  BY <1>1, <1>3, <1>5 DEF ClaimHolds, Owns

LEMMA NewBundle ==
  ASSUME EvidenceInv, NEW b,
         \/ job.pc = "status" /\ b = Bundle(ClaimHolds)
         \/ /\ job.pc = "checks" /\ job.todo = {} /\ setting.adapter = "none"
            /\ b = Bundle(setting.projectless)
  PROVE  SoundBundle(b)
<1>1. PICK w : /\ b = Bundle(w)
               /\ \/ job.pc = "status" /\ w = ClaimHolds
                  \/ job.pc = "checks" /\ setting.adapter = "none"
  OBVIOUS
<1>2. /\ b.receipts = job.receipts \union Observed(w) /\ b.valid = w /\ b.head = job.head
      /\ b.paths = job.claimed /\ b.quiet = (job.quiet /\ working \intersect Protected = {})
      /\ b.verified => w /\ ~AsksSomebody /\ \A r \in b.receipts : Passes(r)
  BY <1>1 DEF Bundle
<1>3. Receipts = job.receipts /\ \A s \in Commands : Answered(s, job.receipts)
  <2>1. job.todo = {} /\ job.pc \in {"status", "checks"}
    BY DEF EvidenceInv, JobInv, OfWorktree
  <2>2. Receipts = job.receipts
    BY <2>1 DEF Receipts
  <2> QED
    BY <2>1, <2>2 DEF EvidenceInv, JobInv
<1>4. \A s \in Commands : Answered(s, b.receipts)
  BY <1>2, <1>3 DEF Answered
<1>5. ASSUME NEW r \in b.receipts PROVE FromContract(r)
  <2>1. CASE r \in job.receipts
    BY <1>3, <2>1 DEF EvidenceInv, JobInv
  <2>2. CASE r \in Observed(w)
    BY <2>2 DEF Observed, FromContract, Automatable, Receipt
  <2> QED
    BY <1>2, <2>1, <2>2
<1>6. ASSUME setting.adapter # "none"
      PROVE  /\ b.head \in DOMAIN commits
             /\ b.valid => Owns(b.paths) /\ ClaimFits(b.head, b.paths)
             /\ /\ b.quiet /\ setting.adapter = "git" /\ setting.base /\ b.head > 1
                /\ Owns(Changed(TreeOf(1), TreeOf(b.head)))
                => b.valid
  <2>1. job.pc = "status" /\ w = ClaimHolds
    BY <1>1, <1>6
  <2>2. job.head \in DOMAIN commits /\ ClaimFits(job.head, job.claimed)
    BY <2>1 DEF EvidenceInv, JobInv, OfWorktree
  <2>3. ClaimHolds => Owns(job.claimed)
    BY DEF ClaimHolds, Owns
  <2>4. b.head \in DOMAIN commits
    BY <1>2, <2>2
  <2>5. b.valid => Owns(b.paths) /\ ClaimFits(b.head, b.paths)
    BY <1>2, <2>1, <2>2, <2>3
  <2>6. ASSUME b.quiet, setting.adapter = "git", setting.base, b.head > 1,
               Owns(Changed(TreeOf(1), TreeOf(b.head)))
        PROVE  b.valid
    <3>1. job.quiet /\ working \intersect Protected = {} /\ b.head = job.head
      BY <1>2, <2>6
    <3>2. ClaimHolds
      BY <2>1, <2>6, <3>1, HonestHolds
    <3> QED
      BY <1>2, <2>1, <3>2
  <2> QED
    BY <2>4, <2>5, <2>6
<1>7. /\ b.quiet /\ setting.adapter = "git" /\ setting.base /\ b.head > 1
      /\ Owns(Changed(TreeOf(1), TreeOf(b.head)))
      => b.valid
  BY <1>6
<1> QED
  BY <1>2, <1>4, <1>5, <1>6, <1>7 DEF SoundBundle

LEMMA MakeKeeps == EvidenceInv /\ MakeBundle => EvidenceInv'
<1> SUFFICES ASSUME EvidenceInv, MakeBundle PROVE EvidenceInv'
  OBVIOUS
<1>1. job' = NotCollecting /\ Collects /\ UNCHANGED ran
  BY DEF MakeBundle
<1>2. UNCHANGED <<contract, setting, accepted, commits, head, working, ran>>
  BY <1>1 DEF Collects, worktree
<1>3. Grows /\ WorktreeInv'
  BY <1>2 DEF Grows, EvidenceInv, WorktreeInv
<1>4. bundles \subseteq bundles' /\ \A b \in bundles' : SoundBundle(b)
  <2>1. CASE job.pc = "status" /\ bundles' = bundles \union {Bundle(ClaimHolds)}
    BY <2>1, NewBundle DEF EvidenceInv, BundleInv
  <2>2. CASE /\ job.pc = "checks" /\ job.todo = {} /\ setting.adapter = "none"
             /\ bundles' = bundles \union {Bundle(setting.projectless)}
    BY <2>2, NewBundle DEF EvidenceInv, BundleInv
  <2> QED
    BY <2>1, <2>2 DEF MakeBundle
<1>5. \A b \in bundles' : SoundBundle(b)'
  BY <1>2, <1>3, <1>4, BundlesStay
<1>6. BundleInv'
  BY <1>2, <1>4, <1>5 DEF EvidenceInv, BundleInv, Satisfied
<1>7. /\ job' = [f \in JobFields |-> job'[f]] /\ job'.todo = {} /\ job'.pc = "idle" /\ job'.receipts = {}
      /\ job'.quiet = TRUE
  BY <1>1 DEF NotCollecting, JobFields
<1>8. JobInv'
  BY <1>7 DEF JobInv, Receipts, OfWorktree
<1> QED
  BY <1>2, <1>3, <1>6, <1>8 DEF EvidenceInv

LEMMA AcceptKeeps ==
  ASSUME EvidenceInv, NEW b \in bundles, AcceptHandoff(b)
  PROVE  EvidenceInv'
<1>1. accepted' = {b} /\ Verifies(b)
      /\ UNCHANGED <<contract, setting, commits, head, working, job, bundles, ran>>
  BY DEF AcceptHandoff, worktree
<1>2. WorktreeInv' /\ Receipts' = Receipts /\ Commands' = Commands
  BY <1>1 DEF EvidenceInv, WorktreeInv, Receipts, Commands
<1>3. /\ \A q : FromContract(q)' <=> FromContract(q)
      /\ \A s, receipts : Answered(s, receipts)' <=> Answered(s, receipts)
  BY <1>1 DEF FromContract, Answered
<1>4. JobInv'
  BY <1>1, <1>2, <1>3 DEF EvidenceInv, JobInv, ClaimFits, TreeOf, Changed
<1>5. \A q \in bundles' : SoundBundle(q)'
  BY <1>1, <1>2, <1>3 DEF EvidenceInv, BundleInv, SoundBundle, ClaimFits, TreeOf, Changed, AsksSomebody
<1>6. BundleInv'
  BY <1>1, <1>5 DEF EvidenceInv, BundleInv, Verifies, Satisfied
<1> QED
  BY <1>1, <1>2, <1>4, <1>6 DEF EvidenceInv

LEMMA NextEvidence == EvidenceInv /\ [EvidenceNext]_evidenceVars => EvidenceInv'
<1> SUFFICES ASSUME EvidenceInv, [EvidenceNext]_evidenceVars PROVE EvidenceInv'
  OBVIOUS
<1>0. WorktreeInv /\ \A c \in DOMAIN commits : TreeOf(c) \subseteq Files
  <2>1. \A c \in DOMAIN commits : commits[c] \in Commit
    BY DEF EvidenceInv, WorktreeInv
  <2>2. \A c \in Commit : c.tree \subseteq Files
    BY DEF Commit
  <2> QED
    BY <2>1, <2>2 DEF EvidenceInv, TreeOf
<1>1. ASSUME NEW f \in Files, Edit(f) PROVE EvidenceInv'
  <2>1. Disturbs /\ Grows /\ WorktreeInv'
    BY <1>0, <1>1 DEF Edit, Grows, WorktreeInv, Changed
  <2> QED
    BY <2>1, WorkerKeeps
<1>2. ASSUME CommitWork PROVE EvidenceInv'
  <2> DEFINE new == [parent |-> head, tree |-> working]
  <2>1. new \in Commit /\ new.tree = working
    BY <1>0 DEF Commit, WorktreeInv
  <2>2. commits' = Append(commits, new) /\ head' = Len(commits) + 1 /\ working' = working /\ Disturbs
    BY <1>2 DEF CommitWork
  <2> HIDE DEF new
  <2>3. Grows /\ commits' \in Seq(Commit) /\ DOMAIN commits' = 1 .. Len(commits) + 1 /\ Len(commits) \in Nat
    BY <1>0, <2>1, <2>2 DEF Grows, WorktreeInv
  <2>4. WorktreeInv'
    BY <1>0, <2>2, <2>3 DEF WorktreeInv, Grows
  <2> QED
    BY <2>2, <2>3, <2>4, WorkerKeeps
<1>3. ASSUME NEW c \in DOMAIN commits, Reset(c) PROVE EvidenceInv'
  <2>1. Disturbs /\ Grows /\ WorktreeInv'
    BY <1>0, <1>3 DEF Reset, Grows, WorktreeInv, TreeOf
  <2> QED
    BY <2>1, WorkerKeeps
<1>4. ASSUME NEW o \in Outputs, LosePayload(o) PROVE EvidenceInv'
  <2>1. Disturbs /\ Grows /\ WorktreeInv'
    BY <1>0, <1>4 DEF LosePayload, worktree, Grows, WorktreeInv
  <2> QED
    BY <2>1, WorkerKeeps
<1>5. CASE UNCHANGED evidenceVars
  <2>1. Collects /\ bundles' = bundles /\ ran' = ran /\ job' = job
    BY <1>5 DEF evidenceVars, Collects
  <2>2. UNCHANGED <<contract, setting, commits, head>>
    BY <2>1 DEF Collects, worktree
  <2>3. Receipts' = Receipts /\ Commands' = Commands
    BY <2>1, <2>2 DEF Receipts, Commands
  <2>4. JobInv'
    BY <2>1, <2>2, <2>3 DEF EvidenceInv, JobInv, FromContract, Answered, ClaimFits, TreeOf, Changed
  <2> QED
    BY <2>1, <2>4, CollectorKeeps DEF EvidenceInv
<1> QED
  BY <1>1, <1>2, <1>3, <1>4, <1>5, ChecksKeep, StoreKeeps, ReadsKeep, MakeKeeps, AcceptKeeps DEF EvidenceNext

\* For any files, commits and edits in between, a verified bundle names only
\* paths of the task, and what its commit changed (verify_changed_paths).
THEOREM OwnedWork == EvidenceSpec => []VerifiedWorkIsOwned
<1>1. EvidenceInv => VerifiedWorkIsOwned
  BY DEF EvidenceInv, BundleInv, SoundBundle, VerifiedWorkIsOwned, Owns, ClaimFits
<1> QED
  BY <1>1, InitEvidence, NextEvidence, PTL DEF EvidenceSpec

\* Work that keeps to its paths, is committed and left alone is not refused, for
\* any files and commits (identity, verify_changed_paths).
THEOREM HonestWork == EvidenceSpec => []HonestWorkIsValid
<1>1. EvidenceInv => HonestWorkIsValid
  BY DEF EvidenceInv, BundleInv, SoundBundle, HonestWorkIsValid, Owns
<1> QED
  BY <1>1, InitEvidence, NextEvidence, PTL DEF EvidenceSpec

\* A task is completed only on commands that ran and passed and conditions that
\* one of them or an observation shows, for any contract (collect, verify).
THEOREM CheckedWork == EvidenceSpec => []AcceptedWorkWasChecked
<1>1. EvidenceInv => AcceptedWorkWasChecked
  <2> SUFFICES ASSUME EvidenceInv, NEW b \in accepted
               PROVE  /\ \A s \in contract.specs : s.kind # "human"
                      /\ \A s \in Commands : s \in ran /\ \E r \in b.receipts : r.id = s.id /\ Passes(r)
                      /\ \A c \in contract.conditions :
                           \E s \in contract.specs : s.kind \in Automatable /\ c \in s.satisfies
    BY DEF AcceptedWorkWasChecked
  <2>1. SoundBundle(b) /\ b.verified /\ \A c \in contract.conditions : Satisfied(c, b.receipts)
    BY DEF EvidenceInv, BundleInv
  <2>2. ~AsksSomebody /\ \A r \in b.receipts : Passes(r) /\ FromContract(r)
    BY <2>1 DEF SoundBundle
  <2>3. \A s \in Commands : s \in ran /\ \E r \in b.receipts : r.id = s.id /\ Passes(r)
    BY <2>1, <2>2 DEF SoundBundle, Answered
  <2>4. ASSUME NEW c \in contract.conditions
        PROVE  \E s \in contract.specs : s.kind \in Automatable /\ c \in s.satisfies
    <3>1. PICK r \in b.receipts : c \in r.satisfies
      BY <2>1 DEF Satisfied
    <3> QED
      BY <2>2, <3>1 DEF FromContract
  <2> QED
    BY <2>2, <2>3, <2>4 DEF AsksSomebody
<1> QED
  BY <1>1, InitEvidence, NextEvidence, PTL DEF EvidenceSpec

\* No command that destroys or reaches the network runs without an approval of
\* exactly that, for any contract (CommandTrustEvaluator.evaluate).
THEOREM ApprovedFirst == EvidenceSpec => []NothingRunsUnapproved
<1>1. EvidenceInv => NothingRunsUnapproved
  <2> SUFFICES ASSUME NEW s, Evaluate(s) = "trusted", NEW scope \in {"network", "destructive"},
                      IF scope = "network" THEN s.network = "allow" ELSE s.destructive
               PROVE  s.approval # NoApproval /\ s.approval.of = s.argv /\ scope \in s.approval.scopes
    BY DEF EvidenceInv, NothingRunsUnapproved
  <2>1. StillRequired(s) = {}
    BY DEF Evaluate
  <2>2. Approved(s, scope)
    BY <2>1 DEF StillRequired
  <2> QED
    BY <2>2 DEF Approved
<1> QED
  BY <1>1, InitEvidence, NextEvidence, PTL DEF EvidenceSpec
=============================================================================
