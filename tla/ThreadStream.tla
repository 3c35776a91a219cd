---------------------------- MODULE ThreadStream ----------------------------
(***************************************************************************)
(* The exported event stream of a Codex thread, and the receipt that is    *)
(* assembled from it.  The assembler folds the events one by one and       *)
(* raises on the first it cannot follow; a second, independent reading of  *)
(* the evidence then decides whether the receipt may call the turn         *)
(* completed and its model real.                                           *)
(***************************************************************************)
EXTENDS Naturals, Sequences

CONSTANTS
  StreamEvents,  \* events the host exports: [method, thread, turn, at, from, to]
  StartModel,    \* the model thread/start answered with
  AskedModels,   \* models a caller may have requested
  DemandedModels,\* models of the action the receipt is for, or NoField
  NaiveTimes,    \* timestamps without a time zone
  NoField,       \* a field that is not there
  MaxEvents      \* bound: events exported

ASSUME EventsAreTimed == \A e \in StreamEvents : e.at \in Nat

VARIABLES
  events,    \* the events read so far
  folded,    \* current_model, reroutes, started, completed
  askedModel, demandedModel,
  outcome,   \* of the call: "reading", "raised" or "assembled"
  receipt    \* the HostReceipt it returned

streamVars == <<events, folded, askedModel, demandedModel, outcome, receipt>>

NoTurn == [turn |-> NoField, at |-> 0]

StreamInit ==
  /\ events = <<>> /\ outcome = "reading"
  /\ receipt = [status |-> NoField, model |-> NoField, modelReceipt |-> NoField]
  /\ folded = [model |-> StartModel, reroutes |-> <<>>, started |-> NoTurn, completed |-> NoTurn]
  /\ askedModel \in AskedModels /\ demandedModel \in DemandedModels

\* _thread_id(params) or thread_id: an event that names no thread is taken for
\* one of this thread.
Ours(e) == e.thread \in {"this", NoField}

\* The events the assembler looks at.
Followed(e) == Ours(e) /\ e.method \in {"model/rerouted", "turn/started", "turn/completed"}

ReadEvent(e) == /\ outcome = "reading" /\ Len(events) < MaxEvents
           /\ events' = Append(events, e)
           /\ UNCHANGED <<askedModel, demandedModel, receipt>>
RaiseOnEvent == outcome' = "raised" /\ UNCHANGED folded
FoldTo(f) == folded' = f /\ UNCHANGED outcome

\* Events of other threads, and methods the assembler does not know.
SkipEvent(e) == ReadEvent(e) /\ ~Followed(e) /\ UNCHANGED <<folded, outcome>>

ModelRerouted(e) ==
  /\ ReadEvent(e) /\ Ours(e) /\ e.method = "model/rerouted"
  /\ IF e.from # folded.model \/ e.to = NoField
     THEN RaiseOnEvent
     ELSE FoldTo([folded EXCEPT !.model = e.to, !.reroutes = Append(@, [from |-> e.from, to |-> e.to])])

\* A plausible slip: a repeated turn/started simply replaces the first.
StartAgain(e) ==
  /\ ReadEvent(e) /\ Ours(e) /\ e.method = "turn/started"
  /\ IF folded.completed # NoTurn \/ e.turn = NoField \/ e.at = 0
     THEN RaiseOnEvent
     ELSE FoldTo([folded EXCEPT !.started = [turn |-> e.turn, at |-> e.at]])

TurnStarted(e) ==
  /\ ReadEvent(e) /\ Ours(e) /\ e.method = "turn/started"
  /\ IF folded.started # NoTurn \/ folded.completed # NoTurn \/ e.turn = NoField \/ e.at = 0
     THEN RaiseOnEvent
     ELSE FoldTo([folded EXCEPT !.started = [turn |-> e.turn, at |-> e.at]])

TurnCompleted(e) ==
  /\ ReadEvent(e) /\ Ours(e) /\ e.method = "turn/completed"
  /\ IF folded.started = NoTurn \/ folded.completed # NoTurn \/ e.at = 0 \/ e.turn # folded.started.turn
     THEN RaiseOnEvent
     ELSE FoldTo([folded EXCEPT !.completed = [turn |-> e.turn, at |-> e.at]])

\* app_server_resolved_route: the reroutes followed again, from the start.
ResolvedRoute(reroutes) ==
  LET Model[i \in 0 .. Len(reroutes)] ==
        IF i = 0 THEN StartModel
        ELSE IF reroutes[i].from = Model[i - 1] THEN reroutes[i].to ELSE NoField
  IN Model[Len(reroutes)]

ValidObservedAt(at) == at # 0 /\ at \notin NaiveTimes

\* valid_app_server_route_evidence, on the evidence of this fold.
ValidEvidence ==
  /\ ResolvedRoute(folded.reroutes) = folded.model
  /\ folded.started # NoTurn /\ folded.completed # NoTurn
  /\ folded.completed.turn = folded.started.turn
  /\ ValidObservedAt(folded.started.at) /\ ValidObservedAt(folded.completed.at)
  /\ folded.completed.at >= folded.started.at

\* HostReceipt.from_value: the route counts as real when the action asked for
\* what was requested, and the evidence resolved it.
VerifiedModel == ValidEvidence /\ demandedModel # NoField /\ demandedModel = askedModel

AssembleReceipt ==
  /\ outcome = "reading" /\ outcome' = "assembled"
  /\ receipt' = [status |-> IF ValidEvidence THEN "completed" ELSE "active",
                 model |-> IF VerifiedModel THEN folded.model ELSE NoField,
                 modelReceipt |-> IF VerifiedModel THEN "real" ELSE "unresolved"]
  /\ UNCHANGED <<events, folded, askedModel, demandedModel>>

StreamNext ==
  \/ \E e \in StreamEvents : SkipEvent(e) \/ ModelRerouted(e) \/ TurnStarted(e) \/ TurnCompleted(e)
  \/ AssembleReceipt

-----------------------------------------------------------------------------
\* The events that were followed, by their place in the stream.
Told == {i \in DOMAIN events : Followed(events[i])}
Hops == {i \in Told : events[i].method = "model/rerouted"}

\* A receipt that says completed tells the stream: its thread began one turn
\* and ended that turn, later and nothing else, and a model called real is the
\* one the last reroute before the receipt led to.
CompletedTellsTheStream ==
  outcome = "assembled" /\ receipt.status = "completed" =>
    /\ \E i, j \in Told :
         /\ i < j /\ events[i].method = "turn/started" /\ events[j].method = "turn/completed"
         /\ events[i].turn = events[j].turn /\ events[i].at <= events[j].at
         /\ Told = Hops \union {i, j}
    /\ receipt.modelReceipt = "real" =>
         IF Hops = {} THEN receipt.model = StartModel
         ELSE \E k \in Hops : receipt.model = events[k].to /\ \A h \in Hops : h <= k
=============================================================================
