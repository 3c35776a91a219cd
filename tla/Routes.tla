------------------------------- MODULE Routes -------------------------------
(***************************************************************************)
(* Which model and which reasoning a task is asked to run with, and what   *)
(* becomes of it when the host's receipt tells what it ran with.  A plan   *)
(* is resolved from the task, the profile the host last showed and the     *)
(* run; the host answers with what it likes.  A receipt is stored before   *)
(* its route is judged, and the judgement blocks what may not go on.       *)
(***************************************************************************)
EXTENDS Naturals, FiniteSets

CONSTANTS
  Planned,       \* top-level tasks
  Brokers,       \* processes with a ResourcePolicyResolver of their own
  Models,        \* model names
  Reasonings,    \* reasoning levels
  NotGiven,      \* a field no one set
  RunRoute,      \* route and assurance of the run's envelope
  RunAssurance,
  TaskRoute,     \* what each task's envelope adds
  TaskAssurance,
  Configurable,  \* routes the host's configuration may name
  OwnFingerprint, \* does the host name its fingerprint itself?
  MaxHostChanges, \* bounds
  MaxReceipts

VARIABLES
  configured, \* the route the host's configuration names now
  cache,      \* host_capability_cache: rows [print, route, valid]
  missed,     \* a broker between its lookup and its write: what it saw
  profile,    \* the profile a broker resolves with
  plan,       \* persisted action of a task: [requested, resolved, assurance]
  taskRoute,  \* state of each task
  ranWith,    \* what the host really ran it with
  judging,    \* receipts a broker stored and is about to judge
  unjudged,   \* tasks whose last receipt is stored and not judged
  hostChanges, receipts

routeVars == <<configured, cache, missed, profile, plan, taskRoute, ranWith, judging, unjudged,
               hostChanges, receipts>>
planVars == <<plan, taskRoute, ranWith, judging, unjudged, receipts>>
discoveryVars == <<configured, cache, missed, profile, hostChanges>>

Assurances == <<"request_only", "observe_if_exposed", "receipt_required", "hard_lock">>
Rank(mode) == CHOOSE i \in DOMAIN Assurances : Assurances[i] = mode
AnyRoute == [model : Models \union {NotGiven}, reasoning : Reasonings \union {NotGiven}]
NoRoute == [model |-> NotGiven, reasoning |-> NotGiven]
NoPlan == [requested |-> NoRoute, resolved |-> NoRoute, assurance |-> NotGiven]
Settled(route) == route.model # NotGiven /\ route.reasoning # NotGiven

RoutesInit ==
  /\ configured \in Configurable /\ cache = {} /\ missed = [b \in Brokers |-> {}]
  /\ profile = [b \in Brokers |-> NoRoute] /\ plan = [t \in Planned |-> NoPlan]
  /\ taskRoute = [t \in Planned |-> "ready"] /\ ranWith = [t \in Planned |-> NoRoute]
  /\ judging = [b \in Brokers |-> {}] /\ unjudged = {} /\ hostChanges = 0 /\ receipts = 0

\* The deployment changes the host's configuration.
HostChanges(route) ==
  /\ hostChanges < MaxHostChanges /\ hostChanges' = hostChanges + 1
  /\ configured' = route /\ UNCHANGED <<cache, missed, profile>> /\ UNCHANGED planVars

\* CapabilityProfile.from_value: unless the host names itself, its routes are
\* part of its fingerprint.
Fingerprint(route) == IF OwnFingerprint THEN NoRoute ELSE route
Standing(route) == {row \in cache : row.print = Fingerprint(route) /\ row.valid}

\* set_host_capabilities up to its lookup: a hit brings the routes that were
\* stored, when any were.
LookUp(b) ==
  /\ missed[b] = {} /\ UNCHANGED <<configured, cache, hostChanges>> /\ UNCHANGED planVars
  /\ \/ /\ Standing(configured) = {}
        /\ missed' = [missed EXCEPT ![b] = {configured}] /\ UNCHANGED profile
     \/ \E row \in Standing(configured) :
          /\ profile' = [profile EXCEPT ![b] = IF row.route = NoRoute THEN configured ELSE row.route]
          /\ UNCHANGED missed

\* put_host_capability_cache: another broker may have stored the row meanwhile.
CacheAfter(seen) ==
  {[row EXCEPT !.valid = FALSE] : row \in {r \in cache : r.print # Fingerprint(seen)}}
    \union {[print |-> Fingerprint(seen), route |-> seen, valid |-> TRUE]}
WriteBack(b) ==
  /\ UNCHANGED <<configured, hostChanges>> /\ UNCHANGED planVars
  /\ \E seen \in missed[b] :
       /\ cache' = IF Standing(seen) = {} THEN CacheAfter(seen) ELSE cache
       /\ profile' = [profile EXCEPT ![b] = seen]
       /\ missed' = [missed EXCEPT ![b] = {}]

FirstSet(fields) ==
  LET set == {i \in DOMAIN fields : fields[i] # NotGiven} IN
  IF set = {} THEN NotGiven ELSE fields[CHOOSE i \in set : \A j \in set : i <= j]
Layered(routes) ==
  [model |-> FirstSet([i \in DOMAIN routes |-> routes[i].model]),
   reasoning |-> FirstSet([i \in DOMAIN routes |-> routes[i].reasoning])]

\* _effective_assurance: a task may only ask for more than its run.
Assurance(t) ==
  IF TaskAssurance[t] # NotGiven /\ Rank(TaskAssurance[t]) > Rank(RunAssurance)
  THEN TaskAssurance[t] ELSE RunAssurance

\* resolve, and the action the scheduler stores with it; without a model the
\* scheduler asks for a route instead and the task stays ready.
PlanTask(b, t) ==
  LET resolved == Layered(<<TaskRoute[t], profile[b], RunRoute>>) IN
  /\ taskRoute[t] = "ready" /\ resolved.model # NotGiven
  /\ plan' = [plan EXCEPT ![t] = [requested |-> Layered(<<TaskRoute[t], RunRoute>>),
                                  resolved |-> resolved, assurance |-> Assurance(t)]]
  /\ taskRoute' = [taskRoute EXCEPT ![t] = "dispatching"]
  /\ ranWith' = [ranWith EXCEPT ![t] = NoRoute]
  /\ UNCHANGED <<judging, unjudged, receipts>> /\ UNCHANGED discoveryVars

\* The host opens the thread, with the route it was given or another one.
RunThread(t, route) ==
  /\ taskRoute[t] = "dispatching" /\ ranWith[t] = NoRoute /\ Settled(route)
  /\ ranWith' = [ranWith EXCEPT ![t] = route]
  /\ UNCHANGED <<plan, taskRoute, judging, unjudged, receipts>> /\ UNCHANGED discoveryVars

\* What from_value takes for the request and for the plan of a receipt: an
\* incomplete one is read from the action, a resolution the receipt states
\* takes the place of the planned one.
RequestOf(p) == IF Settled(p.requested) \/ ~Settled(p.resolved) THEN p.requested ELSE p.resolved
ResolutionOf(p, stated) == IF Settled(stated) THEN stated ELSE p.resolved
\* ResourceObservation: an actual route counts when it is the resolved one.
Confirms(actual, resolved) == Settled(resolved) /\ actual = resolved
ObservedAssurance(p, repeats, stated, actual) ==
  Settled(RequestOf(p)) /\ repeats /\ Confirms(actual, stated)

\* A plausible slip: an observed route is enough for every mode.
ObservedIsEnough(p, stated, observed) ==
  p.assurance \notin {"request_only", "observe_if_exposed"} /\ ~observed

\* assess
Forbidden(p, stated, observed) ==
  LET asked == RequestOf(p)
      planned == ResolutionOf(p, stated) IN
  /\ p.assurance # "request_only"
  /\ \/ p.assurance = "hard_lock" /\ asked # NoRoute /\ planned # NoRoute /\ asked # planned
     \/ p.assurance # "observe_if_exposed" /\ ~observed

\* ingest_receipt of the store: a receipt with the thread makes it active.
StoreReceipt(b, t) ==
  /\ ranWith[t] # NoRoute /\ judging[b] = {}
  /\ receipts < MaxReceipts /\ receipts' = receipts + 1
  /\ taskRoute' = [taskRoute EXCEPT ![t] = IF @ = "dispatching" THEN "active" ELSE @]
  /\ judging' = [judging EXCEPT ![b] = {t}] /\ unjudged' = unjudged \union {t}
  /\ UNCHANGED <<plan, ranWith>> /\ UNCHANGED discoveryVars

\* assess_route and the blocker: the receipt repeats the request or not, states
\* a resolution or not, and when it tells the actual route it tells the truth.
JudgeReceipt(b, t, repeats, stated, tells) ==
  LET observed == ObservedAssurance(plan[t], repeats, stated, IF tells THEN ranWith[t] ELSE NoRoute) IN
  /\ t \in judging[b] /\ judging' = [judging EXCEPT ![b] = {}] /\ unjudged' = unjudged \ {t}
  /\ taskRoute' = [taskRoute EXCEPT ![t] =
       IF @ = "active" /\ Forbidden(plan[t], stated, observed) THEN "blocked" ELSE @]
  /\ UNCHANGED <<plan, ranWith, receipts>> /\ UNCHANGED discoveryVars

\* A kernel ends: the receipt it had stored is replayed by the next one without
\* a judgement, and the task stays unjudged until another receipt comes.
BrokerRestarts(b) ==
  /\ missed' = [missed EXCEPT ![b] = {}] /\ profile' = [profile EXCEPT ![b] = NoRoute]
  /\ judging' = [judging EXCEPT ![b] = {}]
  /\ UNCHANGED <<configured, cache, hostChanges, plan, taskRoute, ranWith, unjudged, receipts>>

\* retry_task
RetryBlocked(t) ==
  /\ taskRoute[t] = "blocked" /\ \A b \in Brokers : t \notin judging[b]
  /\ taskRoute' = [taskRoute EXCEPT ![t] = "ready"]
  /\ plan' = [plan EXCEPT ![t] = NoPlan] /\ ranWith' = [ranWith EXCEPT ![t] = NoRoute]
  /\ unjudged' = unjudged \ {t} /\ UNCHANGED <<judging, receipts>> /\ UNCHANGED discoveryVars

RoutesNext ==
  \/ \E route \in Configurable : HostChanges(route)
  \/ \E b \in Brokers : LookUp(b) \/ WriteBack(b) \/ BrokerRestarts(b)
  \/ \E b \in Brokers, t \in Planned : PlanTask(b, t) \/ StoreReceipt(b, t)
  \/ \E t \in Planned, route \in AnyRoute : RunThread(t, route)
  \/ \E b \in Brokers, t \in Planned, repeats, tells \in BOOLEAN, stated \in AnyRoute :
       JudgeReceipt(b, t, repeats, stated, tells)
  \/ \E t \in Planned : RetryBlocked(t)

\* Every field that was asked for is what it ran with.
Respects(route, asked) ==
  /\ asked.model # NotGiven => route.model = asked.model
  /\ asked.reasoning # NotGiven => route.reasoning = asked.reasoning

LockedAndRunning(t) ==
  taskRoute[t] = "active" /\ t \notin unjudged /\ plan[t].assurance = "hard_lock"

\* Work under a hard_lock that names the model and the reasoning, judged and going
\* on, runs with the route its task and run asked for, whatever the host's
\* configuration resolved it to, became since, or is stated to be by a receipt:
\* resolve, from_value and assess.
LockedWorkRunsAsAsked ==
  \A t \in Planned :
    LockedAndRunning(t) /\ Settled(plan[t].requested) => Respects(ranWith[t], plan[t].requested)

\* The same of every lock, also of one that names a model only: "a locked route
\* must match its receipt" (SKILL.md:99) and "no silent model/vendor fallback"
\* (product-contract.md:92).
LockedFieldsAreKept ==
  \A t \in Planned : LockedAndRunning(t) => Respects(ranWith[t], plan[t].requested)
=============================================================================
