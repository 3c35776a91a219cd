------------------------------- MODULE Phases -------------------------------
(***************************************************************************)
(* The GSD pack: every outcome domain gets the phases of one recipe, all   *)
(* at once or, while the goal is not clear, only the first; the rest is    *)
(* added when the answers come, and any unit may be given further          *)
(* children, which may name what they wait for.  All of it happens in the  *)
(* graph in memory, which calls may leave half changed when they raise.    *)
(***************************************************************************)
EXTENDS Naturals, Sequences, FiniteSets, Functions, SequencesExt

CONSTANTS
  Outcomes,    \* the outcome domains, in order
  PhaseNames,  \* the phases of the recipe
  StepsOf,     \* how many steps each of them has
  PhasePolicies, \* what a pack may be configured with:
                 \* [phases, lazy, clarifyFirst, skip, fold, initial]
  Limits,      \* max_children; NoLimit is no limit
  NoLimit,
  OwnWaits,    \* what a caller's child may name as its dependencies: sets of names of units
  MaxExtra     \* bound: children callers add to a domain

IsSequence(s) == Len(s) \in Nat /\ s = [i \in 1 .. Len(s) |-> s[i]]

\* Every phase of the recipe has steps; the children callers add are of none;
\* domains, phases and folds come in an order.
ASSUME PhasesAssumption ==
  /\ StepsOf \in [PhaseNames -> Nat \ {0}]
  /\ "caller" \notin PhaseNames
  /\ IsSequence(Outcomes) /\ \A q \in PhasePolicies : IsSequence(q.phases) /\ IsSequence(q.fold)

VARIABLES
  recipe,    \* the policy in force
  lanes,     \* the work graph of each domain: its units, oldest first
  unanswered \* lazy_expansion.clarification_required

phaseVars == <<recipe, lanes, unanswered>>

\* The root of a phase; a step below it, perhaps of a folded phase; or a child
\* that a caller added below any of them, which may name its own dependencies.
RootOf(p) == <<p, p, 0>>
PhaseRoot(p, waits) == [phase |-> p, from |-> p, step |-> 0, below |-> <<>>, waits |-> waits, own |-> FALSE]
RecipeStep(p, from, step, waits) ==
  [phase |-> p, from |-> from, step |-> step, below |-> RootOf(p), waits |-> waits, own |-> FALSE]
CallerChild(parent, child, waits) ==
  [phase |-> parent[1], from |-> "caller", step |-> child.name, below |-> parent,
   waits |-> IF child.own THEN child.waits ELSE waits, own |-> child.own]

NameOf(u) == <<u.phase, u.from, u.step>>
NamesIn(graph) == {NameOf(graph[i]) : i \in DOMAIN graph}
IsThere(graph, p) == RootOf(p) \in NamesIn(graph)
UnitsBelow(graph, parent) == {i \in DOMAIN graph : graph[i].below = parent}

FoldedAway(policy) == {policy.fold[i][1] : i \in DOMAIN policy.fold}

\* PhasePolicy: what its constructor accepts.
PolicyIsSound(policy) ==
  LET all == ToSet(policy.phases)
      targets == {policy.fold[i][2] : i \in DOMAIN policy.fold}
  IN
  /\ policy.phases # <<>> /\ all \subseteq PhaseNames /\ IsInjective(policy.phases)
  /\ policy.skip \subseteq all /\ FoldedAway(policy) \union targets \subseteq all
  /\ (FoldedAway(policy) \union targets) \intersect policy.skip = {}
  /\ targets \intersect FoldedAway(policy) = {}
  /\ ToSet(policy.initial) \subseteq all \ (policy.skip \union FoldedAway(policy))

ActivePhases(policy) == ToSet(policy.phases) \ (policy.skip \union FoldedAway(policy))

\* The order of the active phases.
Before(policy, p, q) ==
  /\ {p, q} \subseteq ActivePhases(policy)
  /\ \E m, n \in DOMAIN policy.phases : m < n /\ policy.phases[m] = p /\ policy.phases[n] = q

\* PhasePolicy.materialized_phases
FirstPhases(policy, unclear, answered) ==
  LET active == ActivePhases(policy) IN
  IF answered THEN active
  ELSE IF policy.initial # <<>> THEN ToSet(policy.initial)
  ELSE IF ~policy.lazy /\ ~unclear THEN active
  ELSE IF policy.clarifyFirst /\ "clarify" \in active THEN {"clarify"}
  ELSE {p \in active : \A q \in active : ~Before(policy, q, p)}

\* _phase_children: a chain behind the last step before it.  A folded phase
\* repeats the steps of the phase it is folded into.
ChainOf(p, from, leaf) ==
  [k \in 1 .. StepsOf[p] |-> RecipeStep(p, from, k, IF k = 1 THEN leaf ELSE {<<p, from, k - 1>>})]

\* A phase's steps, or those of one folded into it, at the end of the graph.
WithSteps(so, p, from) ==
  [graph |-> so.graph \o ChainOf(p, from, so.leaf), root |-> so.root, leaf |-> {<<p, from, StepsOf[p]>>}]

\* One entry of the policy's fold, unless it is about another phase or its
\* steps are there.
AddFolded(so, p, fold) ==
  IF fold[2] # p \/ \E i \in DOMAIN so.graph : so.graph[i].phase = p /\ so.graph[i].from = fold[1]
  THEN so ELSE WithSteps(so, p, fold[1])

AllFolded(policy, p, so) ==
  LET Folded[k \in 0 .. Len(policy.fold)] ==
        IF k = 0 THEN so ELSE AddFolded(Folded[k - 1], p, policy.fold[k])
  IN Folded[Len(policy.fold)]

\* A plausible slip: the anchor is the first step of a phase already there.
FirstAnchor(graph, p) == {NameOf(graph[Min(UnitsBelow(graph, RootOf(p)))])}

\* A phase already there anchors the next one with the last unit below its root,
\* also where a caller added it.
Anchor(graph, p) == {NameOf(graph[Max(UnitsBelow(graph, RootOf(p)))])}

\* One round of LaneRecipe.materialize.
AddPhase(policy, wanted, so, p) ==
  IF p \notin ActivePhases(policy) THEN so
  ELSE IF IsThere(so.graph, p)
  THEN AllFolded(policy, p, [graph |-> so.graph, root |-> {RootOf(p)}, leaf |-> Anchor(so.graph, p)])
  ELSE IF p \notin wanted THEN so
  ELSE AllFolded(policy, p,
         WithSteps([graph |-> Append(so.graph, PhaseRoot(p, so.root)), root |-> {RootOf(p)}, leaf |-> so.leaf], p, p))

Materialized(graph, policy, wanted) ==
  LET Done[k \in 0 .. Len(policy.phases)] ==
        IF k = 0 THEN [graph |-> graph, root |-> {}, leaf |-> {}]
        ELSE AddPhase(policy, wanted, Done[k - 1], policy.phases[k])
  IN Done[Len(policy.phases)].graph

\* LaneRecipe.seed
Seeded(policy, unclear, answered) == Materialized(<<>>, policy, FirstPhases(policy, unclear, answered))

\* GSDPack.compile_domains
PhasesInit ==
  \E policy \in {q \in PhasePolicies : PolicyIsSound(q)}, unclear, answered \in BOOLEAN :
    /\ recipe = policy
    /\ lanes = [d \in ToSet(Outcomes) |-> Seeded(policy, unclear, answered)]
    /\ unanswered = ((policy.lazy \/ unclear) /\ ~answered)

\* ClarificationEvidence: accepted, explicit, and with an answer, a resolved
\* unknown or a reference; anything else raises.
IsEvidence(answer) == answer.accepted /\ answer.explicit /\ answer.saysSomething
Answers == [accepted : BOOLEAN, explicit : BOOLEAN, saysSomething : BOOLEAN]
NoAnswer == [accepted |-> FALSE, explicit |-> FALSE, saysSomething |-> FALSE]

\* What expand_after_clarification expects to add: a folded phase counts with
\* its own steps.
Expected(graph) ==
  LET pending == {p \in ActivePhases(recipe) : ~IsThere(graph, p)}
      folds == {f \in ToSet(recipe.fold) : ~ \E n \in NamesIn(graph) : n[1] = f[2] /\ n[2] = f[1]}
  IN Cardinality(UNION {{<<p, p, k>> : k \in 0 .. StepsOf[p]} : p \in pending}
                 \union UNION {{<<f[1], f[2], k>> : k \in 1 .. StepsOf[f[1]]} : f \in folds})

WithinLimit(limit) == limit # NoLimit => \A d \in DOMAIN lanes : Expected(lanes[d]) <= limit

AllMaterialized ==
  [d \in DOMAIN lanes |-> Materialized(lanes[d], recipe, ActivePhases(recipe))]

\* expand_after_clarification
ExpandAfterClarification(answer, limit) ==
  /\ IsEvidence(answer) /\ WithinLimit(limit)
  /\ lanes' = AllMaterialized /\ unanswered' = FALSE /\ UNCHANGED recipe

\* CallerChildren of a unit wait for the last child it has, or for the unit itself, and
\* for each other in turn, except those that name what they wait for.
Extended(graph, parent, children) ==
  LET there == UnitsBelow(graph, parent)
      last  == IF there = {} THEN {parent} ELSE {NameOf(graph[Max(there)])}
  IN graph \o [k \in DOMAIN children |->
       CallerChild(parent, children[k], IF k = 1 THEN last ELSE {<<parent[1], "caller", children[k - 1].name>>})]

Extendable(graph, parent, children) ==
  /\ \A k, l \in DOMAIN children : children[k].name = children[l].name => k = l
  /\ \A k \in DOMAIN children : <<parent[1], "caller", children[k].name>> \notin NamesIn(graph)

CallerChildren == [name : 1 .. MaxExtra, own : {TRUE}, waits : OwnWaits]
            \union [name : 1 .. MaxExtra, own : {FALSE}, waits : {{}}]
Batches == UNION {[1 .. n -> CallerChildren] : n \in 0 .. MaxExtra}

\* The caller's children are added to one domain, or refused.
AddChildren(now, d, parent, children) ==
  /\ Len(children) + Cardinality({i \in DOMAIN now[d] : now[d][i].from = "caller"}) <= MaxExtra
  /\ lanes' = IF Extendable(now[d], parent, children)
              THEN [now EXCEPT ![d] = Extended(@, parent, children)] ELSE now

\* expand: below the unit of that name, a phase's root or any other, in the first
\* domain that has it.  The answers are applied to all domains before the
\* children are looked at, and stay applied when the children are refused.
ExpandBelow(parent, children, answer, limit) ==
  LET isThere(graphs) == \E d \in DOMAIN graphs : parent \in NamesIn(graphs[d])
      gated == parent \in {RootOf(p) : p \in ActivePhases(recipe)} /\ ~isThere(lanes) /\ unanswered
      now   == IF gated THEN AllMaterialized ELSE lanes
      first == Outcomes[Min({k \in DOMAIN Outcomes : parent \in NamesIn(now[Outcomes[k]])})]
  IN
  /\ limit # NoLimit => Len(children) <= limit
  /\ gated => IsEvidence(answer) /\ WithinLimit(limit)
  /\ isThere(now)
  /\ AddChildren(now, first, parent, children)
  /\ unanswered' = (unanswered /\ ~gated) /\ UNCHANGED recipe

\* expand with the id of a domain: below its last unit, and no answers are asked.
\* (No domain is called "gsd-..." here: such a one would take the children as
\* further roots.)
ExpandDomain(d, children, limit) ==
  /\ lanes[d] # <<>> /\ (limit # NoLimit => Len(children) <= limit)
  /\ AddChildren(lanes, d, NameOf(Last(lanes[d])), children)
  /\ UNCHANGED <<recipe, unanswered>>

PhasesNext ==
  \/ \E answer \in Answers, limit \in Limits \union {NoLimit} : ExpandAfterClarification(answer, limit)
  \/ \E parent \in {RootOf(p) : p \in PhaseNames} \union UNION {NamesIn(lanes[d]) : d \in DOMAIN lanes},
        children \in Batches, limit \in Limits \union {NoLimit},
        answer \in IF unanswered THEN Answers ELSE {NoAnswer} : \* they are looked at only while they are missing
       ExpandBelow(parent, children, answer, limit)
  \/ \E d \in DOMAIN lanes, children \in Batches, limit \in Limits \union {NoLimit} :
       ExpandDomain(d, children, limit)

-----------------------------------------------------------------------------
\* What the unit at i waits for, directly and through others: units wait for
\* units that were there before them.
WaitsFor(graph) ==
  LET before[i \in DOMAIN graph] ==
        graph[i].waits \union UNION {before[j] : j \in {k \in 1 .. i - 1 : NameOf(graph[k]) \in graph[i].waits}}
  IN before

\* The phases seeded first are the first ones of the recipe.
SeededInOrder(policy) ==
  \A p \in ActivePhases(policy), q \in FirstPhases(policy, TRUE, FALSE) :
    Before(policy, p, q) => p \in FirstPhases(policy, TRUE, FALSE)

\* Whatever is added when, by answers or by callers, the units below a phase wait
\* for all the recipe's steps of the phases before it, also for those folded into
\* them, unless a child of one of these phases, or of one between them, named its
\* own dependencies: it may wait for nothing, and what comes behind it then waits
\* for no more.  (Where a phase is seeded before an earlier one of the recipe, as
\* one that the configuration names, or "clarify" where it is not the first, the
\* earlier ones come too late.)
StepsWaitForEarlierPhases ==
  SeededInOrder(recipe) =>
    \A d \in DOMAIN lanes : LET graph == lanes[d]
                                 waits == WaitsFor(graph) IN
      \A i, j \in DOMAIN graph :
        (/\ Before(recipe, graph[i].phase, graph[j].phase)
         /\ graph[i].below # <<>> /\ graph[i].from # "caller" /\ graph[j].below # <<>>
         /\ \A k \in DOMAIN graph : graph[k].own =>
              \/ Before(recipe, graph[k].phase, graph[i].phase)
              \/ Before(recipe, graph[j].phase, graph[k].phase))
        => NameOf(graph[i]) \in waits[j]

\* While the answers are missing no domain has a phase the configuration did
\* not name first.
NothingBeforeTheAnswers ==
  unanswered => \A d \in DOMAIN lanes : \A i \in DOMAIN lanes[d] :
    lanes[d][i].phase \in FirstPhases(recipe, TRUE, FALSE)

PhasesAreGated == StepsWaitForEarlierPhases /\ NothingBeforeTheAnswers
=============================================================================
