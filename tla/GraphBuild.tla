----------------------------- MODULE GraphBuild -----------------------------
(***************************************************************************)
(* The task graph a pack compiles and integrations build call by call, and *)
(* the work graph of one task.  Every call changes the graph, validates    *)
(* the whole, and takes its change back when the graph is not sound; an    *)
(* expansion checks all its children before it adds the first.             *)
(***************************************************************************)
EXTENDS Naturals, FiniteSets

CONSTANTS
  TaskNames,     \* ids of tasks
  ContractNames, \* contract references
  UnitNames,     \* ids of work units
  Policies,      \* what a child may only narrow: scope, authority, ownership
  Grants,        \* the members of a policy
  MaxRefusals   \* bound: calls that are refused

\* The parent of a root is None, which is no id.
ASSUME RootIsNoUnit == "root" \notin UnitNames

VARIABLES
  members,   \* the tasks
  needs,     \* dependencies: needs[t], set of [on, condition]
  contracts, \* the contract nodes: the owner each one names
  bound,     \* contract_ref of each task
  taskState, \* state of each task
  units,     \* the work graph: records [id, parent, grants]
  refused    \* calls that raised

graphVars == <<members, needs, contracts, bound, taskState, units, refused>>
Root == "root"
Unlisted == "unlisted"
Conditions == {"completed", "exports_available"}

GraphInit ==
  /\ members = {} /\ needs = [t \in TaskNames |-> {}]
  /\ contracts \in SUBSET ContractNames \* the constructor's contracts
  /\ bound = [t \in TaskNames |-> Unlisted] /\ taskState = [t \in TaskNames |-> "proposed"]
  /\ units = {} /\ refused = 0

Parents(edges, t) == {d.on : d \in edges[t]}

\* The search of validate finds a cycle just when some tasks all wait for
\* others among them.
Acyclic(nodes, edges) ==
  \A S \in SUBSET nodes : S # {} => \E t \in S : Parents(edges, t) \intersect S = {}

\* A plausible slip: only the new edge is looked at.
NoLoopOfTwo(nodes, edges, refs, known) ==
  /\ \A t \in nodes : Parents(edges, t) \subseteq nodes \ {t}
  /\ \A t, u \in nodes : ~ (t \in Parents(edges, u) /\ u \in Parents(edges, t))
  /\ \A t \in nodes : refs[t] \in known

\* TaskGraph.validate
Valid(nodes, edges, refs, known) ==
  /\ \A t \in nodes : refs[t] \in known
  /\ \A t \in nodes : Parents(edges, t) \subseteq nodes \ {t}
  /\ Acyclic(nodes, edges)

Refuse == refused < MaxRefusals /\ refused' = refused + 1

\* The rollback of add_task takes the contract along when no task is left that
\* names it, whether or not the call had brought it.
ContractsAfterRefusal(nodes, refs, known, c) ==
  IF c \in {refs[u] : u \in nodes} THEN known ELSE known \ {c}

\* add_task: a missing contract is made up.
AddTask(t, c, deps) ==
  LET nodes == members \union {t}
      edges == [needs EXCEPT ![t] = deps]
      refs  == [bound EXCEPT ![t] = c]
      known == contracts \union {c}
  IN
  /\ t \notin members /\ UNCHANGED <<taskState, units>>
  /\ \/ /\ Valid(nodes, edges, refs, known)
        /\ members' = nodes /\ needs' = edges /\ bound' = refs /\ contracts' = known
        /\ UNCHANGED refused
     \/ /\ ~Valid(nodes, edges, refs, known) /\ Refuse
        /\ contracts' = ContractsAfterRefusal(members, bound, known, c)
        /\ UNCHANGED <<members, needs, bound>>

\* add_dependency
AddDependency(parent, child, condition) ==
  LET edges == [needs EXCEPT ![child] = @ \union {[on |-> parent, condition |-> condition]}] IN
  /\ {parent, child} \subseteq members /\ parent # child /\ edges # needs
  /\ IF Valid(members, edges, bound, contracts)
     THEN needs' = edges /\ UNCHANGED refused ELSE Refuse /\ UNCHANGED needs
  /\ UNCHANGED <<members, contracts, bound, taskState, units>>

\* dependencies_satisfied, without completions or exports from outside.
DependenciesSatisfied(t) ==
  \A d \in needs[t] : d.condition = "completed" /\ taskState[d.on] = "completed"

ReadyTasks == {t \in members : taskState[t] \in {"proposed", "ready"} /\ DependenciesSatisfied(t)}

\* A scheduler takes what ready_tasks gives it.
Complete(t) ==
  /\ t \in ReadyTasks /\ taskState' = [taskState EXCEPT ![t] = "completed"]
  /\ UNCHANGED <<members, needs, contracts, bound, units, refused>>

TaskGraphCalls ==
  \/ \E t \in TaskNames, c \in ContractNames, on \in SUBSET TaskNames, k \in Conditions :
       AddTask(t, c, {[on |-> u, condition |-> k] : u \in on})
  \/ \E t, u \in TaskNames, k \in Conditions : AddDependency(t, u, k)
  \/ \E t \in TaskNames : Complete(t)

-----------------------------------------------------------------------------
UnitIds == {u.id : u \in units}
GrantsOf(id) == (CHOOSE u \in units : u.id = id).grants

\* _assert_child
Within(parent, child) == \A p \in Policies : child[p] \subseteq parent[p]

\* Policies a child does not mention are its parent's.
Inherited(parent, given) == [p \in Policies |-> IF given[p] = {Unlisted} THEN parent[p] ELSE given[p]]
Bare(given) == [p \in Policies |-> given[p] \ {Unlisted}]

\* add: a root, or a unit with its parent named, where nothing is inherited.
AddUnit(id, parent, given) ==
  /\ id \notin UnitIds
  /\ parent = Root \/ (parent \in UnitIds /\ Within(GrantsOf(parent), Bare(given)))
  /\ units' = units \union {[id |-> id, parent |-> parent, grants |-> Bare(given)]}
  /\ UNCHANGED <<members, needs, contracts, bound, taskState, refused>>

\* add_child and expand: all the children or none.
Expand(parent, batch) ==
  LET records == {[id |-> b.id, parent |-> parent, grants |-> Inherited(GrantsOf(parent), b.given)] : b \in batch} IN
  /\ parent \in UnitIds /\ batch # {}
  /\ IF /\ \A b \in batch : b.id \notin UnitIds
        /\ \A b, c \in batch : b.id = c.id => b = c
        /\ \A r \in records : Within(GrantsOf(parent), r.grants)
     THEN units' = units \union records /\ UNCHANGED refused
     ELSE Refuse /\ UNCHANGED units
  /\ UNCHANGED <<members, needs, contracts, bound, taskState>>

GivenGrants == [Policies -> (SUBSET Grants) \union {{Unlisted}}]

WorkGraphCalls == \E id \in UnitNames, given \in GivenGrants :
  \/ \E parent \in UnitIds \union {Root} : AddUnit(id, parent, given)
  \/ \E parent \in UnitIds, id2 \in UnitNames, more \in GivenGrants :
       Expand(parent, {[id |-> id, given |-> given], [id |-> id2, given |-> more]})

-----------------------------------------------------------------------------
\* Whatever calls were made and refused, no task is bound to a contract that is
\* gone, and the graph can be run to its end: while tasks are left, one of them
\* is ready, or waits for exports.
GraphCanFinish ==
  /\ \A t \in members : bound[t] \in contracts
  /\ LET left == {t \in members : taskState[t] # "completed"} IN
     left = {} \/ \E t \in left :
       t \in ReadyTasks \/ \E d \in needs[t] : d.condition = "exports_available" /\ d.on \notin left

\* Nothing is gained on the way down: a unit that is in every set that holds
\* r and the children of its members is below r, and holds at most r's grants.
DescendantsStayWithin ==
  \A r, u \in units :
    (\A S \in SUBSET units :
       r \in S /\ (\A v \in units : v.parent \in {s.id : s \in S} => v \in S) => u \in S)
    => \A p \in Policies : u.grants[p] \subseteq r.grants[p]

\* A call, also one that is refused, leaves graphs that can be worked off and
\* in which nobody below a unit may do more than the unit.
CallsKeepGraphsSound == GraphCanFinish /\ DescendantsStayWithin
=============================================================================
