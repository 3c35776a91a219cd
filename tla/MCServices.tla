----------------------------- MODULE MCServices -----------------------------
(***************************************************************************)
(* A small instance of every component next to the dispatch core.  They    *)
(* share no state, so that a behaviour moves one of them, the part it      *)
(* chose at first, and the others stay as one of their first states.       *)
(***************************************************************************)
EXTENDS Journal, Snapshots, ThreadStream, HostThreads, Boundaries, Permissions,
        Evidence, Contracts, GraphBuild, Migrations, Routes, ResearchRuntime,
        Capability, Phases, Goals, TLC

CONSTANT Parts
VARIABLE part

-----------------------------------------------------------------------------
(* Journal: a writer and its follower in one process; in another a writer    *)
(* that opens the Store first, and one that only sets statuses.              *)
FollowOne    == "r1" :> "x"
ThreeHandles == "r1" :> "h1" @@ "w" :> "h1" @@ "v" :> "h2" @@ "u" :> "h3"
TwoStores    == "r1" :> "s1" @@ "w" :> "s1" @@ "v" :> "s2" @@ "u" :> "s2"
StatusesHere == {"created", "active", "completed"}
(* All in one process, with a journal each and with one journal.             *)
OneStore     == [t \in {"r1", "w", "v", "u"} |-> "s1"]
OneHandle    == [t \in {"r1", "w", "v", "u"} |-> "h1"]

(* Snapshots *)
WrittenDeltas == {"contract" :> "m" @@ "note" :> "m", "contract" :> Deleted}

(* ThreadStream: turns that start and end, in this thread and another. *)
Event(method, thread, turn, at) ==
  [method |-> method, thread |-> thread, turn |-> turn, at |-> at, from |-> NoField, to |-> NoField]
Exported ==
  {Event("turn/started", "this", "t1", at) : at \in {0, 1, 2}}
  \union {Event("other", "this", "t1", 2)}
  \union {Event("turn/started", th, "t2", 2) : th \in {"this", NoField, "other"}}
  \union {Event("turn/completed", "this", tu, at) : tu \in {"t1", "t2"}, at \in {1, 3}}
  \union {[Event("model/rerouted", "this", NoField, 0) EXCEPT !.from = f, !.to = "m2"] : f \in {"m1", "m2"}}

(* HostThreads: actions that name their class, tool and substitute or not. *)
Raw(key, class, kind, tool, exact, substitutes) ==
  [key |-> key, class |-> class, kind |-> kind, tool |-> tool, exact |-> exact,
   substitutes |-> substitutes, unavailable |-> Unset, required |-> Unset, complete |-> TRUE]
Raws ==
  {Raw("k", c, "create-top-level-task", t, e, s) :
     c \in {Unset}, t \in {Unset, CodexTool, DeepSeekTool}, e \in {Unset, CodexTool}, s \in BOOLEAN}
  \union {Raw("l", Unset, kind, CodexTool, Unset, FALSE) : kind \in {"create-top-level-task", "spawn-subagent"}}

(* Boundaries: a request that completes, and one that needs it or a decision. *)
Wish(complete, decide, on) == [complete |-> complete, decide |-> decide, needs |-> on]
WishesMade == {Wish(TRUE, FALSE, "r1"), Wish(TRUE, FALSE, NoRequest), Wish(FALSE, TRUE, NoRequest)}

(* Evidence: commands and artifacts, listed or found, with and without       *)
(* approval, checked by each adapter.                                        *)
Command ==
  [id |-> "c1", kind |-> "command", satisfies |-> {"x"}, argv |-> "pytest", state |-> "trusted",
   source |-> "repository-discovered", ref |-> "file", registered |-> FALSE, approval |-> NoApproval,
   inside |-> TRUE, networked |-> FALSE, network |-> "deny", destructive |-> FALSE]
Diff == [Command EXCEPT !.id = "a1", !.kind = "workspace", !.satisfies = {"y"}]
Push(scopes) ==
  [Command EXCEPT !.id = "p1", !.argv = "git push", !.source = "user-approved", !.destructive = TRUE,
                  !.approval = [of |-> "git push", scopes |-> scopes]]
Domain(conditions, explicit, found, trust) ==
  [conditions |-> conditions, explicit |-> explicit, found |-> found, pack |-> {}, trust |-> trust]
DomainsHere ==
  {Domain({"x"}, {}, {Command}, NoTrust),
   Domain({"x", "y"}, {}, {Command}, NoTrust),
   Domain({"x", "y"}, {Command, Diff}, {}, NoTrust),
   Domain({"x", "y"}, {Command}, {}, NoTrust),
   Domain({"x"}, {Push({"command"})}, {}, NoTrust),
   Domain({"x"}, {Push({"command", "destructive"})}, {}, NoTrust),
   Domain({"x"}, {[Command EXCEPT !.state = NoTrust]}, {}, "trusted")}
Collector(adapter, base, projectless) == [adapter |-> adapter, base |-> base, projectless |-> projectless]
SettingsHere ==
  {Collector("git", TRUE, FALSE), Collector("git", FALSE, FALSE), Collector("filesystem", FALSE, FALSE),
   Collector("none", FALSE, FALSE), Collector("none", FALSE, TRUE)}

(* Contracts *)
ChangesHere ==
  "k1" :> [remove |-> {}, change |-> {"i"}, add |-> {}] @@ "k2" :> [remove |-> {"i"}, change |-> {}, add |-> {"j"}]

(* Migrations: one process runs older code. *)
LatestHere == "a" :> 7 @@ "b" :> 7 @@ "c" :> 6

(* Routes: one task keeps the run's route, the other asks for its own; the   *)
(* host's configuration names another.                                       *)
Route(model, reasoning) == [model |-> model, reasoning |-> reasoning]
RunRouteHere     == Route("a", "low")
ModelOnly        == Route("a", NotGiven)
TaskRouteHere    == "t" :> Route(NotGiven, NotGiven) @@ "u" :> Route("b", "low")
AssuranceHere    == "t" :> "hard_lock" @@ "u" :> "request_only"
ConfigurableHere == {Route(NotGiven, NotGiven), Route("b", "low")}

(* ResearchRuntime *)
Record(id, kind, route, refs) == [id |-> id, kind |-> kind, route |-> route, refs |-> refs]
PacketHere   == {Record("c", "claim", Open, {}), Record("u", "unknown", Open, {})}
FindingsHere ==
  {Record("e", "evidence", "r1", {"c"}), Record("f", "failure", "r1", {"e"}),
   Record("f", "lesson", Open, {"e"}), Record("p", "problem", Open, {"u", "f"})}
RewindsHere  == {[id |-> "w", route |-> "r1", target |-> "c"]}
Decision(id, state, scope, selects) == [id |-> id, status |-> state, scope |-> scope, selects |-> selects]
DecisionsHere ==
  {Decision("d1", "confirmed", "canonical-promotion", "r1"), Decision("d1", "rejected", "canonical-promotion", Open),
   Decision("d2", "confirmed", "route", Open), Decision("d2", "proposed", "route", "r2")}

(* Capability: a fallback that asks for less than what it stands for. *)
Declares(scopes, mutates) == [scopes |-> scopes, mutates |-> mutates]
DeclarationsHere == {Declares({"read"}, FALSE), Declares({"write"}, FALSE), Declares({"read"}, TRUE)}
Fallback(d, evidence) == [id |-> "g", described |-> d, evidence |-> evidence]
Asks(scope, applicable, fallback) ==
  [id |-> "c", described |-> Declares({"read"}, FALSE), scope |-> scope, applicable |-> applicable, fallback |-> fallback]
BindingsHere ==
  {Asks({}, TRUE, Absent), Asks({"read"}, FALSE, Absent),
   Asks({"write"}, TRUE, Fallback(Declares({"read"}, FALSE), TRUE)),
   Asks({"extra"}, TRUE, Fallback(Declares({}, FALSE), FALSE))}

(* Phases: recipes that wait, skip and fold. *)
FourPhases == <<"clarify", "specify", "implement", "verify">>
StepsHere  == [p \in PhaseNames |-> IF p = "implement" THEN 2 ELSE 1]
Policy(lazy, clarifyFirst, skip, fold, initial) ==
  [phases |-> FourPhases, lazy |-> lazy, clarifyFirst |-> clarifyFirst, skip |-> skip, fold |-> fold, initial |-> initial]
PoliciesHere ==
  {Policy(FALSE, TRUE, {}, <<>>, <<>>), Policy(TRUE, TRUE, {}, << <<"verify", "implement">> >>, <<>>),
   Policy(TRUE, TRUE, {"clarify"}, <<>>, <<>>), Policy(TRUE, FALSE, {"specify"}, << <<"specify", "clarify">> >>, <<>>),
   Policy(TRUE, TRUE, {}, << <<"specify", "clarify">>, <<"verify", "implement">> >>, <<>>),
   Policy(TRUE, TRUE, {}, <<>>, <<"clarify", "specify">>), Policy(FALSE, TRUE, {}, <<>>, <<"implement">>)}
OwnWaitsHere == {{}}
TwoOutcomes == <<"first", "second">>
(* Callers add to the first domain, and number their children in the order in
   which they come there. *)
Added(graph) == SelectSeq(graph, LAMBDA u : u.from = "caller")

(* Goals: outcomes that share words, one that differs only in its verb, one with
   an article, and one reference to two of them. *)
WordsOf(n)  == CASE n \in {"build api", "test api", "api"} -> {"api"} [] n = "api docs" -> {"api", "docs"}
                 [] n \in {"ui", "the ui"} -> {"ui"} [] n = "ui and report" -> {"ui", "report"} [] OTHER -> {n}
CleanHere   == [n \in Names |-> IF n = "the ui" THEN "ui" ELSE n]
SlugHere    == [n \in Names |-> IF n \in {"build api", "test api"} THEN "api" ELSE CleanHere[n]]
OverlapHere == [n \in Names |-> [m \in Names |-> Cardinality(WordsOf(n) \intersect WordsOf(m))]]
Clause(then, link, pieces, on) ==
  [then |-> then, link |-> link, pieces |-> pieces, on |-> on,
   parts |-> IF on = "ui and report" THEN <<"ui", "report">> ELSE <<on>>]
ClausesHere ==
  {Clause(FALSE, "none", <<"build api">>, Nothing), Clause(TRUE, "none", <<"test api">>, Nothing),
   Clause(TRUE, "none", <<"ui", "report">>, Nothing), Clause(FALSE, "after", <<"report">>, "ui"),
   Clause(TRUE, "after", <<"api docs">>, "test api"), Clause(FALSE, "before", <<"ui">>, "report"),
   Clause(FALSE, "after", <<"ui">>, "api docs"), Clause(FALSE, "before", <<"report">>, "the ui"),
   Clause(FALSE, "after", <<"api docs">>, "ui and report")}
Listed(id, text, refs) == [id |-> id, text |-> text, refs |-> refs]
ListingsHere ==
  {<<Listed("api", "build api", {}), Listed("ui", "ui", {"api"}), Listed("ui", "report", {"ui"})>>,
   <<Listed("api", "build api", {"ui"}), Listed("ui", "ui", {"build api"})>>,
   <<Listed("ui", "ui", {"nobody"})>>,
   <<Listed("ui", "ui", {}), Listed("report", "report", {"ui"}), Listed("api", "test api", {"report", "ui"})>>}
TreesHere   == {<<>>, << <<"api">>, <<"services">>, <<"services", "ui">>, <<"lib", "ui">>, <<"dist">> >>}
TouchesHere == [n \in Names |-> {n} \intersect {"api", "ui"}]

-----------------------------------------------------------------------------
\* What a part that does not move is like.
Unless(p, first) == part = p \/ first

Init ==
  /\ part \in Parts
  /\ JournalInit /\ SnapInit /\ PermissionInit /\ ContractInit /\ ResearchInit
  /\ StreamInit      /\ Unless("stream", askedModel = "m1" /\ demandedModel = "m1")
  /\ HostInit        /\ Unless("host", declared)
  /\ BoundaryInit    /\ Unless("promotions", wish["r1"].complete /\ wish["r1"].needs = NoRequest /\ wish["r2"].decide)
  /\ EvidenceInit    /\ Unless("evidence", setting = Collector("git", TRUE, FALSE) \/ (part = "checks" /\ setting.projectless))
                     /\ Unless("checks", contract = [conditions |-> {"x"}, specs |-> {Command}])
  /\ GraphInit       /\ Unless("tasks", contracts = {})
  /\ MigrationsInit  /\ Unless("migrations", userVersion = 7)
  /\ RoutesInit      /\ Unless("routes", configured = Route("b", "low") \/ part = "receipts")
  /\ CapabilityInit  /\ Unless("capability", \A c \in Ids : registry[c] = Absent)
  /\ PhasesInit      /\ Unless("phases", recipe.skip = {"clarify"} /\ unanswered)
  /\ GoalInit        /\ Unless("goals", fragments = <<Listed("ui", "ui", {"nobody"})>>)

others1 == <<journalVars, snapVars, streamVars, hostVars>>
others2 == <<boundaryVars, permissionVars, evidenceVars, contractVars>>
others3 == <<graphVars, migrationVars, routeVars, researchVars>>
others4 == <<capabilityVars, phaseVars, goalVars>>
allVars == <<part, others1, others2, others3, others4>>

First  == UNCHANGED <<part, others2, others3, others4>>
Second == UNCHANGED <<part, others1, others3, others4>>
Third  == UNCHANGED <<part, others1, others2, others4>>
Fourth == UNCHANGED <<part, others1, others2, others3>>

Next ==
  \/ part = "journal"    /\ JournalNext    /\ First /\ UNCHANGED <<snapVars, streamVars, hostVars>>
     /\ "u" \notin {owner'} \union Range(held') /\ Range(draftStatus') \subseteq StatusesHere
     /\ draftStatus'["y"] = "created"
  \/ part = "snapshots"  /\ SnapNext       /\ First /\ UNCHANGED <<journalVars, streamVars, hostVars>>
     /\ kpc'["p"] = "idle"
  \/ part = "kernels"    /\ SnapNext       /\ First /\ UNCHANGED <<journalVars, streamVars, hostVars>>
     /\ Len(snaps') <= 2
  \/ part = "stream"     /\ StreamNext     /\ First /\ UNCHANGED <<journalVars, snapVars, hostVars>>
  \/ part = "host"       /\ HostNext       /\ First /\ UNCHANGED <<journalVars, snapVars, streamVars>>
  \/ part = "promotions" /\ BoundaryNext   /\ Second /\ UNCHANGED <<permissionVars, evidenceVars, contractVars>>
     /\ bpc'["l1"] = "idle" /\ UNCHANGED <<correctionVars, unitsDone>>
  \/ part = "handoffs"   /\ BoundaryNext   /\ Second /\ UNCHANGED <<permissionVars, evidenceVars, contractVars>>
     /\ promotion'["r2"] = "none"
  \/ part = "permission" /\ PermissionNext /\ Second /\ UNCHANGED <<boundaryVars, evidenceVars, contractVars>>
  \/ part = "evidence"   /\ EvidenceNext   /\ Second /\ UNCHANGED <<boundaryVars, permissionVars, contractVars>>
     /\ (payload["text"] = "ok" => payload'["text"] = "ok")
  \/ part = "checks"     /\ EvidenceNext   /\ Second /\ UNCHANGED <<boundaryVars, permissionVars, contractVars>>
     /\ edits' <= 1
  \/ part = "contracts"  /\ ContractNext   /\ Second /\ UNCHANGED <<boundaryVars, permissionVars, evidenceVars>>
     /\ Cardinality(drafts') <= 3
  \/ part = "tasks"      /\ TaskGraphCalls /\ Third /\ UNCHANGED <<migrationVars, routeVars, researchVars>>
  \/ part = "units"      /\ WorkGraphCalls /\ Third /\ UNCHANGED <<migrationVars, routeVars, researchVars>>
  \/ part = "migrations" /\ MigrationsNext /\ Third /\ UNCHANGED <<graphVars, routeVars, researchVars>>
  \/ part = "routes"     /\ RoutesNext     /\ Third /\ UNCHANGED <<graphVars, migrationVars, researchVars>>
     /\ receipts' <= 1
  \/ part = "receipts"   /\ RoutesNext     /\ Third /\ UNCHANGED <<graphVars, migrationVars, researchVars>>
     /\ profile'["q"] = NoRoute /\ missed'["q"] = {} /\ judging'["q"] = {}
  \/ part = "research"   /\ ResearchNext   /\ Third /\ UNCHANGED <<graphVars, migrationVars, routeVars>>
  \/ part = "capability" /\ CapabilityNext /\ Fourth /\ UNCHANGED <<phaseVars, goalVars>>
  \/ part = "phases"     /\ PhasesNext     /\ Fourth /\ UNCHANGED <<capabilityVars, goalVars>>
     /\ Added(lanes'["second"]) = <<>>
     /\ \A i \in DOMAIN Added(lanes'["first"]) : Added(lanes'["first"])[i].step = i
  \/ part = "goals"      /\ GoalNext       /\ Fourth /\ UNCHANGED <<capabilityVars, phaseVars>>

Spec == Init /\ [][Next]_allVars
=============================================================================
