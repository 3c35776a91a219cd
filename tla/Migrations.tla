------------------------------ MODULE Migrations ------------------------------
(***************************************************************************)
(* Opening a store: each process compares the two records of the schema's  *)
(* version and applies the migrations its code knows, one transaction each.*)
(* The comparison is several reads outside any transaction, so processes   *)
(* that open the same store see each other's migrations half way.  A       *)
(* process that is refused, or dies, may open the store again.             *)
(***************************************************************************)
EXTENDS Naturals, Sequences

CONSTANTS
  Openers,       \* processes that open the store
  Latest,        \* the newest version each one's code knows
  FirstVersions, \* versions the store may have at first
  MaxOpens       \* bound: times a process opens

ASSUME MigrationConstants == FirstVersions \subseteq Nat /\ Latest \in [Openers -> Nat]

VARIABLES
  userVersion, \* PRAGMA user_version
  versionLog,  \* versions recorded in schema_migrations
  scripts,     \* history: the scripts that took effect, in order
  opc,         \* each opener: closed, counting, comparing, waiting, open, refused
  stage,       \* why it compares: survey, before, after
  readVersion, \* the user_version it read
  goal,        \* the migration it applies
  opens,       \* times it opened
  disturbed    \* history: the store changed, by others, since it opened

openerVars == <<opc, stage, readVersion, goal, opens, disturbed>>
migrationVars == <<userVersion, versionLog, scripts, openerVars>>

MigrationsInit ==
  /\ userVersion \in FirstVersions /\ versionLog = 1 .. userVersion
  /\ scripts = [v \in 1 .. userVersion |-> v]
  /\ opc = [p \in Openers |-> "closed"] /\ stage = [p \in Openers |-> "survey"]
  /\ readVersion = [p \in Openers |-> 0] /\ goal = [p \in Openers |-> 0]
  /\ opens = [p \in Openers |-> 0] /\ disturbed = [p \in Openers |-> FALSE]

\* The scripts that add columns fail when they run a second time; the others
\* create what does not exist.
AddsColumns == {2, 4, 5, 7}

Opens(p) ==
  /\ opc[p] \in {"closed", "refused"} /\ opens[p] < MaxOpens
  /\ opc' = [opc EXCEPT ![p] = "counting"] /\ stage' = [stage EXCEPT ![p] = "survey"]
  /\ opens' = [opens EXCEPT ![p] = @ + 1] /\ disturbed' = [disturbed EXCEPT ![p] = FALSE]
  /\ UNCHANGED <<userVersion, versionLog, scripts, readVersion, goal>>

\* schema_version, first read.
ReadUserVersion(p) ==
  /\ opc[p] = "counting" /\ opc' = [opc EXCEPT ![p] = "comparing"]
  /\ readVersion' = [readVersion EXCEPT ![p] = userVersion]
  /\ UNCHANGED <<userVersion, versionLog, scripts, stage, goal, opens, disturbed>>

LogVersion == IF versionLog = {} THEN 0 ELSE CHOOSE v \in versionLog : \A w \in versionLog : w <= v

\* apply_all goes to the next migration it knows; apply goes on only when that
\* is the one after the current version.
NextStep(p, current) ==
  IF stage[p] = "before"
  THEN IF goal[p] = current + 1 THEN <<"waiting", "after", goal[p]>> ELSE <<"refused", "survey", 0>>
  ELSE IF current < Latest[p] THEN <<"counting", "before", current + 1>> ELSE <<"open", "survey", 0>>

\* schema_version, second read.
ReadLog(p) ==
  LET current == readVersion[p]
      step == IF current # LogVersion \/ current > Latest[p]
              THEN <<"refused", "survey", 0>> ELSE NextStep(p, current)
  IN
  /\ opc[p] = "comparing"
  /\ opc' = [opc EXCEPT ![p] = step[1]] /\ stage' = [stage EXCEPT ![p] = step[2]]
  /\ goal' = [goal EXCEPT ![p] = step[3]]
  /\ UNCHANGED <<userVersion, versionLog, scripts, readVersion, opens, disturbed>>

Recorded(v) == userVersion' = v /\ versionLog' = versionLog \union {v} /\ scripts' = Append(scripts, v)

\* A plausible slip, executescript: every statement commits by itself.
ByStatement(v) ==
  Recorded(v) \/ (userVersion' = v /\ UNCHANGED versionLog /\ scripts' = Append(scripts, v))

\* The script and its record, in one transaction.
RunScript(v) == Recorded(v)

\* A column that is there, or a record that is there, fails the script.
Fails(v) == (v \in AddsColumns /\ \E i \in DOMAIN scripts : scripts[i] = v) \/ v \in versionLog

\* MigrationRunner.apply: BEGIN IMMEDIATE, the script, commit or rollback.
ApplyMigration(p) ==
  /\ opc[p] = "waiting" /\ UNCHANGED <<stage, readVersion, goal, opens>>
  /\ \/ /\ ~Fails(goal[p]) /\ RunScript(goal[p])
        /\ opc' = [opc EXCEPT ![p] = "counting"]
        /\ disturbed' = [q \in Openers |-> disturbed[q] \/ q # p]
     \/ /\ Fails(goal[p]) /\ opc' = [opc EXCEPT ![p] = "refused"]
        /\ UNCHANGED <<userVersion, versionLog, scripts, disturbed>>

\* The process ends, or dies; a transaction it was in is rolled back.
Leave(p) ==
  /\ opc[p] # "closed" /\ opc' = [opc EXCEPT ![p] = "closed"]
  /\ UNCHANGED <<userVersion, versionLog, scripts, stage, readVersion, goal, opens, disturbed>>

MigrationsNext == \E p \in Openers :
  Opens(p) \/ ReadUserVersion(p) \/ ReadLog(p) \/ ApplyMigration(p) \/ Leave(p)

-----------------------------------------------------------------------------
\* Whoever opens the store, with whatever code, together or after a crash, each
\* script takes effect once and in order and both records agree on it; and
\* nobody is refused a store that nobody else changed meanwhile, unless the
\* store is newer than its code.
SchemaIsWhole ==
  /\ userVersion = Len(scripts) /\ versionLog = 1 .. userVersion
  /\ \A v \in DOMAIN scripts : scripts[v] = v
  /\ \A p \in Openers : opc[p] = "refused" => disturbed[p] \/ userVersion > Latest[p]
=============================================================================
