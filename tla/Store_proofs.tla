---------------------------- MODULE Store_proofs ----------------------------
(***************************************************************************)
(* What the store promises whoever shares it, for any number of openers,   *)
(* tasks, runs, handles and followers.                                     *)
(*                                                                         *)
(* Migrations: an opener nobody disturbed knows the version there is, so   *)
(* the schema is whole whatever versions the processes' code knows.        *)
(*                                                                         *)
(* Routes: the receipt of a locked route is what was asked for.            *)
(*                                                                         *)
(* Journal: a run's last status signal is its status, the lock of the file *)
(* passes on, and a follower's cursor stands between what it has and what  *)
(* it is yet to see.                                                       *)
(*                                                                         *)
(* Snapshots: a reference keeps its meaning through every replacement, and *)
(* an invalidation reaches what it could see.                              *)
(***************************************************************************)
EXTENDS Migrations, Routes, Journal, Snapshots, WellFoundedInduction, TLAPS

-----------------------------------------------------------------------------
(* Migrations: an opener nobody disturbed knows the version there is        *)

MigrationSpec == MigrationsInit /\ [][MigrationsNext]_migrationVars

\* The store holds the scripts up to its version, and says so.
Whole(version) ==
  /\ version \in Nat
  /\ userVersion = version /\ versionLog = 1 .. version
  /\ scripts = [v \in 1 .. version |-> v]

\* What an opener remembers is never ahead of the store, and just right while
\* nobody else changed the store.
Abreast(p) ==
  /\ readVersion[p] \in Nat /\ readVersion[p] <= userVersion
  /\ opc[p] = "comparing" /\ ~disturbed[p] => readVersion[p] = userVersion
  /\ opc[p] \in {"counting", "comparing"} /\ stage[p] = "before" /\ ~disturbed[p] =>
       goal[p] = userVersion + 1
  /\ opc[p] = "waiting" =>
       /\ stage[p] = "after"
       /\ goal[p] \in 1 .. userVersion + 1
       /\ ~disturbed[p] => goal[p] = userVersion + 1
  /\ opc[p] = "refused" => disturbed[p] \/ userVersion > Latest[p]

MigrationInv ==
  /\ Whole(userVersion)
  /\ disturbed \in [Openers -> BOOLEAN]
  /\ opc = [p \in Openers |-> opc[p]] /\ stage = [p \in Openers |-> stage[p]]
  /\ readVersion = [p \in Openers |-> readVersion[p]] /\ goal = [p \in Openers |-> goal[p]]
  /\ \A p \in Openers : Abreast(p)

LEMMA InitMigration == MigrationsInit => MigrationInv
BY MigrationConstants DEF MigrationsInit, MigrationInv, Whole, Abreast

\* The newest recorded version of a whole store is its version.
LEMMA LogAgrees ==
  ASSUME Whole(userVersion)
  PROVE  LogVersion = userVersion
<1>1. CASE userVersion = 0
  <2>1. versionLog = {}
    BY <1>1 DEF Whole
  <2> QED
    BY <1>1, <2>1 DEF LogVersion
<1>2. CASE userVersion # 0
  <2>1. userVersion \in versionLog /\ \A w \in versionLog : w \in Nat /\ w <= userVersion
    BY <1>2 DEF Whole
  <2>2. LogVersion \in versionLog /\ \A w \in versionLog : w <= LogVersion
    BY <2>1 DEF LogVersion
  <2> QED
    BY <2>1, <2>2 DEF Whole
<1> QED
  BY <1>1, <1>2

\* One more script leaves the store whole.
LEMMA RecordedIsWhole ==
  ASSUME Whole(userVersion), Recorded(userVersion + 1)
  PROVE  Whole(userVersion)'
<1>1. userVersion' = userVersion + 1 /\ userVersion' \in Nat
  BY DEF Recorded, Whole
<1>2. versionLog' = 1 .. (userVersion + 1)
  BY DEF Recorded, Whole
<1>3. scripts' = [v \in 1 .. (userVersion + 1) |-> v]
  BY DEF Recorded, Whole
<1> QED
  BY <1>1, <1>2, <1>3 DEF Whole

\* The script of a migration that does not fail is the next one.
LEMMA NextIsRecorded ==
  ASSUME MigrationInv, NEW p \in Openers, opc[p] = "waiting"
  PROVE  /\ ~Fails(goal[p]) => goal[p] = userVersion + 1
         /\ Fails(goal[p]) => disturbed[p]
<1> USE DEF MigrationInv, Whole, Abreast
<1>1. goal[p] \notin versionLog => goal[p] = userVersion + 1
  OBVIOUS
<1>2. ASSUME goal[p] = userVersion + 1 PROVE ~Fails(goal[p])
  BY <1>2 DEF Fails
<1> QED
  BY <1>1, <1>2 DEF Fails

\* A step of one opener that leaves the store alone only has to keep it abreast.
LEMMA OneOpener ==
  ASSUME MigrationInv, NEW p \in Openers,
         UNCHANGED <<userVersion, versionLog, scripts>>,
         opc' = [opc EXCEPT ![p] = opc'[p]], stage' = [stage EXCEPT ![p] = stage'[p]],
         readVersion' = [readVersion EXCEPT ![p] = readVersion'[p]],
         goal' = [goal EXCEPT ![p] = goal'[p]],
         disturbed' = [disturbed EXCEPT ![p] = disturbed'[p]], disturbed'[p] \in BOOLEAN,
         Abreast(p)'
  PROVE  MigrationInv'
<1> USE DEF MigrationInv
<1>1. Whole(userVersion)'
  BY DEF Whole
<1>2. ASSUME NEW q \in Openers, q # p PROVE Abreast(q)'
  BY <1>2 DEF Abreast
<1> QED
  BY <1>1, <1>2

LEMMA NextMigration == MigrationInv /\ [MigrationsNext]_migrationVars => MigrationInv'
<1> SUFFICES ASSUME MigrationInv, [MigrationsNext]_migrationVars PROVE MigrationInv'
  OBVIOUS
<1>1. ASSUME NEW p \in Openers, Opens(p) PROVE MigrationInv'
  <2>1. Abreast(p)'
    BY <1>1 DEF Opens, MigrationInv, Abreast
  <2> QED
    BY <1>1, <2>1, OneOpener DEF Opens, MigrationInv
<1>2. ASSUME NEW p \in Openers, ReadUserVersion(p) PROVE MigrationInv'
  <2>1. Abreast(p)'
    BY <1>2 DEF ReadUserVersion, MigrationInv, Abreast, Whole
  <2> QED
    BY <1>2, <2>1, OneOpener DEF ReadUserVersion, MigrationInv
<1>3. ASSUME NEW p \in Openers, ReadLog(p) PROVE MigrationInv'
  <2>1. LogVersion = userVersion
    BY LogAgrees DEF MigrationInv
  <2>2. Abreast(p)'
    BY <1>3, <2>1 DEF ReadLog, NextStep, MigrationInv, Abreast, Whole
  <2> QED
    BY <1>3, <2>2, OneOpener DEF ReadLog, MigrationInv
<1>4. ASSUME NEW p \in Openers, ApplyMigration(p), ~Fails(goal[p]) PROVE MigrationInv'
  <2>1. Recorded(userVersion + 1) /\ userVersion' = userVersion + 1
    BY <1>4, NextIsRecorded DEF ApplyMigration, RunScript, Recorded
  <2>2. Whole(userVersion)'
    BY <2>1, RecordedIsWhole DEF MigrationInv
  <2>3. opc' = [opc EXCEPT ![p] = "counting"] /\ UNCHANGED <<stage, readVersion, goal>>
        /\ disturbed' = [q \in Openers |-> disturbed[q] \/ q # p]
    BY <1>4 DEF ApplyMigration
  <2>4. stage[p] = "after"
    BY <1>4 DEF ApplyMigration, MigrationInv, Abreast
  <2>5. Abreast(p)'
    BY <2>1, <2>3, <2>4 DEF MigrationInv, Abreast, Whole
  <2>6. ASSUME NEW q \in Openers, q # p PROVE Abreast(q)'
    <3>1. opc'[q] = opc[q] /\ disturbed'[q]
      BY <2>3, <2>6 DEF MigrationInv
    <3>2. stage'[q] = stage[q] /\ goal'[q] = goal[q] /\ readVersion'[q] = readVersion[q]
      BY <2>3
    <3>3. userVersion \in Nat /\ Abreast(q)
      BY DEF MigrationInv, Whole
    <3> QED
      BY <2>1, <3>1, <3>2, <3>3 DEF Abreast
  <2> QED
    BY <2>2, <2>3, <2>5, <2>6 DEF MigrationInv
<1>5. ASSUME NEW p \in Openers, ApplyMigration(p), Fails(goal[p]) PROVE MigrationInv'
  <2>1. disturbed[p] /\ disturbed' = disturbed /\ UNCHANGED <<userVersion, versionLog, scripts>>
        /\ opc' = [opc EXCEPT ![p] = "refused"] /\ UNCHANGED <<stage, readVersion, goal>>
    BY <1>5, NextIsRecorded DEF ApplyMigration
  <2>2. Abreast(p)'
    BY <2>1 DEF MigrationInv, Abreast
  <2> QED
    BY <2>1, <2>2, OneOpener DEF MigrationInv
<1>6. ASSUME NEW p \in Openers, Leave(p) PROVE MigrationInv'
  <2>1. Abreast(p)'
    BY <1>6 DEF Leave, MigrationInv, Abreast
  <2> QED
    BY <1>6, <2>1, OneOpener DEF Leave, MigrationInv
<1>7. CASE UNCHANGED migrationVars
  BY <1>7 DEF migrationVars, openerVars, MigrationInv, Abreast, Whole
<1> QED
  BY <1>1, <1>2, <1>3, <1>4, <1>5, <1>6, <1>7 DEF MigrationsNext

\* Whoever opens the store together, with whatever code, each script takes
\* effect once and in order, both records of the version agree, and no opener is
\* refused a store that nobody else changed, unless it is newer than its code
\* (MigrationRunner.apply_all, schema_version).
THEOREM SchemaWhole == MigrationSpec => []SchemaIsWhole
<1>1. MigrationInv => SchemaIsWhole
  <2> SUFFICES ASSUME MigrationInv PROVE SchemaIsWhole
    OBVIOUS
  <2>1. scripts \in Seq(Nat) /\ Len(scripts) = userVersion
    BY DEF MigrationInv, Whole
  <2> QED
    BY <2>1 DEF MigrationInv, Whole, Abreast, SchemaIsWhole
<1> QED
  BY <1>1, InitMigration, NextMigration, PTL DEF MigrationSpec

-----------------------------------------------------------------------------
(* Routes: what a judgement lets pass                                       *)

RouteSpec == RoutesInit /\ [][RoutesNext]_routeVars

RouteInv ==
  /\ plan = [t \in Planned |-> plan[t]] /\ taskRoute = [t \in Planned |-> taskRoute[t]]
  /\ ranWith = [t \in Planned |-> ranWith[t]]
  /\ LockedWorkRunsAsAsked

LEMMA InitRoute == RoutesInit => RouteInv
BY DEF RoutesInit, RouteInv, LockedWorkRunsAsAsked, LockedAndRunning

\* Work under a hard lock that is not forbidden ran as it was asked to: its
\* receipt repeats a whole request, tells the route, and what it calls the plan
\* is both of them.
LEMMA LockedReceipt ==
  ASSUME NEW p, NEW repeats, NEW stated, NEW tells, NEW actual,
         p.assurance = "hard_lock",
         ~Forbidden(p, stated, ObservedAssurance(p, repeats, stated, IF tells THEN actual ELSE NoRoute))
  PROVE  Settled(p.requested) => actual = p.requested
<1> DEFINE asked == RequestOf(p)
           told  == IF tells THEN actual ELSE NoRoute
<1>1. Settled(asked) /\ Settled(stated) /\ told = stated
  BY DEF Forbidden, ObservedAssurance, Confirms
<1>2. asked # NoRoute /\ stated # NoRoute
  BY <1>1 DEF Settled, NoRoute
<1>3. ResolutionOf(p, stated) = stated
  BY <1>1 DEF ResolutionOf
<1>4. asked = stated
  BY <1>2, <1>3 DEF Forbidden
<1>5. Settled(p.requested) => asked = p.requested
  BY DEF RequestOf
<1> QED
  BY <1>1, <1>2, <1>4, <1>5

LEMMA NextRoute == RouteInv /\ [RoutesNext]_routeVars => RouteInv'
<1> SUFFICES ASSUME RouteInv, [RoutesNext]_routeVars PROVE RouteInv'
  OBVIOUS
<1> USE DEF RouteInv, LockedWorkRunsAsAsked, LockedAndRunning
<1>1. CASE UNCHANGED <<plan, taskRoute, ranWith, unjudged>>
  BY <1>1 DEF Settled, Respects
<1>2. ASSUME NEW b, NEW t, PlanTask(b, t) PROVE RouteInv'
  BY <1>2 DEF PlanTask, Settled, Respects
<1>3. ASSUME NEW t, NEW route, RunThread(t, route) PROVE RouteInv'
  BY <1>3 DEF RunThread, Settled, Respects
<1>4. ASSUME NEW b, NEW t, StoreReceipt(b, t) PROVE RouteInv'
  BY <1>4 DEF StoreReceipt, Settled, Respects
<1>5. ASSUME NEW b, NEW t \in Planned, NEW repeats, NEW stated, NEW tells,
             JudgeReceipt(b, t, repeats, stated, tells)
      PROVE  RouteInv'
  <2>1. UNCHANGED <<plan, ranWith>> /\ unjudged' = unjudged \ {t}
        /\ taskRoute' = [taskRoute EXCEPT ![t] = taskRoute'[t]]
    BY <1>5 DEF JudgeReceipt
  <2>2. ASSUME taskRoute'[t] = "active", plan[t].assurance = "hard_lock", Settled(plan[t].requested)
        PROVE  Respects(ranWith[t], plan[t].requested)
    BY <1>5, <2>2, LockedReceipt DEF JudgeReceipt, Respects
  <2> QED
    BY <2>1, <2>2 DEF Settled, Respects
<1>6. ASSUME NEW t, RetryBlocked(t) PROVE RouteInv'
  BY <1>6 DEF RetryBlocked, Settled, Respects
<1>7. CASE UNCHANGED routeVars
  BY <1>1, <1>7 DEF routeVars
<1>8. ASSUME NEW b, LookUp(b) \/ WriteBack(b) \/ BrokerRestarts(b) PROVE RouteInv'
  BY <1>1, <1>8 DEF LookUp, WriteBack, BrokerRestarts, planVars
<1>9. ASSUME NEW route, HostChanges(route) PROVE RouteInv'
  BY <1>1, <1>9 DEF HostChanges, planVars
<1> QED
  BY <1>2, <1>3, <1>4, <1>5, <1>6, <1>7, <1>8, <1>9 DEF RoutesNext

\* Judged work under a hard_lock on a whole route runs with the route its task and
\* run asked for, for any tasks, routes and brokers, whatever the host's
\* configuration became and whatever its receipts state (resolve, from_value,
\* assess).
THEOREM LockedRoutes == RouteSpec => []LockedWorkRunsAsAsked
<1>1. RouteInv => LockedWorkRunsAsAsked
  BY DEF RouteInv
<1> QED
  BY <1>1, InitRoute, NextRoute, PTL DEF RouteSpec

-----------------------------------------------------------------------------
(* The journal: numbers are positions, and nobody else inserts meanwhile    *)

JournalSpec == JournalInit /\ [][JournalNext]_journalVars

Signals == [run : Runs, seq : Nat, status : JournalStates]

\* A signal's number is its place in the journal.
Numbered(s) == \A i \in DOMAIN s : s[i].seq = i

\* The signals a writer sees: what is committed, and its own.
Written == log \o draft

SignalInv ==
  /\ log \in Seq(Signals) /\ draft \in Seq(Signals)
  /\ status \in [Runs -> JournalStates] /\ draftStatus \in [Runs -> JournalStates]
  /\ owner = NoWriter => draft = <<>> /\ draftStatus = status /\ draftSilent = silent
  /\ Numbered(Written)
  /\ StatusHasItsSignal
  /\ \A x \in Runs \ draftSilent : SaysLast(Written, x, draftStatus[x])

LEMMA InitSignal == JournalInit => SignalInv
<1> SUFFICES ASSUME JournalInit PROVE SignalInv
  OBVIOUS
<1>1. log = <<>> /\ draft = <<>> /\ Written = <<>> /\ draftStatus = status /\ draftSilent = silent
  BY DEF JournalInit, Written
<1>2. "created" \in JournalStates
  BY DEF JournalStates
<1> QED
  BY <1>1, <1>2 DEF JournalInit, SignalInv, Numbered, StatusHasItsSignal, SaysLast

\* One more signal at the end of the journal says what its run's status is.
LEMMA AppendTells ==
  ASSUME NEW s \in Seq(Signals), NEW e \in Signals
  PROVE  SaysLast(Append(s, e), e.run, e.status)
<1>1. /\ DOMAIN Append(s, e) = 1 .. Len(s) + 1 /\ Len(s) \in Nat
      /\ Append(s, e)[Len(s) + 1] = e
  OBVIOUS
<1> QED
  BY <1>1 DEF SaysLast

\* It says nothing of another run.
LEMMA AppendSays ==
  ASSUME NEW s \in Seq(Signals), NEW e \in Signals, NEW x, NEW told, SaysLast(s, x, told), e.run # x
  PROVE  SaysLast(Append(s, e), x, told)
<1>1. /\ DOMAIN Append(s, e) = 1 .. Len(s) + 1 /\ DOMAIN s = 1 .. Len(s) /\ Len(s) \in Nat
      /\ Append(s, e)[Len(s) + 1] = e
      /\ \A i \in 1 .. Len(s) : Append(s, e)[i] = s[i]
  OBVIOUS
<1>3. CASE \A i \in DOMAIN s : s[i].run # x
  <2>1. \A i \in DOMAIN Append(s, e) : Append(s, e)[i].run # x
    BY <1>1, <1>3
  <2> QED
    BY <1>3, <2>1 DEF SaysLast
<1>4. CASE ~ \A i \in DOMAIN s : s[i].run # x
  <2>1. PICK i \in DOMAIN s : /\ s[i].run = x /\ s[i].status = told
                              /\ \A j \in DOMAIN s : j > i => s[j].run # x
    BY <1>4 DEF SaysLast
  <2>2. \A j \in DOMAIN Append(s, e) : j > i => Append(s, e)[j].run # x
    BY <1>1, <1>4, <2>1
  <2>3. i \in DOMAIN Append(s, e) /\ Append(s, e)[i] = s[i]
    BY <1>1, <2>1
  <2>4. Append(s, e)[i].run = x /\ Append(s, e)[i].status = told
    BY <2>1, <2>3
  <2> QED
    BY <2>2, <2>3, <2>4 DEF SaysLast
<1> QED
  BY <1>3, <1>4

LEMMA AppendKeeps ==
  ASSUME SignalInv, NEW w \in Writers, NEW x \in Runs, NEW to \in JournalStates, Inserts(w, x, to)
  PROVE  SignalInv'
<1> DEFINE e == [run |-> x, seq |-> LastSeq(Written) + 1, status |-> to]
<1>1. Written \in Seq(Signals) /\ Len(Written) \in Nat
  BY DEF SignalInv, Written
<1>2. LastSeq(Written) = Len(Written)
  <2>1. CASE Written = <<>>
    BY <2>1 DEF LastSeq
  <2>2. CASE Written # <<>>
    <3>1. Len(Written) \in DOMAIN Written
      BY <1>1, <2>2
    <3> QED
      BY <2>2, <3>1 DEF LastSeq, Last, SignalInv, Numbered
  <2> QED
    BY <2>1, <2>2
<1>3. e \in Signals /\ e.seq = Len(Written) + 1 /\ e.run = x /\ e.status = to
  BY <1>1, <1>2 DEF Signals
<1>4. draft' = Append(draft, e) /\ draftStatus' = [draftStatus EXCEPT ![x] = to] /\ owner # NoWriter
      /\ draftSilent' = draftSilent \ {x} /\ UNCHANGED <<log, status, owner, silent>>
  BY JournalConstants DEF Inserts, Written
<1> HIDE DEF e
<1>5. Written' = Append(Written, e)
  BY <1>3, <1>4 DEF Written, SignalInv
<1>6. Numbered(Written)'
  BY <1>1, <1>3, <1>5 DEF SignalInv, Numbered
<1>7. ASSUME NEW y \in Runs \ draftSilent' PROVE SaysLast(Written', y, draftStatus'[y])
  <2>1. CASE y = x
    BY <1>1, <1>3, <1>4, <1>5, <2>1, AppendTells DEF SignalInv
  <2>2. CASE y # x
    <3>1. SaysLast(Written, y, draftStatus[y]) /\ draftStatus'[y] = draftStatus[y]
      BY <1>4, <2>2 DEF SignalInv
    <3> QED
      BY <1>1, <1>3, <1>5, <2>2, <3>1, AppendSays
  <2> QED
    BY <2>1, <2>2
<1>8. StatusHasItsSignal'
  BY <1>4 DEF SignalInv, StatusHasItsSignal, SaysLast
<1> QED
  BY <1>3, <1>4, <1>6, <1>7, <1>8 DEF SignalInv

\* The end of a transaction leaves what is committed, with or without the draft.
LEMMA EndKeeps ==
  ASSUME SignalInv, owner' = NoWriter, draft' = <<>>, draftStatus' = status', draftSilent' = silent',
         \/ log' = log /\ status' = status /\ silent' = silent
         \/ log' = Written /\ status' = draftStatus /\ silent' = draftSilent
  PROVE  SignalInv'
<1>1. log' \in Seq(Signals) /\ Numbered(log')
  <2>1. Numbered(log)
    <3>1. \A i \in DOMAIN log : i \in DOMAIN Written /\ Written[i] = log[i]
      BY DEF SignalInv, Written
    <3> QED
      BY <3>1 DEF SignalInv, Numbered
  <2>2. Written \in Seq(Signals)
    BY DEF SignalInv, Written
  <2> QED
    BY <2>1, <2>2 DEF SignalInv
<1>2. Written' = log'
  BY <1>1 DEF Written
<1>3. \A x \in Runs \ silent' : SaysLast(log', x, status'[x])
  BY DEF SignalInv, StatusHasItsSignal
<1>4. StatusHasItsSignal'
  BY <1>3 DEF StatusHasItsSignal, SaysLast
<1>5. \A x \in Runs \ draftSilent' : SaysLast(Written', x, draftStatus'[x])
  BY <1>2, <1>3
<1> QED
  BY <1>1, <1>2, <1>4, <1>5 DEF SignalInv

\* A status set without a signal makes its run a silent one, in the transaction or
\* at once.
LEMMA SetKeeps ==
  ASSUME SignalInv, NEW w \in Writers, NEW x \in Runs, NEW to \in JournalStates, SetStatus(w, x, to)
  PROVE  SignalInv'
<1>1. /\ draftStatus' = [draftStatus EXCEPT ![x] = to] /\ draftSilent' = draftSilent \union {x}
      /\ UNCHANGED <<log, owner, draft>> /\ Written' = Written
  BY DEF SetStatus, Written
<1>2. \A y \in Runs \ draftSilent' : SaysLast(Written', y, draftStatus'[y])
  BY <1>1 DEF SignalInv
<1>3. CASE UNCHANGED <<status, silent>> /\ owner # NoWriter
  <2>1. StatusHasItsSignal'
    BY <1>1, <1>3 DEF SignalInv, StatusHasItsSignal, SaysLast
  <2> QED
    BY <1>1, <1>2, <1>3, <2>1 DEF SignalInv
<1>4. CASE owner = NoWriter /\ status' = draftStatus' /\ silent' = draftSilent'
  <2>1. Written = log
    BY <1>4 DEF SignalInv, Written
  <2>2. \A y \in Runs \ silent' : SaysLast(log', y, status'[y])
    BY <1>1, <1>2, <1>4, <2>1
  <2>3. StatusHasItsSignal'
    BY <2>2 DEF StatusHasItsSignal, SaysLast
  <2> QED
    BY <1>1, <1>2, <1>4, <2>3 DEF SignalInv
<1> QED
  BY <1>3, <1>4, JournalConstants DEF SetStatus

LEMMA NextSignal == SignalInv /\ [JournalNext]_journalVars => SignalInv'
<1> SUFFICES ASSUME SignalInv, [JournalNext]_journalVars PROVE SignalInv'
  OBVIOUS
<1>1. CASE UNCHANGED <<log, status, owner, draft, draftStatus, silent, draftSilent>>
  <2>1. Written' = Written
    BY <1>1 DEF Written
  <2>2. StatusHasItsSignal'
    BY <1>1 DEF SignalInv, StatusHasItsSignal
  <2>3. \A x \in Runs \ draftSilent' : SaysLast(Written', x, draftStatus'[x])
    BY <1>1, <2>1 DEF SignalInv
  <2> QED
    BY <1>1, <2>1, <2>2, <2>3 DEF SignalInv
<1>2. ASSUME NEW w \in Writers, EnterJournal(w) \/ JoinJournal(w) PROVE SignalInv'
  BY <1>1, <1>2 DEF EnterJournal, JoinJournal
<1>3. ASSUME NEW w \in Writers, BeginJournal(w) PROVE SignalInv'
  <2>1. /\ owner = NoWriter /\ owner' = w /\ owner' # NoWriter /\ draft' = <<>>
        /\ draftStatus' = status /\ draftSilent' = silent /\ UNCHANGED <<log, status, silent>>
    BY <1>3, JournalConstants DEF BeginJournal
  <2>2. Written = log /\ Written' = log
    BY <2>1 DEF Written, SignalInv
  <2>3. \A x \in Runs \ silent : SaysLast(log, x, status[x])
    BY DEF SignalInv, StatusHasItsSignal
  <2>4. StatusHasItsSignal' /\ Numbered(Written)'
    BY <2>1, <2>2 DEF SignalInv, StatusHasItsSignal, SaysLast, Numbered
  <2>5. \A x \in Runs \ draftSilent' : SaysLast(Written', x, draftStatus'[x])
    BY <2>1, <2>2, <2>3
  <2> QED
    BY <2>1, <2>4, <2>5 DEF SignalInv
<1>4. ASSUME NEW w \in Writers, AbortJournal(w) PROVE SignalInv'
  BY <1>4, EndKeeps DEF AbortJournal, SignalInv
<1>5. ASSUME NEW w \in Writers, LeaveJournal(w) PROVE SignalInv'
  <2>1. CASE nesting > 1
    BY <1>1, <1>5, <2>1 DEF LeaveJournal
  <2>2. CASE nesting = 1
    BY <1>5, <2>2, EndKeeps DEF LeaveJournal, Written
  <2> QED
    BY <1>5, <2>1, <2>2 DEF LeaveJournal
<1>6. ASSUME NEW r \in Readers, FollowJournal(r) PROVE SignalInv'
  BY <1>1, <1>6 DEF FollowJournal
<1>7. CASE UNCHANGED journalVars
  BY <1>1, <1>7 DEF journalVars
<1> QED
  BY <1>2, <1>3, <1>4, <1>5, <1>6, <1>7, AppendKeeps, SetKeeps DEF JournalNext, AppendSignal, StoreAppend

\* The committed status of every run is what its last committed signal says, unless
\* it was set without one since, for any number of writers, stores, nested
\* transactions and rollbacks, and wherever a status set meanwhile was committed
\* or rolled back (_append_in_transaction, set_status, Store.transaction).
THEOREM StatusTold == JournalSpec => []StatusHasItsSignal
<1>1. SignalInv => StatusHasItsSignal
  BY DEF SignalInv
<1> QED
  BY <1>1, InitSignal, NextSignal, PTL DEF JournalSpec

-----------------------------------------------------------------------------
(* The journal's two locks                                                  *)

\* The condition of a journal is held by a writer that took it before the
\* Store's lock, and whoever did so and is in the transaction holds it still.
LockInv ==
  /\ owner \in Writers \union {NoWriter}
  /\ held = [h \in Handles |-> held[h]]
  /\ \A h \in Handles : held[h] = NoWriter \/ (held[h] \in Writers \ StoreFirst /\ h = Handle[held[h]])
  /\ owner \in Writers \ StoreFirst => held[Handle[owner]] = owner

LEMMA InitLocks == JournalInit => LockInv
BY JournalConstants DEF JournalInit, LockInv

LEMMA NextLocks == LockInv /\ [JournalNext]_journalVars => LockInv'
<1> SUFFICES ASSUME LockInv, [JournalNext]_journalVars PROVE LockInv'
  OBVIOUS
<1> USE JournalConstants DEF LockInv
<1>1. ASSUME NEW w \in Writers, EnterJournal(w) PROVE LockInv'
  <2>1. /\ w \notin StoreFirst /\ owner # w /\ owner' = owner /\ Handle[w] \in Handles
        /\ held' = [held EXCEPT ![Handle[w]] = w] /\ held[Handle[w]] = NoWriter
    BY <1>1 DEF EnterJournal, HandleOf
  <2>2. \A h \in Handles : held'[h] = IF h = Handle[w] THEN w ELSE held[h]
    BY <2>1
  <2>3. owner \in Writers \ StoreFirst => Handle[owner] # Handle[w]
    BY <2>1
  <2> QED
    BY <2>1, <2>2, <2>3
<1>2. ASSUME NEW w \in Writers, BeginJournal(w) PROVE LockInv'
  BY <1>2 DEF BeginJournal, HandleOf
<1>3. ASSUME NEW w \in Writers, owner' = NoWriter, held' = Released(w) PROVE LockInv'
  BY <1>3 DEF Released
<1>4. CASE UNCHANGED <<owner, held>>
  BY <1>4
<1>5. ASSUME NEW w \in Writers, AbortJournal(w) \/ LeaveJournal(w) PROVE LockInv'
  BY <1>3, <1>4, <1>5 DEF AbortJournal, LeaveJournal
<1>6. ASSUME NEW w \in Writers, NEW x, NEW to, \/ AppendSignal(w, x, to) \/ StoreAppend(w, x, to)
                                                \/ SetStatus(w, x, to)
      PROVE  LockInv'
  BY <1>4, <1>6 DEF AppendSignal, StoreAppend, Inserts, SetStatus
<1>7. ASSUME NEW w \in Writers, JoinJournal(w) PROVE LockInv'
  BY <1>4, <1>7 DEF JoinJournal
<1>8. ASSUME NEW r \in Readers, FollowJournal(r) PROVE LockInv'
  BY <1>4, <1>8 DEF FollowJournal
<1>9. CASE UNCHANGED journalVars
  BY <1>4, <1>9 DEF journalVars
<1> QED
  BY <1>1, <1>2, <1>5, <1>6, <1>7, <1>8, <1>9 DEF JournalNext

-----------------------------------------------------------------------------
(* Followers                                                                *)

FollowInv ==
  /\ SignalInv /\ LockInv
  /\ seen \in [Readers -> Seq(Signals)] /\ cursor \in [Readers -> Nat]
  /\ \A r \in Readers : Waits(r) => cursor[r] <= Len(log)
  /\ FollowersMissNothing

LEMMA InitFollow == JournalInit => FollowInv
<1> SUFFICES ASSUME JournalInit PROVE FollowInv
  OBVIOUS
<1>1. log = <<>> /\ cursor = [r \in Readers |-> 0] /\ seen = [r \in Readers |-> <<>>]
  BY DEF JournalInit
<1>2. FollowersMissNothing
  BY <1>1 DEF FollowersMissNothing, IsGivenAll, InOrder, LastSeq, Range
<1> QED
  BY <1>1, <1>2, InitSignal, InitLocks DEF FollowInv

\* A follower that may read sees what is committed and nothing else.
LEMMA SeesCommitted ==
  ASSUME LockInv, NEW r \in Readers, Waits(r), Free(r)
  PROVE  VisibleTo(r) = log
<1>1. SUFFICES ASSUME owner # NoWriter, StoreOf[r] = StoreOf[owner] PROVE FALSE
  BY DEF VisibleTo
<1>2. owner \in Writers /\ owner \notin StoreFirst /\ Handle[r] = Handle[owner]
  BY <1>1 DEF LockInv, Waits
<1>3. held[Handle[r]] = owner
  BY <1>2 DEF LockInv
<1> QED
  BY <1>2, <1>3, JournalConstants DEF Free, HandleOf

\* Where the elements of a concatenation come from.
LEMMA Concatenated ==
  ASSUME NEW s \in Seq(Signals), NEW t \in Seq(Signals), NEW n \in Nat, n = Len(t)
  PROVE  /\ s \o t \in Seq(Signals) /\ DOMAIN (s \o t) = 1 .. Len(s) + n /\ Len(s) \in Nat
         /\ DOMAIN s = 1 .. Len(s) /\ Len(s \o t) = Len(s) + n
         /\ \A i \in 1 .. Len(s) : (s \o t)[i] = s[i]
         /\ \A i \in 1 .. n : (s \o t)[Len(s) + i] = t[i]
OBVIOUS

\* The batch after the cursor, in order and without a gap, continues what the
\* follower was given.
LEMMA BatchContinues ==
  ASSUME FollowInv, NEW r \in Readers, Waits(r), VisibleTo(r) = log,
         NEW n \in Nat, n # 0, NEW batch \in [1 .. n -> After(r)], IsBatch(r, batch)
  PROVE  LET given == seen[r] \o batch IN
         /\ given \in Seq(Signals) /\ InOrder(given)
         /\ LastSeq(batch) \in Nat /\ LastSeq(batch) = LastSeq(given) /\ LastSeq(batch) <= Len(log)
         /\ Range(given) = {s \in Range(log) : s.run = Follows[r] /\ s.seq <= LastSeq(batch)}
<1> DEFINE old == seen[r]
           given == old \o batch
           told(c) == {s \in Range(log) : s.run = Follows[r] /\ s.seq <= c}
<1>1. After(r) = {s \in Range(log) : s.run = Follows[r] /\ s.seq > cursor[r]}
  BY DEF After
<1>2. log \in Seq(Signals) /\ \A i \in DOMAIN log : log[i] \in Signals /\ log[i].seq \in Nat /\ log[i].seq = i
  <2>1. \A i \in DOMAIN log : i \in DOMAIN Written /\ Written[i] = log[i]
    BY DEF FollowInv, SignalInv, Written
  <2>2. \A i \in DOMAIN log : log[i].seq = i
    BY <2>1 DEF FollowInv, SignalInv, Numbered
  <2>3. log \in Seq(Signals) /\ \A i \in DOMAIN log : log[i] \in Signals
    BY DEF FollowInv, SignalInv
  <2>4. \A s \in Signals : s.seq \in Nat
    BY DEF Signals
  <2> QED
    BY <2>2, <2>3, <2>4
<1>3. \A s \in Range(log) : s \in Signals /\ s.seq \in Nat /\ s.seq <= Len(log)
  BY <1>2 DEF Range
<1>4. batch \in Seq(Signals) /\ Len(batch) = n /\ DOMAIN batch = 1 .. n
      /\ \A i \in 1 .. n : batch[i] \in After(r) /\ batch[i].seq \in Nat /\ batch[i].seq <= Len(log)
                           /\ batch[i].seq > cursor[r]
  BY <1>1, <1>3
<1>5. LastSeq(batch) = batch[n].seq
  BY <1>4 DEF LastSeq, Last
<1>6. \A i \in 1 .. n : batch[i].seq <= LastSeq(batch)
  BY <1>4, <1>5 DEF IsBatch, InOrder
<1>7. /\ old \in Seq(Signals) /\ InOrder(old) /\ cursor[r] \in Nat
      /\ \A i \in DOMAIN old : old[i].seq \in Nat /\ old[i].seq <= cursor[r]
      /\ Range(old) = told(cursor[r])
  <2>1. old \in Seq(Signals) /\ InOrder(old) /\ Range(old) = told(cursor[r]) /\ cursor[r] \in Nat
    BY DEF FollowInv, FollowersMissNothing, IsGivenAll
  <2>2. \A i \in DOMAIN old : old[i] \in told(cursor[r])
    BY <2>1 DEF Range
  <2> QED
    BY <1>3, <2>1, <2>2
<1>8. /\ given \in Seq(Signals) /\ DOMAIN given = 1 .. Len(old) + n /\ Len(old) \in Nat
      /\ DOMAIN old = 1 .. Len(old) /\ Len(given) = Len(old) + n
      /\ \A i \in 1 .. Len(old) : given[i] = old[i]
      /\ \A i \in 1 .. n : given[Len(old) + i] = batch[i]
  <2>1. batch \in Seq(Signals) /\ n = Len(batch) /\ n \in Nat
    BY <1>4
  <2>2. old \in Seq(Signals)
    BY <1>7
  <2>3. \A i \in 1 .. n : given[Len(old) + i] = batch[i]
    BY <2>1, <2>2, Concatenated
  <2>4. /\ given \in Seq(Signals) /\ DOMAIN given = 1 .. Len(old) + n /\ Len(old) \in Nat
        /\ DOMAIN old = 1 .. Len(old) /\ Len(given) = Len(old) + n
        /\ \A i \in 1 .. Len(old) : given[i] = old[i]
    BY <2>1, <2>2, Concatenated
  <2> QED
    BY <2>3, <2>4
<1>9. InOrder(given)
  <2> SUFFICES ASSUME NEW i \in DOMAIN given, NEW j \in DOMAIN given, i < j
               PROVE  given[i].seq < given[j].seq
    BY DEF InOrder
  <2>1. CASE j \in 1 .. Len(old)
    BY <1>7, <1>8, <2>1 DEF InOrder
  <2>2. ASSUME j \notin 1 .. Len(old) PROVE j - Len(old) \in 1 .. n /\ given[j] = batch[j - Len(old)]
    BY <1>8, <2>2
  <2>3. CASE i \in 1 .. Len(old) /\ j \notin 1 .. Len(old)
    <3>1. given[i].seq \in Nat /\ given[i].seq <= cursor[r]
      BY <1>7, <1>8, <2>3
    <3>2. given[j].seq \in Nat /\ given[j].seq > cursor[r]
      BY <1>4, <2>2, <2>3
    <3>3. cursor[r] \in Nat
      BY <1>7
    <3>4. \A a, b, c \in Nat : a <= c /\ b > c => a < b
      OBVIOUS
    <3> QED
      BY <3>1, <3>2, <3>3, <3>4
  <2>4. ASSUME i \notin 1 .. Len(old) PROVE i - Len(old) \in 1 .. n /\ given[i] = batch[i - Len(old)]
    BY <1>8, <2>4
  <2>5. CASE i \notin 1 .. Len(old) /\ j \notin 1 .. Len(old)
    <3>1. i - Len(old) < j - Len(old)
      BY <1>8
    <3>2. i - Len(old) \in DOMAIN batch /\ j - Len(old) \in DOMAIN batch
      BY <1>4, <2>2, <2>4, <2>5
    <3>3. batch[i - Len(old)].seq < batch[j - Len(old)].seq
      BY <3>1, <3>2 DEF IsBatch, InOrder
    <3> QED
      BY <2>2, <2>4, <2>5, <3>3
  <2> QED
    BY <1>8, <2>1, <2>3, <2>5
<1>10. LastSeq(given) = LastSeq(batch)
  BY <1>5, <1>8 DEF LastSeq, Last
<1>11. Range(given) = Range(old) \union Range(batch)
  <2>1. ASSUME NEW i \in DOMAIN given PROVE given[i] \in Range(old) \union Range(batch)
    <3>1. CASE i \in 1 .. Len(old)
      BY <1>8, <3>1 DEF Range
    <3>2. CASE i \notin 1 .. Len(old)
      <4>1. i - Len(old) \in 1 .. n /\ given[i] = batch[i - Len(old)]
        BY <1>8, <3>2
      <4> QED
        BY <1>4, <4>1 DEF Range
    <3> QED
      BY <3>1, <3>2
  <2>2. ASSUME NEW i \in DOMAIN old PROVE old[i] \in Range(given)
    BY <1>8, <2>2 DEF Range
  <2>3. ASSUME NEW i \in 1 .. n PROVE batch[i] \in Range(given)
    <3>1. Len(old) + i \in DOMAIN given
      BY <1>8
    <3> QED
      BY <1>8, <3>1 DEF Range
  <2> QED
    BY <1>4, <2>1, <2>2, <2>3 DEF Range
<1>12. Range(given) = told(LastSeq(batch))
  <2>1. Range(batch) \subseteq told(LastSeq(batch))
    BY <1>1, <1>4, <1>6 DEF Range
  <2>2. n \in 1 .. n /\ LastSeq(batch) \in Nat /\ cursor[r] < LastSeq(batch)
    BY <1>4, <1>5
  <2>3. told(cursor[r]) \subseteq told(LastSeq(batch))
    BY <1>3, <1>7, <2>2
  <2>4. ASSUME NEW s \in told(LastSeq(batch)), s \notin told(cursor[r]) PROVE s \in Range(batch)
    <3>1. s \in After(r) /\ ~(s.seq > LastSeq(batch))
      BY <1>1, <1>3, <1>7, <2>2, <2>4
    <3> QED
      BY <3>1 DEF IsBatch
  <2> QED
    BY <1>7, <1>11, <2>1, <2>3, <2>4
<1> QED
  BY <1>4, <1>5, <1>8, <1>9, <1>10, <1>12

LEMMA FollowKeeps ==
  ASSUME FollowInv, SignalInv', LockInv', NEW r \in Readers, FollowJournal(r)
  PROVE  FollowInv'
<1>1. log' = log /\ Free(r)
  BY DEF FollowJournal
<1>2. PICK n \in 1 .. BatchLimit : \E batch \in [1 .. n -> After(r)] :
         IsBatch(r, batch) /\ Receives(r, batch)
  BY DEF FollowJournal
<1>3. PICK batch \in [1 .. n -> After(r)] : IsBatch(r, batch) /\ Receives(r, batch)
  BY <1>2
<1> DEFINE given == seen[r] \o batch
<1>4. n \in Nat /\ n # 0
  BY JournalConstants
<1>5. ASSUME Waits(r)
      PROVE  /\ InOrder(given) /\ LastSeq(batch) = LastSeq(given) /\ LastSeq(batch) <= Len(log)
             /\ Range(given) = {s \in Range(log) : s.run = Follows[r] /\ s.seq <= LastSeq(batch)}
  <2>1. VisibleTo(r) = log
    BY <1>1, <1>5, SeesCommitted DEF FollowInv
  <2> QED
    BY <1>3, <1>4, <1>5, <2>1, BatchContinues
<1>6. seen' = [seen EXCEPT ![r] = given] /\ cursor' = [cursor EXCEPT ![r] = LastSeq(batch)]
  BY <1>3 DEF Receives
<1>7. given \in Seq(Signals) /\ LastSeq(batch) \in Nat
  <2>1. log \o draft \in Seq(Signals) /\ log \in Seq(Signals)
    BY DEF FollowInv, SignalInv
  <2>2. After(r) \subseteq Signals
    BY <2>1 DEF After, VisibleTo, Range
  <2>3. batch \in Seq(Signals) /\ Len(batch) = n /\ batch # <<>> /\ batch[n] \in Signals
    BY <1>4, <2>2
  <2>4. seen[r] \in Seq(Signals)
    BY DEF FollowInv
  <2>5. LastSeq(batch) = batch[n].seq
    BY <2>3 DEF LastSeq, Last
  <2> QED
    BY <2>3, <2>4, <2>5 DEF Signals
<1>8. seen' \in [Readers -> Seq(Signals)] /\ cursor' \in [Readers -> Nat]
  BY <1>6, <1>7 DEF FollowInv
<1> HIDE DEF given
<1>9. ASSUME NEW q \in Readers, Waits(q)
      PROVE  /\ InOrder(seen'[q]) /\ cursor'[q] = LastSeq(seen'[q])
             /\ Range(seen'[q]) = {s \in Range(log') : s.run = Follows[q] /\ s.seq <= cursor'[q]}
             /\ cursor'[q] <= Len(log')
  <2>1. CASE q = r
    BY <1>1, <1>5, <1>6, <1>9, <2>1 DEF FollowInv
  <2>2. CASE q # r
    <3>1. seen'[q] = seen[q] /\ cursor'[q] = cursor[q]
      BY <1>6, <2>2 DEF FollowInv
    <3>2. IsGivenAll(q) /\ cursor[q] <= Len(log)
      BY <1>9 DEF FollowInv, FollowersMissNothing
    <3> QED
      BY <1>1, <3>1, <3>2 DEF IsGivenAll
  <2> QED
    BY <2>1, <2>2
<1>10. FollowersMissNothing'
  BY <1>9 DEF FollowersMissNothing, IsGivenAll, InOrder, LastSeq
<1> QED
  BY <1>8, <1>9, <1>10 DEF FollowInv

\* What is committed later comes after everything a follower has read.
LEMMA CommitKeeps ==
  ASSUME FollowInv, SignalInv', LockInv', log' \in {log, Written}, UNCHANGED <<seen, cursor>>
  PROVE  FollowInv'
<1>1. CASE log' = log
  BY <1>1 DEF FollowInv, FollowersMissNothing, IsGivenAll, InOrder, LastSeq
<1>2. CASE log' = Written
  <2>1. /\ Written \in Seq(Signals) /\ Len(log) \in Nat /\ Len(log) <= Len(Written)
        /\ DOMAIN log = 1 .. Len(log) /\ DOMAIN Written = 1 .. Len(Written)
        /\ \A i \in 1 .. Len(log) : Written[i] = log[i]
        /\ \A i \in DOMAIN Written : Written[i].seq = i
    BY DEF FollowInv, SignalInv, Written, Numbered
  <2>2. ASSUME NEW r \in Readers, Waits(r), NEW s, s.seq <= cursor[r]
        PROVE  s \in Range(log) <=> s \in Range(Written)
    <3>1. cursor[r] \in Nat /\ cursor[r] <= Len(log)
      BY <2>2 DEF FollowInv
    <3>2. ASSUME NEW i \in DOMAIN Written, s = Written[i] PROVE i \in DOMAIN log
      BY <2>1, <2>2, <3>1, <3>2
    <3> QED
      BY <2>1, <3>2 DEF Range
  <2>3. ASSUME NEW r \in Readers, Waits(r)
        PROVE  /\ InOrder(seen'[r]) /\ cursor'[r] = LastSeq(seen'[r])
               /\ Range(seen'[r]) = {s \in Range(log') : s.run = Follows[r] /\ s.seq <= cursor'[r]}
    <3>1. IsGivenAll(r) /\ seen' = seen /\ cursor' = cursor
      BY <2>3 DEF FollowInv, FollowersMissNothing
    <3>2. \A s : s.seq <= cursor[r] => (s \in Range(log) <=> s \in Range(log'))
      BY <1>2, <2>2, <2>3
    <3>3. {s \in Range(log) : s.run = Follows[r] /\ s.seq <= cursor[r]}
          = {s \in Range(log') : s.run = Follows[r] /\ s.seq <= cursor[r]}
      BY <3>2
    <3> QED
      BY <3>1, <3>3 DEF IsGivenAll
  <2>4. ASSUME NEW r \in Readers, Waits(r) PROVE cursor[r] <= Len(log')
    BY <1>2, <2>1, <2>4 DEF FollowInv
  <2>5. FollowersMissNothing'
    BY <2>3 DEF FollowersMissNothing, IsGivenAll, InOrder, LastSeq
  <2> QED
    BY <2>4, <2>5 DEF FollowInv
<1> QED
  BY <1>1, <1>2

LEMMA NextFollow == FollowInv /\ [JournalNext]_journalVars => FollowInv'
<1> SUFFICES ASSUME FollowInv, [JournalNext]_journalVars PROVE FollowInv'
  OBVIOUS
<1>1. SignalInv' /\ LockInv'
  BY NextSignal, NextLocks DEF FollowInv
<1>2. ASSUME NEW r \in Readers, FollowJournal(r) PROVE FollowInv'
  BY <1>1, <1>2, FollowKeeps
<1>3. ASSUME NEW w \in Writers, \/ EnterJournal(w) \/ BeginJournal(w) \/ JoinJournal(w) \/ AbortJournal(w)
                               \/ LeaveJournal(w)
      PROVE  FollowInv'
  <2>1. log' \in {log, Written} /\ UNCHANGED <<seen, cursor>>
    BY <1>3 DEF EnterJournal, BeginJournal, JoinJournal, AbortJournal, LeaveJournal, Written
  <2> QED
    BY <1>1, <2>1, CommitKeeps
<1>4. ASSUME NEW w \in Writers, NEW x \in Runs, NEW to \in JournalStates,
             AppendSignal(w, x, to) \/ StoreAppend(w, x, to) \/ SetStatus(w, x, to)
      PROVE  FollowInv'
  BY <1>1, <1>4, CommitKeeps DEF AppendSignal, StoreAppend, Inserts, SetStatus
<1>5. CASE UNCHANGED journalVars
  BY <1>1, <1>5, CommitKeeps DEF journalVars
<1> QED
  BY <1>2, <1>3, <1>4, <1>5 DEF JournalNext

\* A follower on a connection of its own, or whose journal opens every transaction
\* of its connection, is given each committed signal of its run once, in order and
\* without a gap, although numbers are handed out before the commit and again
\* after a rollback, for any number of writers, stores, followers and signals,
\* whatever the other threads do (follow, _append_in_transaction, append_signal).
THEOREM NothingMissed == JournalSpec => []FollowersMissNothing
<1>1. FollowInv => FollowersMissNothing
  BY DEF FollowInv
<1>2. FollowInv /\ [JournalNext]_journalVars => FollowInv'
  BY NextFollow
<1> QED
  BY <1>1, <1>2, InitFollow, PTL DEF JournalSpec

-----------------------------------------------------------------------------
(* Snapshots: contents and replacement chains.  Both are computed along a    *)
(* chain of rows; what is said of every row of it rests on the fact that a   *)
(* set of numbers has a least one.                                           *)

SnapSpec == SnapInit /\ [][SnapNext]_snapVars

Smaller == {n \in Nat \X Nat : n[1] < n[2]}

\* A set of numbers has a least one.
LEMMA LeastNumber ==
  ASSUME NEW T, T \subseteq Nat, T # {}
  PROVE  \E n \in T : \A m \in T : n <= m
<1>1. OpToRel(<, Nat) = Smaller
  BY Zenon DEF OpToRel, Smaller
<1>2. PICK x \in T : \A y \in T : <<y, x>> \notin Smaller
  BY <1>1, NatLessThanWellFounded, WFMin
<1>3. ASSUME NEW y \in T PROVE x <= y
  <2>1. x \in Nat /\ y \in Nat /\ <<y, x>> \notin Smaller
    BY <1>2
  <2>2. ~(y < x)
    BY <2>1 DEF Smaller
  <2> QED
    BY <2>1, <2>2
<1> QED
  BY <1>3

SnapRow == [base : Nat, delta : Bodies, inputs : SUBSET Markers, refs : SUBSET Nat,
            validity : {"current", "stale", "invalid"}]

\* Rows of which each has an earlier one, or none, as its base.
Chained(rows) == rows \in Seq(SnapRow) /\ \A i \in 1 .. Len(rows) : rows[i].base < i

LEMMA ChainedRows ==
  ASSUME NEW rows, Chained(rows)
  PROVE  /\ Len(rows) \in Nat /\ DOMAIN rows = 1 .. Len(rows)
         /\ \A i \in 1 .. Len(rows) :
              /\ rows[i] \in SnapRow /\ rows[i].base \in Nat /\ rows[i].base < i
              /\ rows[i].delta \in Bodies /\ rows[i].refs \subseteq Nat
<1>1. Len(rows) \in Nat /\ DOMAIN rows = 1 .. Len(rows) /\ \A i \in 1 .. Len(rows) : rows[i] \in SnapRow
  BY DEF Chained
<1>2. \A r \in SnapRow : r.base \in Nat /\ r.delta \in Bodies /\ r.refs \subseteq Nat
  BY DEF SnapRow
<1> QED
  BY <1>1, <1>2 DEF Chained

Filled(rows, n, g) ==
  g = [i \in 0 .. n |-> IF i = 0 THEN <<>> ELSE MergeInto(g[rows[i].base], rows[i].delta)]

\* The contents of the first n rows can be computed.
LEMMA ContentsExist ==
  ASSUME NEW rows, Chained(rows)
  PROVE  \E g : Filled(rows, Len(rows), g)
<1> DEFINE Bad == {n \in 0 .. Len(rows) : ~ \E g : Filled(rows, n, g)}
<1>0. Len(rows) \in Nat /\ \A i \in 1 .. Len(rows) : rows[i].base \in Nat /\ rows[i].base < i
  BY ChainedRows DEF Chained
<1> SUFFICES ASSUME Bad # {} PROVE FALSE
  BY <1>0
<1>1. PICK n \in Bad : \A m \in Bad : n <= m
  <2>1. Bad \subseteq Nat
    BY <1>0
  <2> HIDE DEF Bad
  <2> QED
    BY <2>1, LeastNumber
<1>2. n # 0
  <2>1. Filled(rows, 0, [i \in 0 .. 0 |-> <<>>])
    BY DEF Filled
  <2> QED
    BY <2>1
<1>3. n - 1 \in 0 .. Len(rows) /\ n \in 1 .. Len(rows) /\ n - 1 \notin Bad
  BY <1>0, <1>1, <1>2
<1>4. PICK g : Filled(rows, n - 1, g)
  BY <1>3
<1> DEFINE h == [i \in 0 .. n |-> IF i = n THEN MergeInto(g[rows[n].base], rows[n].delta) ELSE g[i]]
<1>5. ASSUME NEW i \in 0 .. n
      PROVE  h[i] = IF i = 0 THEN <<>> ELSE MergeInto(h[rows[i].base], rows[i].delta)
  <2>1. CASE i = n
    <3>1. rows[n].base \in 0 .. n /\ rows[n].base # n
      BY <1>0, <1>3
    <3> QED
      BY <1>2, <2>1, <3>1
  <2>2. CASE i # n
    <3>1. i \in 0 .. n - 1
      BY <1>3, <2>2
    <3>2. g[i] = IF i = 0 THEN <<>> ELSE MergeInto(g[rows[i].base], rows[i].delta)
      BY <1>4, <3>1 DEF Filled
    <3>3. i # 0 => rows[i].base \in 0 .. n /\ rows[i].base # n
      BY <1>0, <1>3, <3>1
    <3> QED
      BY <2>2, <3>2, <3>3
  <2> QED
    BY <2>1, <2>2
<1>6. Filled(rows, n, h)
  BY <1>5 DEF Filled
<1> QED
  BY <1>1, <1>6

\* reconstruct_content: a row's content is its base's with its delta.
LEMMA ContentStep ==
  ASSUME NEW rows, Chained(rows)
  PROVE  /\ ContentIn(rows, 0) = <<>>
         /\ \A i \in 1 .. Len(rows) : ContentIn(rows, i) = MergeInto(ContentIn(rows, rows[i].base), rows[i].delta)
<1> DEFINE c == CHOOSE g : Filled(rows, Len(rows), g)
<1>1. Filled(rows, Len(rows), c)
  BY ContentsExist
<1>2. \A i : ContentIn(rows, i) = c[i]
  BY DEF ContentIn, Filled
<1> HIDE DEF c
<1>3. Len(rows) \in Nat
  BY DEF Chained
<1>4. \A i \in 0 .. Len(rows) : c[i] = IF i = 0 THEN <<>> ELSE MergeInto(c[rows[i].base], rows[i].delta)
  BY <1>1 DEF Filled
<1> QED
  BY <1>2, <1>3, <1>4

\* The empty body, and merging into it.
LEMMA NothingBelow ==
  /\ <<>> \in Bodies
  /\ \A d \in Bodies : MergeInto(<<>>, d) = d
<1>1. DOMAIN <<>> = {}
  OBVIOUS
<1>2. <<>> \in [{} -> Markers \union {Deleted}]
  BY <1>1
<1>3. \A d \in Bodies : d = [f \in DOMAIN d |-> d[f]]
  BY DEF Bodies
<1>4. ASSUME NEW d \in Bodies PROVE MergeInto(<<>>, d) = d
  BY <1>1, <1>3 DEF MergeInto
<1> QED
  BY <1>2, <1>4 DEF Bodies

\* A merge is a body again.
LEMMA MergedBody ==
  ASSUME NEW b \in Bodies, NEW d \in Bodies
  PROVE  MergeInto(b, d) \in Bodies
<1>1. /\ DOMAIN b \in SUBSET Fields /\ DOMAIN d \in SUBSET Fields
      /\ \A f \in DOMAIN b : b[f] \in Markers \union {Deleted}
      /\ \A f \in DOMAIN d : d[f] \in Markers \union {Deleted}
  BY DEF Bodies
<1> DEFINE gone == {f \in DOMAIN b \intersect DOMAIN d : d[f] = Deleted}
           left == (DOMAIN b \union DOMAIN d) \ gone
<1>2. MergeInto(b, d) \in [left -> Markers \union {Deleted}]
  BY <1>1 DEF MergeInto
<1>3. left \in SUBSET Fields
  BY <1>1
<1> QED
  BY <1>2, <1>3 DEF Bodies

\* Every content is a body.
LEMMA ContentIsBody ==
  ASSUME NEW rows, Chained(rows)
  PROVE  \A i \in 0 .. Len(rows) : ContentIn(rows, i) \in Bodies
<1> DEFINE Bad == {i \in 0 .. Len(rows) : ContentIn(rows, i) \notin Bodies}
<1>0. Len(rows) \in Nat /\ \A i \in 1 .. Len(rows) : rows[i].base \in Nat /\ rows[i].base < i /\ rows[i].delta \in Bodies
  BY ChainedRows DEF Chained
<1> SUFFICES ASSUME Bad # {} PROVE FALSE
  OBVIOUS
<1>1. PICK n \in Bad : \A m \in Bad : n <= m
  <2>1. Bad \subseteq Nat
    BY <1>0
  <2> HIDE DEF Bad
  <2> QED
    BY <2>1, LeastNumber
<1>2. n # 0
  BY ContentStep, NothingBelow
<1>3. n \in 1 .. Len(rows) /\ rows[n].base \in 0 .. Len(rows) /\ rows[n].base \notin Bad
  BY <1>0, <1>1, <1>2
<1>4. ContentIn(rows, rows[n].base) \in Bodies
  BY <1>3
<1>5. MergeInto(ContentIn(rows, rows[n].base), rows[n].delta) \in Bodies
  BY <1>0, <1>3, <1>4, MergedBody
<1> QED
  BY <1>3, <1>5, ContentStep

\* Rows that stay as they are keep their contents.
LEMMA ContentStays ==
  ASSUME NEW rows, NEW more, Chained(rows), Chained(more), Len(rows) <= Len(more),
         \A i \in 1 .. Len(rows) : more[i].base = rows[i].base /\ more[i].delta = rows[i].delta
  PROVE  \A i \in 0 .. Len(rows) : ContentIn(more, i) = ContentIn(rows, i)
<1> DEFINE Bad == {i \in 0 .. Len(rows) : ContentIn(more, i) # ContentIn(rows, i)}
<1>0. /\ Len(rows) \in Nat /\ Len(more) \in Nat
      /\ \A i \in 1 .. Len(rows) : rows[i].base \in Nat /\ rows[i].base < i
  BY ChainedRows DEF Chained
<1> SUFFICES ASSUME Bad # {} PROVE FALSE
  OBVIOUS
<1>1. PICK n \in Bad : \A m \in Bad : n <= m
  <2>1. Bad \subseteq Nat
    BY <1>0
  <2> HIDE DEF Bad
  <2> QED
    BY <2>1, LeastNumber
<1>2. n # 0
  BY ContentStep
<1>3. n \in 1 .. Len(rows) /\ n \in 1 .. Len(more) /\ rows[n].base \in 0 .. Len(rows) /\ rows[n].base \notin Bad
  BY <1>0, <1>1, <1>2
<1>4. ContentIn(more, rows[n].base) = ContentIn(rows, rows[n].base)
  BY <1>3
<1>5. /\ ContentIn(more, n) = MergeInto(ContentIn(more, more[n].base), more[n].delta)
      /\ ContentIn(rows, n) = MergeInto(ContentIn(rows, rows[n].base), rows[n].delta)
  BY <1>3, ContentStep
<1> QED
  BY <1>3, <1>4, <1>5

-----------------------------------------------------------------------------
(* Replacements point upwards, so that following them ends.                  *)

Upward == Len(snaps) \in Nat /\ \A i \in SnapshotIds : heir[i] = 0 \/ heir[i] \in i + 1 .. Len(snaps)

Followed(k, g) ==
  g = [i \in Len(snaps) + 1 - k .. Len(snaps) |-> IF heir[i] = 0 THEN i ELSE g[heir[i]]]

\* The ends of the last k rows' replacements can be computed.
LEMMA TipsExist ==
  ASSUME Upward
  PROVE  \E g : Followed(Len(snaps), g)
<1> DEFINE last == Len(snaps)
           Bad == {k \in 0 .. last : ~ \E g : Followed(k, g)}
<1>0. last \in Nat /\ \A i \in 1 .. last : heir[i] = 0 \/ heir[i] \in i + 1 .. last
  BY DEF Upward, SnapshotIds
<1> SUFFICES ASSUME Bad # {} PROVE FALSE
  BY <1>0
<1>1. PICK k \in Bad : \A m \in Bad : k <= m
  <2>1. Bad \subseteq Nat
    BY <1>0
  <2> HIDE DEF Bad
  <2> QED
    BY <2>1, LeastNumber
<1>2. k # 0
  <2>1. Followed(0, [i \in last + 1 - 0 .. last |-> 0])
    <3>1. last + 1 - 0 .. last = {}
      BY <1>0
    <3> QED
      BY <3>1 DEF Followed
  <2> QED
    BY <2>1
<1> DEFINE n == last + 1 - k
<1>3. /\ k - 1 \in 0 .. last /\ k - 1 \notin Bad
      /\ n \in 1 .. last /\ last + 1 - (k - 1) = n + 1
  BY <1>0, <1>1, <1>2
<1>4. PICK g : g = [i \in n + 1 .. last |-> IF heir[i] = 0 THEN i ELSE g[heir[i]]]
  BY <1>3 DEF Followed
<1> HIDE DEF n
<1> DEFINE h == [i \in n .. last |-> IF i = n THEN (IF heir[n] = 0 THEN n ELSE g[heir[n]]) ELSE g[i]]
<1>5. ASSUME NEW i \in n .. last
      PROVE  h[i] = IF heir[i] = 0 THEN i ELSE h[heir[i]]
  <2>1. heir[i] # 0 => heir[i] \in n .. last /\ heir[i] # n
    BY <1>0, <1>3
  <2>2. CASE i = n
    BY <2>1, <2>2
  <2>3. CASE i # n
    <3>1. i \in n + 1 .. last
      BY <1>0, <1>3, <2>3
    <3>2. g[i] = IF heir[i] = 0 THEN i ELSE g[heir[i]]
      BY <1>4, <3>1
    <3> QED
      BY <2>1, <2>3, <3>2
  <2> QED
    BY <2>2, <2>3
<1>6. Followed(k, h)
  BY <1>5 DEF Followed, n
<1> QED
  BY <1>1, <1>6

\* _resolve_replacement: a row without an heir, or its heir's end.
LEMMA TipStep ==
  ASSUME Upward
  PROVE  \A i \in SnapshotIds : TipOf(i) = IF heir[i] = 0 THEN i ELSE TipOf(heir[i])
<1> DEFINE F(g) == g = [i \in SnapshotIds |-> IF heir[i] = 0 THEN i ELSE g[heir[i]]]
           c == CHOOSE g : F(g)
<1>1. \E g : F(g)
  <2>1. Len(snaps) + 1 - Len(snaps) .. Len(snaps) = SnapshotIds
    BY DEF Upward, SnapshotIds
  <2> QED
    BY <2>1, TipsExist DEF Followed
<1>2. F(c)
  BY <1>1
<1>3. \A i : TipOf(i) = c[i]
  BY DEF TipOf
<1> HIDE DEF c
<1> QED
  BY <1>2, <1>3

\* A content that may take the place of another.
KeepsBody(was, now) ==
  /\ DOMAIN now \subseteq DOMAIN was
  /\ \A f \in DOMAIN now : now[f] = was[f]
  /\ AlwaysKept \intersect DOMAIN was \subseteq DOMAIN now

\* An heir keeps the meaning of what it replaces.
Kept == \A i \in SnapshotIds : heir[i] # 0 => KeepsBody(Content(i), Content(heir[i]))

\* And so does the end of all replacements.
LEMMA TipKeeps ==
  ASSUME Upward, Kept, NEW s \in SnapshotIds
  PROVE  TipOf(s) \in SnapshotIds /\ KeepsBody(Content(s), Content(TipOf(s)))
<1> DEFINE last == Len(snaps)
           Good(i) == TipOf(i) \in SnapshotIds /\ KeepsBody(Content(i), Content(TipOf(i)))
           Bad == {k \in 0 .. last : last - k \in SnapshotIds /\ ~Good(last - k)}
<1>0. last \in Nat /\ SnapshotIds = 1 .. last /\ \A i \in 1 .. last : heir[i] = 0 \/ heir[i] \in i + 1 .. last
  BY DEF Upward, SnapshotIds
<1>1. Bad = {}
  <2> SUFFICES ASSUME Bad # {} PROVE FALSE
    OBVIOUS
  <2>1. PICK k \in Bad : \A m \in Bad : k <= m
    <3>1. Bad \subseteq Nat
      BY <1>0
    <3> HIDE DEF Bad
    <3> QED
      BY <3>1, LeastNumber
  <2> DEFINE i == last - k
             j == heir[i]
  <2>2. i \in 1 .. last /\ ~Good(i) /\ k \in 0 .. last
    BY <1>0, <2>1
  <2>3. CASE j = 0
    <3>1. TipOf(i) = i
      BY <1>0, <2>2, <2>3, TipStep
    <3> QED
      BY <1>0, <2>2, <3>1 DEF KeepsBody
  <2>4. CASE j # 0
    <3>1. j \in i + 1 .. last /\ j \in 1 .. last
      BY <1>0, <2>2, <2>4
    <3>2. last - j \in 0 .. last /\ last - j < k /\ last - (last - j) = j
      BY <1>0, <2>2, <3>1
    <3>3. last - j \notin Bad
      BY <1>0, <2>1, <2>2, <3>2
    <3>4. Good(j)
      BY <1>0, <3>1, <3>2, <3>3
    <3>5. TipOf(i) = TipOf(j)
      BY <1>0, <2>2, <2>4, TipStep
    <3>6. KeepsBody(Content(i), Content(j))
      BY <1>0, <2>2, <2>4 DEF Kept
    <3>7. KeepsBody(Content(i), Content(TipOf(j)))
      BY <3>4, <3>6 DEF KeepsBody
    <3> QED
      BY <2>2, <3>4, <3>5, <3>7
  <2> QED
    BY <2>3, <2>4
<1>2. last - s \in 0 .. last /\ last - (last - s) = s
  BY <1>0
<1> QED
  BY <1>1, <1>2

-----------------------------------------------------------------------------
(* A draft fits the rows it is written beside                                *)

\* What is drafted, or written and not yet named as an heir.
DraftFits(p) ==
  /\ kpc[p] = "insert" =>
       /\ kdraft[p] \in SnapRow /\ krev[p] \in 1 .. MaxSnapshots /\ krev[p] <= Len(snaps) + 1
       /\ kdraft[p].base < krev[p] /\ kdraft[p].refs \subseteq 1 .. krev[p] - 1
       /\ kold[p] # 0 => /\ kold[p] \in SnapshotIds /\ kold[p] < krev[p] /\ kdraft[p].base = 0
                         /\ KeepsBody(Content(kold[p]), kdraft[p].delta)
  /\ kpc[p] \in {"index", "supersede"} =>
       /\ krev[p] \in SnapshotIds
       /\ kold[p] # 0 => /\ kold[p] \in SnapshotIds /\ kold[p] < krev[p]
                         /\ KeepsBody(Content(kold[p]), Content(krev[p]))
  /\ kpc[p] = "supersede" => kold[p] # 0

Calls ==
  /\ kpc = [p \in Kernels |-> kpc[p]]     /\ kdraft = [p \in Kernels |-> kdraft[p]]
  /\ krev = [p \in Kernels |-> krev[p]]   /\ kold = [p \in Kernels |-> kold[p]]
  /\ kmark = [p \in Kernels |-> kmark[p]] /\ ktodo = [p \in Kernels |-> ktodo[p]]
  /\ kknown = [p \in Kernels |-> kknown[p]]

RowsInv ==
  /\ Chained(snaps) /\ Len(snaps) <= MaxSnapshots
  /\ \A i \in SnapshotIds : snaps[i].refs \subseteq 1 .. i - 1
  /\ indexed \subseteq SnapshotIds
  /\ heir = [i \in 1 .. MaxSnapshots |-> heir[i]]
  /\ \A i \in 1 .. MaxSnapshots : i \notin SnapshotIds => heir[i] = 0
  /\ Upward /\ Kept

SnapInv == RowsInv /\ Calls /\ \A p \in Kernels : DraftFits(p)

LEMMA InitSnap == SnapInit => SnapInv
<1> SUFFICES ASSUME SnapInit PROVE SnapInv
  OBVIOUS
<1>1. snaps = <<>> /\ Len(snaps) = 0 /\ SnapshotIds = {}
  BY DEF SnapInit, SnapshotIds
<1>2. MaxSnapshots \in Nat
  BY SnapshotConstants
<1>3. Chained(snaps)
  BY <1>1 DEF Chained
<1>4. RowsInv
  BY <1>1, <1>2, <1>3 DEF RowsInv, Upward, Kept, SnapInit
<1> QED
  BY <1>4 DEF SnapInv, Calls, DraftFits, SnapInit

\* What rows may become: more of them, and less current.
RowsStay ==
  /\ Len(snaps') \in Nat /\ Len(snaps) <= Len(snaps')
  /\ \A i \in SnapshotIds :
       /\ snaps'[i].base = snaps[i].base /\ snaps'[i].delta = snaps[i].delta
       /\ snaps'[i].refs = snaps[i].refs /\ snaps'[i].inputs = snaps[i].inputs
       /\ snaps'[i].validity = "current" => snaps[i].validity = "current"

LEMMA ContentsKept ==
  ASSUME Chained(snaps), Chained(snaps)', RowsStay
  PROVE  \A i \in SnapshotIds : i \in SnapshotIds' /\ Content(i)' = Content(i)
<1>1. Len(snaps) \in Nat /\ Len(snaps') \in Nat /\ SnapshotIds = 1 .. Len(snaps) /\ SnapshotIds' = 1 .. Len(snaps')
  BY ChainedRows DEF RowsStay, SnapshotIds
<1>2. \A i \in 0 .. Len(snaps) : ContentIn(snaps', i) = ContentIn(snaps, i)
  BY <1>1, ContentStays DEF RowsStay, Chained
<1> QED
  BY <1>1, <1>2 DEF Content, RowsStay

\* A row more.
LEMMA RowAdded ==
  ASSUME RowsInv, NEW d \in SnapRow, d.base < Len(snaps) + 1, d.refs \subseteq 1 .. Len(snaps),
         Len(snaps) < MaxSnapshots, snaps' = Append(snaps, d)
  PROVE  /\ RowsStay /\ Chained(snaps)' /\ Len(snaps') = Len(snaps) + 1
         /\ \A i \in SnapshotIds' : snaps'[i].refs \subseteq 1 .. i - 1
         /\ snaps'[Len(snaps) + 1] = d
<1>1. snaps \in Seq(SnapRow) /\ Len(snaps) \in Nat /\ SnapshotIds = 1 .. Len(snaps)
  BY DEF RowsInv, Chained, SnapshotIds
<1>2. /\ snaps' \in Seq(SnapRow) /\ Len(snaps') = Len(snaps) + 1
      /\ snaps'[Len(snaps) + 1] = d
      /\ \A i \in 1 .. Len(snaps) : snaps'[i] = snaps[i]
  BY <1>1
<1>3. \A i \in 1 .. Len(snaps') : i \in 1 .. Len(snaps) \/ i = Len(snaps) + 1
  BY <1>1, <1>2
<1>4. Chained(snaps)'
  BY <1>1, <1>2, <1>3 DEF RowsInv, Chained
<1>5. RowsStay
  BY <1>1, <1>2 DEF RowsStay
<1>6. ASSUME NEW i \in SnapshotIds' PROVE snaps'[i].refs \subseteq 1 .. i - 1
  <2>1. CASE i \in 1 .. Len(snaps)
    BY <1>1, <1>2, <2>1 DEF RowsInv
  <2>2. CASE i = Len(snaps) + 1
    <3>1. i - 1 = Len(snaps)
      BY <1>1, <2>2
    <3> QED
      BY <1>2, <2>2, <3>1
  <2> QED
    BY <1>3, <2>1, <2>2 DEF SnapshotIds
<1> QED
  BY <1>2, <1>4, <1>5, <1>6

\* A row that is not current any more.
LEMMA RowMarked ==
  ASSUME RowsInv, NEW s \in SnapshotIds, NEW v \in {"stale", "invalid"},
         snaps' = [snaps EXCEPT ![s].validity = v]
  PROVE  /\ RowsStay /\ Chained(snaps)' /\ Len(snaps') = Len(snaps)
         /\ \A i \in SnapshotIds' : snaps'[i].refs \subseteq 1 .. i - 1
         /\ snaps'[s].validity = v
<1>1. /\ snaps \in Seq(SnapRow) /\ Len(snaps) \in Nat /\ SnapshotIds = 1 .. Len(snaps)
      /\ snaps[s] \in SnapRow
  BY DEF RowsInv, Chained, SnapshotIds
<1> DEFINE r == [snaps[s] EXCEPT !.validity = v]
<1>2. /\ r \in SnapRow /\ r.base = snaps[s].base /\ r.delta = snaps[s].delta
      /\ r.refs = snaps[s].refs /\ r.inputs = snaps[s].inputs /\ r.validity = v
  BY <1>1 DEF SnapRow
<1>3. snaps' = [snaps EXCEPT ![s] = r]
  BY <1>1
<1> HIDE DEF r
<1>4. /\ snaps' \in Seq(SnapRow) /\ Len(snaps') = Len(snaps)
      /\ snaps'[s] = r /\ \A i \in 1 .. Len(snaps) : i # s => snaps'[i] = snaps[i]
  BY <1>1, <1>2, <1>3
<1>5. Chained(snaps)'
  BY <1>1, <1>2, <1>4 DEF RowsInv, Chained
<1>6. RowsStay
  BY <1>1, <1>2, <1>4 DEF RowsStay
<1>7. \A i \in SnapshotIds' : snaps'[i].refs \subseteq 1 .. i - 1
  BY <1>1, <1>2, <1>4 DEF RowsInv, SnapshotIds
<1> QED
  BY <1>2, <1>4, <1>5, <1>6, <1>7

\* What rows may become keeps what is said of the rows.
LEMMA RowsKept ==
  ASSUME RowsInv, RowsStay, Chained(snaps)', Len(snaps') <= MaxSnapshots,
         \A i \in SnapshotIds' : snaps'[i].refs \subseteq 1 .. i - 1,
         indexed' \subseteq SnapshotIds', heir' = heir
  PROVE  RowsInv'
<1>1. /\ Len(snaps) \in Nat /\ Len(snaps') \in Nat /\ Len(snaps) <= Len(snaps')
      /\ SnapshotIds = 1 .. Len(snaps) /\ SnapshotIds' = 1 .. Len(snaps')
  BY ChainedRows DEF RowsInv, RowsStay, SnapshotIds
<1>2. \A i \in SnapshotIds : i \in SnapshotIds' /\ ContentIn(snaps', i) = ContentIn(snaps, i)
  BY ContentsKept DEF RowsInv, Content
<1>3. \A i \in SnapshotIds' : i \in SnapshotIds \/ heir[i] = 0
  <2>1. MaxSnapshots \in Nat
    BY SnapshotConstants
  <2>2. \A i \in SnapshotIds' : i \in 1 .. MaxSnapshots
    BY <1>1, <2>1
  <2> QED
    BY <2>2 DEF RowsInv
<1>4. Upward'
  <2>1. \A i \in SnapshotIds' : heir[i] = 0 \/ heir[i] \in i + 1 .. Len(snaps')
    <3> SUFFICES ASSUME NEW i \in SnapshotIds', heir[i] # 0 PROVE heir[i] \in i + 1 .. Len(snaps')
      OBVIOUS
    <3>1. i \in SnapshotIds
      BY <1>3
    <3>2. heir[i] \in i + 1 .. Len(snaps)
      BY <3>1 DEF RowsInv, Upward
    <3> QED
      BY <1>1, <3>1, <3>2
  <2> QED
    BY <1>1, <2>1 DEF Upward
<1>5. Kept'
  <2>1. ASSUME NEW i \in SnapshotIds', heir[i] # 0
        PROVE  KeepsBody(ContentIn(snaps', i), ContentIn(snaps', heir[i]))
    <3>1. i \in SnapshotIds /\ heir[i] \in SnapshotIds
      <4>1. i \in SnapshotIds
        BY <1>3, <2>1
      <4>2. heir[i] \in i + 1 .. Len(snaps)
        BY <2>1, <4>1 DEF RowsInv, Upward
      <4> QED
        BY <1>1, <4>1, <4>2
    <3>2. KeepsBody(ContentIn(snaps, i), ContentIn(snaps, heir[i]))
      BY <2>1, <3>1 DEF RowsInv, Kept, Content
    <3> QED
      BY <1>2, <3>1, <3>2
  <2> QED
    BY <2>1 DEF Kept, Content
<1>6. \A i \in 1 .. MaxSnapshots : i \notin SnapshotIds' => heir[i] = 0
  BY <1>2 DEF RowsInv
<1> QED
  BY <1>4, <1>5, <1>6 DEF RowsInv

\* And what is said of a kernel that does not move.
LEMMA OthersFit ==
  ASSUME RowsInv, RowsStay, Chained(snaps)', NEW q \in Kernels, DraftFits(q),
         kpc'[q] = kpc[q], kdraft'[q] = kdraft[q], krev'[q] = krev[q], kold'[q] = kold[q]
  PROVE  DraftFits(q)'
<1>1. /\ Len(snaps) \in Nat /\ Len(snaps') \in Nat /\ Len(snaps) <= Len(snaps')
      /\ SnapshotIds = 1 .. Len(snaps) /\ SnapshotIds' = 1 .. Len(snaps')
  BY ChainedRows DEF RowsInv, RowsStay, SnapshotIds
<1>2. \A i \in SnapshotIds : i \in SnapshotIds' /\ ContentIn(snaps', i) = ContentIn(snaps, i)
  BY ContentsKept DEF RowsInv, Content
<1>3. kpc[q] = "insert" =>
       /\ kdraft[q] \in SnapRow /\ krev[q] \in 1 .. MaxSnapshots /\ krev[q] <= Len(snaps') + 1
       /\ kdraft[q].base < krev[q] /\ kdraft[q].refs \subseteq 1 .. krev[q] - 1
       /\ kold[q] # 0 => /\ kold[q] \in SnapshotIds' /\ kold[q] < krev[q] /\ kdraft[q].base = 0
                         /\ KeepsBody(ContentIn(snaps', kold[q]), kdraft[q].delta)
  <2>1. MaxSnapshots \in Nat
    BY SnapshotConstants
  <2>2. ASSUME kpc[q] = "insert" PROVE krev[q] <= Len(snaps') + 1
    BY <1>1, <2>1, <2>2 DEF DraftFits
  <2> QED
    BY <1>2, <2>2 DEF DraftFits, Content
<1>4. kpc[q] \in {"index", "supersede"} =>
       /\ krev[q] \in SnapshotIds'
       /\ kold[q] # 0 => /\ kold[q] \in SnapshotIds' /\ kold[q] < krev[q]
                         /\ KeepsBody(ContentIn(snaps', kold[q]), ContentIn(snaps', krev[q]))
  BY <1>2 DEF DraftFits, Content
<1> QED
  BY <1>3, <1>4 DEF DraftFits, Content

\* A kernel without a call has nothing to fit.
LEMMA ForgottenFits ==
  ASSUME Calls, NEW p \in Kernels, ForgetCall(p)
  PROVE  /\ Calls' /\ DraftFits(p)' /\ kpc'[p] = "idle" /\ ktodo'[p] = {}
         /\ \A q \in Kernels : q # p =>
              /\ kpc'[q] = kpc[q] /\ kdraft'[q] = kdraft[q] /\ krev'[q] = krev[q] /\ kold'[q] = kold[q]
              /\ kmark'[q] = kmark[q] /\ ktodo'[q] = ktodo[q] /\ kknown'[q] = kknown[q]
<1>1. Calls' /\ kpc'[p] = "idle" /\ ktodo'[p] = {}
  BY DEF Calls, ForgetCall
<1>2. DraftFits(p)'
  BY <1>1 DEF DraftFits
<1>3. \A q \in Kernels : q # p =>
              /\ kpc'[q] = kpc[q] /\ kdraft'[q] = kdraft[q] /\ krev'[q] = krev[q] /\ kold'[q] = kold[q]
              /\ kmark'[q] = kmark[q] /\ ktodo'[q] = ktodo[q] /\ kknown'[q] = kknown[q]
  BY DEF Calls, ForgetCall
<1> QED
  BY <1>1, <1>2, <1>3

\* Rows and drafts that do not move.
LEMMA RowsSame ==
  ASSUME RowsInv, UNCHANGED snaps
  PROVE  /\ RowsStay /\ Chained(snaps)' /\ SnapshotIds' = SnapshotIds
         /\ \A i \in SnapshotIds' : snaps'[i].refs \subseteq 1 .. i - 1
         /\ Len(snaps') <= MaxSnapshots
<1>1. Len(snaps) \in Nat
  BY DEF RowsInv, Chained
<1> QED
  BY <1>1 DEF RowsInv, RowsStay, Chained, SnapshotIds

\* A draft of rows that are there fits.
LEMMA DraftSnap ==
  ASSUME SnapInv, NEW p \in Kernels, NEW base \in 0 .. Len(snaps), NEW delta \in Bodies,
         NEW explicit \in SUBSET Markers, NEW old,
         old # 0 => old \in SnapshotIds /\ base = 0 /\ KeepsBody(Content(old), delta),
         Draft(p, base, delta, explicit, old)
  PROVE  SnapInv'
<1> DEFINE d == [base |-> base, delta |-> delta, validity |-> "current",
                 inputs |-> explicit \union RefsIn(delta),
                 refs |-> IF base = 0 THEN {} ELSE {base}]
<1>1. /\ snaps' = snaps /\ indexed' = indexed /\ heir' = heir /\ Len(snaps) < MaxSnapshots
      /\ kpc' = [kpc EXCEPT ![p] = "insert"] /\ kdraft' = [kdraft EXCEPT ![p] = d]
      /\ krev' = [krev EXCEPT ![p] = Len(snaps) + 1] /\ kold' = [kold EXCEPT ![p] = old]
      /\ kmark' = kmark /\ ktodo' = ktodo /\ kknown' = kknown
  BY DEF Draft
<1>2. Len(snaps) \in Nat /\ SnapshotIds = 1 .. Len(snaps) /\ MaxSnapshots \in Nat
  BY SnapshotConstants DEF SnapInv, RowsInv, Chained, SnapshotIds
<1>3. d \in SnapRow /\ d.refs \subseteq 1 .. Len(snaps) /\ d.base = base /\ d.delta = delta
  <2>1. RefsIn(delta) \subseteq Markers
    BY DEF RefsIn, Bodies
  <2>2. (IF base = 0 THEN {} ELSE {base}) \in SUBSET (1 .. Len(snaps))
    BY <1>2
  <2>3. (IF base = 0 THEN {} ELSE {base}) \in SUBSET Nat /\ base \in Nat
    BY <1>2, <2>2
  <2>4. explicit \union RefsIn(delta) \in SUBSET Markers
    BY <2>1
  <2> QED
    BY <2>2, <2>3, <2>4 DEF SnapRow
<1> HIDE DEF d
<1>4. RowsInv'
  BY <1>1, RowsSame, RowsKept DEF SnapInv, RowsInv
<1>5. Calls'
  BY <1>1 DEF SnapInv, Calls
<1>6. ASSUME NEW q \in Kernels PROVE DraftFits(q)'
  <2>1. CASE q = p
    <3>1. /\ kpc'[p] = "insert" /\ kdraft'[p] = d /\ krev'[p] = Len(snaps) + 1 /\ kold'[p] = old
      BY <1>1 DEF SnapInv, Calls
    <3>2. Len(snaps) + 1 \in 1 .. MaxSnapshots /\ base < Len(snaps) + 1 /\ Len(snaps) + 1 - 1 = Len(snaps)
      BY <1>1, <1>2
    <3>3. ASSUME old # 0 PROVE old \in SnapshotIds /\ old < Len(snaps) + 1
      BY <1>2, <3>3
    <3>4. ASSUME old # 0 PROVE KeepsBody(ContentIn(snaps', old), d.delta) /\ d.base = 0
      BY <1>1, <1>3, <3>4 DEF Content
    <3>5. SnapshotIds' = SnapshotIds
      BY <1>1 DEF SnapshotIds
    <3> QED
      BY <1>1, <1>2, <1>3, <2>1, <3>1, <3>2, <3>3, <3>4, <3>5 DEF DraftFits, Content
  <2>2. CASE q # p
    <3>1. kpc'[q] = kpc[q] /\ kdraft'[q] = kdraft[q] /\ krev'[q] = krev[q] /\ kold'[q] = kold[q]
      BY <1>1, <2>2 DEF SnapInv, Calls
    <3> QED
      BY <1>1, <3>1, RowsSame, OthersFit DEF SnapInv
  <2> QED
    BY <2>1, <2>2
<1> QED
  BY <1>4, <1>5, <1>6 DEF SnapInv

\* Each way to begin a write.
LEMMA DraftsSnap ==
  ASSUME SnapInv, NEW p \in Kernels
  PROVE  /\ BuildSnapshot(p) => SnapInv'
         /\ \A s \in SnapshotIds : DeriveSnapshot(p, s) \/ PromoteSnapshot(p, s)
                                   \/ CompactSnapshot(p, s) \/ RebuildSnapshot(p, s) => SnapInv'
<1>0. /\ Len(snaps) \in Nat /\ SnapshotIds = 1 .. Len(snaps) /\ Chained(snaps) /\ Upward /\ Kept
  BY DEF SnapInv, RowsInv, Chained, SnapshotIds
<1>1. {} \in SUBSET Markers /\ Deltas \subseteq Bodies /\ ExplicitInputs \subseteq SUBSET Markers
  BY SnapshotConstants
<1>2. ASSUME BuildSnapshot(p) PROVE SnapInv'
  <2>1. PICK d \in Deltas, x \in ExplicitInputs : Draft(p, 0, d, x, 0)
    BY <1>2 DEF BuildSnapshot
  <2>2. d \in Bodies /\ x \in SUBSET Markers /\ 0 \in 0 .. Len(snaps)
    BY <1>0, <1>1, <2>1
  <2> QED
    BY <2>1, <2>2, DraftSnap
<1>3. ASSUME NEW s \in SnapshotIds,
             DeriveSnapshot(p, s) \/ PromoteSnapshot(p, s) \/ CompactSnapshot(p, s) \/ RebuildSnapshot(p, s)
      PROVE  SnapInv'
  <2>1. PICK t : t = TipOf(s)
    OBVIOUS
  <2>2. PICK all : all = Content(t)
    OBVIOUS
  <2>3. t \in SnapshotIds /\ t \in 0 .. Len(snaps) /\ t # 0 /\ 0 \in 0 .. Len(snaps)
    BY <1>0, <2>1, TipKeeps
  <2>4. all \in Bodies
    BY <1>0, <2>2, <2>3, ContentIsBody DEF Content
  <2>5. CASE DeriveSnapshot(p, s)
    <3>1. PICK d \in Deltas : Draft(p, t, d, {}, 0)
      BY <2>1, <2>5 DEF DeriveSnapshot
    <3>2. d \in Bodies
      BY <1>1, <3>1
    <3> QED
      BY <1>1, <2>3, <3>1, <3>2, DraftSnap
  <2>6. CASE PromoteSnapshot(p, s)
    <3>1. Draft(p, t, all, {}, 0)
      BY <2>1, <2>2, <2>6 DEF PromoteSnapshot
    <3> QED
      BY <1>1, <2>3, <2>4, <3>1, DraftSnap
  <2>7. CASE CompactSnapshot(p, s)
    <3>1. PICK keep \in {AlwaysKept, Fields} : Draft(p, 0, [f \in DOMAIN all \intersect keep |-> all[f]], {}, t)
      BY <2>1, <2>2, <2>7 DEF CompactSnapshot
    <3>2. PICK body : body = [f \in DOMAIN all \intersect keep |-> all[f]]
      OBVIOUS
    <3>3. DOMAIN all \subseteq Fields /\ \A f \in DOMAIN all : all[f] \in Markers \union {Deleted}
      BY <2>4 DEF Bodies
    <3>4. body \in Bodies
      <4>1. body \in [DOMAIN all \intersect keep -> Markers \union {Deleted}]
        BY <3>2, <3>3
      <4>2. DOMAIN all \intersect keep \in SUBSET Fields
        BY <3>3
      <4> QED
        BY <4>1, <4>2 DEF Bodies
    <3>5. KeepsBody(all, body)
      <4>1. AlwaysKept \intersect DOMAIN all \subseteq keep
        BY <3>3
      <4> QED
        BY <3>2, <4>1 DEF KeepsBody
    <3>6. t # 0 => t \in SnapshotIds /\ 0 = 0 /\ KeepsBody(Content(t), body)
      BY <2>2, <2>3, <3>5
    <3>7. Draft(p, 0, body, {}, t)
      BY <3>1, <3>2
    <3> QED
      BY <1>1, <2>3, <3>4, <3>6, <3>7, DraftSnap
  <2>8. CASE RebuildSnapshot(p, s)
    <3>1. Draft(p, 0, all, {}, t)
      BY <2>1, <2>2, <2>8 DEF RebuildSnapshot
    <3>2. t # 0 => t \in SnapshotIds /\ 0 = 0 /\ KeepsBody(Content(t), all)
      BY <2>2, <2>3 DEF KeepsBody
    <3> QED
      BY <1>1, <2>3, <2>4, <3>1, <3>2, DraftSnap
  <2> QED
    BY <1>3, <2>5, <2>6, <2>7, <2>8
<1> QED
  BY <1>2, <1>3

\* The row: a draft whose revision is still free becomes what it said.
LEMMA InsertSnap ==
  ASSUME SnapInv, NEW p \in Kernels, InsertSnapshot(p)
  PROVE  SnapInv' /\ RowsStay
<1>0. Len(snaps) \in Nat /\ SnapshotIds = 1 .. Len(snaps) /\ MaxSnapshots \in Nat
  BY SnapshotConstants DEF SnapInv, RowsInv, Chained, SnapshotIds
<1>1. CASE krev[p] = Len(snaps) + 1
  <2>1. /\ snaps' = Append(snaps, kdraft[p]) /\ indexed' = indexed /\ heir' = heir
        /\ kpc' = [kpc EXCEPT ![p] = "index"]
        /\ kdraft' = kdraft /\ krev' = krev /\ kold' = kold
        /\ kmark' = kmark /\ ktodo' = ktodo /\ kknown' = kknown
    BY <1>1 DEF InsertSnapshot, memoryOfKernels
  <2>2. PICK d : d = kdraft[p]
    OBVIOUS
  <2>3. /\ d \in SnapRow /\ d.base < Len(snaps) + 1 /\ Len(snaps) < MaxSnapshots
        /\ d.refs \subseteq 1 .. Len(snaps) /\ snaps' = Append(snaps, d)
    <3>1. kpc[p] = "insert" /\ DraftFits(p)
      BY DEF InsertSnapshot, SnapInv
    <3>2. /\ d \in SnapRow /\ d.base < Len(snaps) + 1 /\ Len(snaps) + 1 \in 1 .. MaxSnapshots
          /\ d.refs \subseteq 1 .. Len(snaps) + 1 - 1
      BY <1>1, <2>2, <3>1 DEF DraftFits
    <3>3. Len(snaps) + 1 - 1 = Len(snaps) /\ Len(snaps) < MaxSnapshots
      BY <1>0, <3>2
    <3> QED
      BY <2>1, <2>2, <3>2, <3>3
  <2>4. /\ RowsStay /\ Chained(snaps)' /\ Len(snaps') = Len(snaps) + 1
        /\ \A i \in SnapshotIds' : snaps'[i].refs \subseteq 1 .. i - 1
        /\ snaps'[Len(snaps) + 1] = d
    BY <2>3, RowAdded DEF SnapInv
  <2>5. SnapshotIds' = 1 .. Len(snaps) + 1
    BY <2>4 DEF SnapshotIds
  <2>6. RowsInv'
    <3>1. Len(snaps') <= MaxSnapshots
      BY <1>0, <2>3, <2>4
    <3>2. indexed' \subseteq SnapshotIds'
      BY <1>0, <2>1, <2>5 DEF SnapInv, RowsInv
    <3> QED
      BY <2>1, <2>4, <3>1, <3>2, RowsKept DEF SnapInv
  <2>7. Calls'
    BY <2>1 DEF SnapInv, Calls
  <2>8. ASSUME NEW q \in Kernels PROVE DraftFits(q)'
    <3>1. CASE q = p
      <4>1. kpc'[p] = "index" /\ krev'[p] = Len(snaps) + 1 /\ kold'[p] = kold[p]
        BY <1>1, <2>1 DEF SnapInv, Calls
      <4>2. Len(snaps) + 1 \in SnapshotIds'
        BY <1>0, <2>5
      <4>3. ASSUME kold[p] # 0
            PROVE  /\ kold[p] \in SnapshotIds' /\ kold[p] < Len(snaps) + 1
                   /\ KeepsBody(ContentIn(snaps', kold[p]), ContentIn(snaps', Len(snaps) + 1))
        <5>1. /\ kold[p] \in SnapshotIds /\ kold[p] < Len(snaps) + 1 /\ d.base = 0
              /\ KeepsBody(ContentIn(snaps, kold[p]), d.delta)
          BY <1>1, <2>2, <4>3 DEF InsertSnapshot, SnapInv, DraftFits, Content
        <5>2. kold[p] \in SnapshotIds' /\ ContentIn(snaps', kold[p]) = ContentIn(snaps, kold[p])
          BY <2>4, <5>1, ContentsKept DEF SnapInv, RowsInv, Content
        <5>3. ContentIn(snaps', Len(snaps) + 1) = d.delta
          <6>1. PICK rows : rows = snaps'
            OBVIOUS
          <6>2. Chained(rows) /\ Len(rows) = Len(snaps) + 1 /\ rows[Len(snaps) + 1] = d
            BY <2>4, <6>1 DEF Chained
          <6>3. PICK n : n = Len(snaps) + 1
            OBVIOUS
          <6>4. n \in 1 .. Len(rows) /\ rows[n] = d
            BY <1>0, <6>2, <6>3
          <6>5. ContentIn(rows, n) = MergeInto(<<>>, d.delta)
            BY <5>1, <6>2, <6>4, ContentStep
          <6>6. d.delta \in Bodies
            BY <2>3 DEF SnapRow
          <6> QED
            BY <6>1, <6>3, <6>5, <6>6, NothingBelow
        <5> QED
          BY <5>1, <5>2, <5>3
      <4> QED
        BY <3>1, <4>1, <4>2, <4>3 DEF DraftFits, Content
    <3>2. CASE q # p
      <4>1. kpc'[q] = kpc[q] /\ kdraft'[q] = kdraft[q] /\ krev'[q] = krev[q] /\ kold'[q] = kold[q]
        BY <2>1, <3>2 DEF SnapInv, Calls
      <4> QED
        BY <2>4, <4>1, OthersFit DEF SnapInv
    <3> QED
      BY <3>1, <3>2
  <2> QED
    BY <2>4, <2>6, <2>7, <2>8 DEF SnapInv
<1>2. CASE krev[p] # Len(snaps) + 1
  <2>1. ForgetCall(p) /\ snaps' = snaps /\ indexed' = indexed /\ heir' = heir
    BY <1>2 DEF InsertSnapshot
  <2>2. RowsInv'
    BY <2>1, RowsSame, RowsKept DEF SnapInv, RowsInv
  <2>3. \A q \in Kernels : DraftFits(q)'
    BY <2>1, RowsSame, ForgottenFits, OthersFit DEF SnapInv
  <2> QED
    BY <2>1, <2>2, <2>3, RowsSame, ForgottenFits DEF SnapInv
<1> QED
  BY <1>1, <1>2

\* Its input rows, and the end of the call when nothing is replaced.
LEMMA IndexSnap ==
  ASSUME SnapInv, NEW p \in Kernels, IndexSnapshot(p)
  PROVE  SnapInv'
<1>1. kpc[p] = "index" /\ snaps' = snaps /\ heir' = heir /\ indexed' = indexed \union {krev[p]} /\ krev[p] \in SnapshotIds
  BY DEF IndexSnapshot, SnapInv, DraftFits
<1>2. RowsInv'
  <2>1. indexed' \subseteq SnapshotIds'
    BY <1>1 DEF SnapInv, RowsInv, SnapshotIds
  <2> QED
    BY <1>1, <2>1, RowsSame, RowsKept DEF SnapInv
<1>3. CASE kold[p] = 0
  <2>1. ForgetCall(p)
    BY <1>3 DEF IndexSnapshot
  <2>2. \A q \in Kernels : DraftFits(q)'
    BY <1>1, <2>1, RowsSame, ForgottenFits, OthersFit DEF SnapInv
  <2> QED
    BY <1>2, <2>1, <2>2, ForgottenFits DEF SnapInv
<1>4. CASE kold[p] # 0
  <2>1. /\ kpc' = [kpc EXCEPT ![p] = "supersede"] /\ kdraft' = kdraft /\ krev' = krev /\ kold' = kold
        /\ kmark' = kmark /\ ktodo' = ktodo /\ kknown' = kknown
    BY <1>4 DEF IndexSnapshot, memoryOfKernels
  <2>2. Calls'
    BY <2>1 DEF SnapInv, Calls
  <2>3. ASSUME NEW q \in Kernels PROVE DraftFits(q)'
    <3>1. CASE q = p
      <4>1. kpc'[p] = "supersede" /\ krev'[p] = krev[p] /\ kold'[p] = kold[p] /\ SnapshotIds' = SnapshotIds
        BY <1>1, <2>1 DEF SnapInv, Calls, SnapshotIds
      <4>2. DraftFits(p)
        BY DEF SnapInv
      <4> QED
        BY <1>1, <1>4, <3>1, <4>1, <4>2 DEF DraftFits, Content
    <3>2. CASE q # p
      <4>1. kpc'[q] = kpc[q] /\ kdraft'[q] = kdraft[q] /\ krev'[q] = krev[q] /\ kold'[q] = kold[q]
        BY <2>1, <3>2 DEF SnapInv, Calls
      <4> QED
        BY <1>1, <4>1, RowsSame, OthersFit DEF SnapInv
    <3> QED
      BY <3>1, <3>2
  <2> QED
    BY <1>2, <2>2, <2>3 DEF SnapInv
<1> QED
  BY <1>3, <1>4

\* The replacement is a later row that keeps what it replaces.
LEMMA SupersedeSnap ==
  ASSUME SnapInv, NEW p \in Kernels, SupersedeSnapshot(p)
  PROVE  SnapInv'
<1>1. PICK old, new : old = kold[p] /\ new = krev[p]
  OBVIOUS
<1>2. /\ snaps' = snaps /\ indexed' = indexed /\ heir' = [heir EXCEPT ![old] = new] /\ ForgetCall(p)
      /\ old \in SnapshotIds /\ new \in SnapshotIds /\ old < new
      /\ KeepsBody(Content(old), Content(new))
  BY <1>1 DEF SupersedeSnapshot, SnapInv, DraftFits
<1>3. /\ Len(snaps) \in Nat /\ SnapshotIds = 1 .. Len(snaps) /\ MaxSnapshots \in Nat
      /\ Len(snaps) <= MaxSnapshots /\ SnapshotIds' = SnapshotIds
  BY <1>2, SnapshotConstants DEF SnapInv, RowsInv, Chained, SnapshotIds
<1>4. /\ heir'[old] = new
      /\ \A i \in 1 .. MaxSnapshots : i # old => heir'[i] = heir[i]
      /\ heir' = [i \in 1 .. MaxSnapshots |-> heir'[i]]
      /\ \A i \in SnapshotIds : i \in 1 .. MaxSnapshots
  <2>1. \A i \in SnapshotIds : i \in 1 .. MaxSnapshots
    BY <1>3
  <2>2. heir = [i \in 1 .. MaxSnapshots |-> heir[i]]
    BY DEF SnapInv, RowsInv
  <2> QED
    BY <1>2, <2>1, <2>2
<1>5. Upward'
  <2>1. ASSUME NEW i \in SnapshotIds PROVE heir'[i] = 0 \/ heir'[i] \in i + 1 .. Len(snaps)
    <3>1. CASE i = old
      BY <1>2, <1>3, <1>4, <3>1
    <3>2. CASE i # old
      BY <1>4, <3>2 DEF SnapInv, RowsInv, Upward
    <3> QED
      BY <3>1, <3>2
  <2> QED
    BY <1>2, <1>3, <2>1 DEF Upward
<1>6. Kept'
  <2>1. ASSUME NEW i \in SnapshotIds, heir'[i] # 0
        PROVE  KeepsBody(ContentIn(snaps, i), ContentIn(snaps, heir'[i]))
    <3>1. CASE i = old
      BY <1>2, <1>4, <3>1 DEF Content
    <3>2. CASE i # old
      BY <1>4, <2>1, <3>2 DEF SnapInv, RowsInv, Kept, Content
    <3> QED
      BY <3>1, <3>2
  <2> QED
    BY <1>2, <1>3, <2>1 DEF Kept, Content
<1>7. RowsInv'
  <2>1. \A i \in 1 .. MaxSnapshots : i \notin SnapshotIds => heir'[i] = 0
    BY <1>2, <1>4 DEF SnapInv, RowsInv
  <2>2. /\ Chained(snaps)' /\ \A i \in SnapshotIds' : snaps'[i].refs \subseteq 1 .. i - 1
        /\ indexed' \subseteq SnapshotIds'
    BY <1>2, <1>3, RowsSame DEF SnapInv, RowsInv
  <2> QED
    BY <1>2, <1>3, <1>4, <1>5, <1>6, <2>1, <2>2 DEF RowsInv
<1>8. \A q \in Kernels : DraftFits(q)'
  BY <1>2, RowsSame, ForgottenFits, OthersFit DEF SnapInv
<1> QED
  BY <1>2, <1>7, <1>8, ForgottenFits DEF SnapInv

\* A row that is marked keeps everything else.
LEMMA MarkedSnap ==
  ASSUME SnapInv, NEW s \in SnapshotIds, NEW v \in {"stale", "invalid"},
         snaps' = [snaps EXCEPT ![s].validity = v], indexed' = indexed, heir' = heir,
         kpc' = kpc, kdraft' = kdraft, krev' = krev, kold' = kold, Calls'
  PROVE  SnapInv' /\ RowsStay /\ SnapshotIds' = SnapshotIds /\ snaps'[s].validity = v
<1>1. /\ RowsStay /\ Chained(snaps)' /\ Len(snaps') = Len(snaps)
      /\ \A i \in SnapshotIds' : snaps'[i].refs \subseteq 1 .. i - 1
      /\ snaps'[s].validity = v
  BY RowMarked DEF SnapInv
<1>2. SnapshotIds' = SnapshotIds
  BY <1>1 DEF SnapshotIds
<1>3. RowsInv'
  <2>1. Len(snaps') <= MaxSnapshots /\ indexed' \subseteq SnapshotIds'
    BY <1>1, <1>2 DEF SnapInv, RowsInv
  <2> QED
    BY <1>1, <2>1, RowsKept DEF SnapInv
<1>4. \A q \in Kernels : DraftFits(q)'
  BY <1>1, OthersFit DEF SnapInv
<1> QED
  BY <1>1, <1>2, <1>3, <1>4 DEF SnapInv

LEMMA NextSnap == SnapInv /\ [SnapNext]_snapVars => SnapInv'
<1> SUFFICES ASSUME SnapInv, [SnapNext]_snapVars PROVE SnapInv'
  OBVIOUS
<1>1. CASE UNCHANGED snapVars
  <2>1. /\ snaps' = snaps /\ indexed' = indexed /\ heir' = heir /\ kpc' = kpc /\ kdraft' = kdraft
        /\ krev' = krev /\ kold' = kold /\ kmark' = kmark /\ ktodo' = ktodo /\ kknown' = kknown
    BY <1>1 DEF snapVars, memoryOfKernels
  <2>2. RowsInv' /\ Calls'
    BY <2>1, RowsSame, RowsKept DEF SnapInv, RowsInv, Calls
  <2>3. \A q \in Kernels : DraftFits(q)'
    BY <2>1, RowsSame, OthersFit DEF SnapInv
  <2> QED
    BY <2>2, <2>3 DEF SnapInv
<1>2. ASSUME NEW p \in Kernels,
             \/ BuildSnapshot(p)
             \/ \E s \in SnapshotIds : DeriveSnapshot(p, s) \/ PromoteSnapshot(p, s)
                                       \/ CompactSnapshot(p, s) \/ RebuildSnapshot(p, s)
      PROVE  SnapInv'
  BY <1>2, DraftsSnap
<1>3. ASSUME NEW p \in Kernels, InsertSnapshot(p) \/ IndexSnapshot(p) \/ SupersedeSnapshot(p)
      PROVE  SnapInv'
  BY <1>3, InsertSnap, IndexSnap, SupersedeSnap
<1>4. ASSUME NEW p \in Kernels, NEW s \in SnapshotIds, MarkStale(p, s)
      PROVE  SnapInv'
  <2>1. Calls'
    BY <1>4 DEF MarkStale, SnapInv, Calls
  <2> QED
    BY <1>4, <2>1, MarkedSnap DEF MarkStale
<1>5. ASSUME NEW p \in Kernels, NEW s \in SnapshotIds, InvalidateRecord(p, s)
      PROVE  SnapInv'
  <2>1. PICK t : t = TipOf(s)
    OBVIOUS
  <2>2. t \in SnapshotIds
    BY <2>1, TipKeeps DEF SnapInv, RowsInv
  <2>3. /\ snaps' = [snaps EXCEPT ![t].validity = "invalid"] /\ indexed' = indexed /\ heir' = heir
        /\ kpc' = kpc /\ kdraft' = kdraft /\ krev' = krev /\ kold' = kold
        /\ kmark' = kmark /\ ktodo' = ktodo /\ kknown' = kknown
    BY <1>5, <2>1 DEF InvalidateRecord, memoryOfKernels
  <2>4. Calls'
    BY <2>3 DEF SnapInv, Calls
  <2> QED
    BY <2>2, <2>3, <2>4, MarkedSnap
<1>6. ASSUME NEW p \in Kernels, NEW m \in Markers, InvalidateMarker(p, m)
      PROVE  SnapInv'
  <2>1. /\ snaps' = snaps /\ indexed' = indexed /\ heir' = heir /\ kpc' = [kpc EXCEPT ![p] = "mark"]
        /\ kdraft' = kdraft /\ krev' = krev /\ kold' = kold
    BY <1>6 DEF InvalidateMarker
  <2>2. RowsInv'
    BY <2>1, RowsSame, RowsKept DEF SnapInv, RowsInv
  <2>3. Calls'
    BY <1>6 DEF InvalidateMarker, SnapInv, Calls
  <2>4. ASSUME NEW q \in Kernels PROVE DraftFits(q)'
    <3>1. CASE q = p
      <4>1. kpc'[p] = "mark"
        BY <2>1 DEF SnapInv, Calls
      <4> QED
        BY <3>1, <4>1 DEF DraftFits
    <3>2. CASE q # p
      <4>1. kpc'[q] = kpc[q]
        BY <2>1, <3>2 DEF SnapInv, Calls
      <4> QED
        BY <2>1, <4>1, RowsSame, OthersFit DEF SnapInv
    <3> QED
      BY <3>1, <3>2
  <2> QED
    BY <2>2, <2>3, <2>4 DEF SnapInv
<1>7. ASSUME NEW p \in Kernels, InvalidateEnd(p) \/ CrashKernel(p)
      PROVE  SnapInv'
  <2>1. ForgetCall(p) /\ snaps' = snaps /\ indexed' = indexed /\ heir' = heir
    BY <1>7 DEF InvalidateEnd, CrashKernel
  <2>2. RowsInv'
    BY <2>1, RowsSame, RowsKept DEF SnapInv, RowsInv
  <2>3. \A q \in Kernels : DraftFits(q)'
    BY <2>1, RowsSame, ForgottenFits, OthersFit DEF SnapInv
  <2> QED
    BY <2>1, <2>2, <2>3, ForgottenFits DEF SnapInv
<1> QED
  BY <1>1, <1>2, <1>3, <1>4, <1>5, <1>6, <1>7 DEF SnapNext

\* A reference keeps its meaning however often what it names is compacted or
\* rebuilt, by whichever kernels and in whatever order (context.py).
THEOREM ReferencesStay == SnapSpec => []ReferencesKeepMeaning
<1>1. SnapInv => ReferencesKeepMeaning
  <2> SUFFICES ASSUME SnapInv, NEW s \in SnapshotIds
               PROVE  (heir[s] = 0 \/ heir[s] > s) /\ KeepsBody(Content(s), Content(TipOf(s)))
    BY DEF ReferencesKeepMeaning, KeepsBody
  <2>1. heir[s] = 0 \/ heir[s] > s
    BY DEF SnapInv, RowsInv, Upward, SnapshotIds
  <2> QED
    BY <2>1, TipKeeps DEF SnapInv, RowsInv
<1> QED
  BY <1>1, InitSnap, NextSnap, PTL DEF SnapSpec

-----------------------------------------------------------------------------
(* An invalidation reaches what it could see                                 *)

\* Rows that are added, and rows that are marked, lengthen no lineage.
LEMMA TraceShrinks ==
  ASSUME RowsInv, RowsStay, NEW m, NEW s \in SnapshotIds, s \in TracesTo(m)'
  PROVE  s \in TracesTo(m)
<1>0. /\ Len(snaps) \in Nat /\ Len(snaps') \in Nat /\ Len(snaps) <= Len(snaps')
      /\ SnapshotIds = 1 .. Len(snaps) /\ SnapshotIds' = 1 .. Len(snaps')
  BY DEF RowsInv, RowsStay, Chained, SnapshotIds
<1>1. ASSUME NEW those \in SUBSET SnapshotIds, \A t \in SnapshotIds : MadeFrom(t, m, those) => t \in those
      PROVE  s \in those
  <2> DEFINE all == those \union (SnapshotIds' \ SnapshotIds)
  <2>1. all \in SUBSET SnapshotIds'
    <3>1. SnapshotIds \subseteq SnapshotIds'
      BY <1>0
    <3>2. those \subseteq SnapshotIds
      OBVIOUS
    <3> QED
      BY <3>1, <3>2
  <2>2. ASSUME NEW t \in SnapshotIds', m \in snaps'[t].inputs \/ snaps'[t].refs \intersect all # {}
        PROVE  t \in all
    <3>1. CASE t \notin SnapshotIds
      BY <3>1
    <3>2. CASE t \in SnapshotIds
      <4>1. snaps'[t].inputs = snaps[t].inputs /\ snaps'[t].refs = snaps[t].refs
        BY <3>2 DEF RowsStay
      <4>2. snaps[t].refs \subseteq SnapshotIds
        <5>1. snaps[t].refs \subseteq 1 .. t - 1
          BY <3>2 DEF RowsInv
        <5>2. 1 .. t - 1 \subseteq SnapshotIds
          BY <1>0, <3>2
        <5> QED
          BY <5>1, <5>2
      <4>3. snaps'[t].refs \intersect all = snaps[t].refs \intersect those
        BY <4>1, <4>2
      <4>4. MadeFrom(t, m, those)
        BY <2>2, <4>1, <4>3 DEF MadeFrom
      <4> QED
        BY <1>1, <3>2, <4>4
    <3> QED
      BY <3>1, <3>2
  <2>3. s \in all
    <3> HIDE DEF all
    <3> QED
      BY <2>1, <2>2 DEF TracesTo, MadeFrom
  <2> QED
    BY <2>3
<1> QED
  BY <1>1 DEF TracesTo

\* invalidate: the input rows first, then the bodies of what is current.
LEMMA Reaches ==
  ASSUME NEW m, indexed \subseteq SnapshotIds, NEW s \in TracesTo(m), s \in Visible, Current(s)
  PROVE  s \in Affected(m)
<1>0. s \in SnapshotIds
  BY DEF TracesTo
<1>1. ASSUME NEW found \in SUBSET SnapshotIds, Dependents(m) \subseteq found,
             \A t \in SnapshotIds : Current(t) /\ MadeFrom(t, m, found) => t \in found
      PROVE  s \in found
  <2> DEFINE told == {t \in SnapshotIds : (InRows(t) => t \in Dependents(m)) /\ (t \in Visible => t \in found)}
  <2>1. ASSUME NEW t \in SnapshotIds, MadeFrom(t, m, told), InRows(t)
        PROVE  t \in Dependents(m)
    <3>1. PICK lineage \in SUBSET indexed :
            t \in lineage /\ \A u \in lineage : snaps[u].refs \subseteq lineage
      BY <2>1 DEF InRows
    <3>2. ASSUME NEW more \in SUBSET SnapshotIds, \A u \in indexed : MadeFrom(u, m, more) => u \in more
          PROVE  t \in more
      <4>1. t \in indexed
        BY <3>1
      <4>2. CASE m \in snaps[t].inputs
        BY <3>2, <4>1, <4>2 DEF MadeFrom
      <4>3. CASE m \notin snaps[t].inputs
        <5>1. PICK u : u \in snaps[t].refs /\ u \in told
          BY <2>1, <4>3 DEF MadeFrom
        <5>2. InRows(u)
          BY <3>1, <5>1 DEF InRows
        <5>3. u \in Dependents(m)
          BY <5>1, <5>2
        <5>4. u \in more
          BY <3>2, <5>3 DEF Dependents
        <5>5. MadeFrom(t, m, more)
          BY <5>1, <5>4 DEF MadeFrom
        <5> QED
          BY <3>2, <4>1, <5>5
      <4> QED
        BY <4>2, <4>3
    <3> QED
      BY <3>2 DEF Dependents
  <2>2. ASSUME NEW t \in SnapshotIds, MadeFrom(t, m, told), t \in Visible
        PROVE  t \in found
    <3>1. PICK lineage \in SUBSET SnapshotIds :
            /\ t \in lineage
            /\ \A u \in lineage : InRows(u) \/ (Current(u) /\ snaps[u].refs \subseteq lineage)
      BY <2>2 DEF Visible
    <3>2. CASE InRows(t)
      BY <1>1, <2>1, <2>2, <3>2
    <3>3. CASE Current(t) /\ snaps[t].refs \subseteq lineage /\ m \in snaps[t].inputs
      BY <1>1, <3>3 DEF MadeFrom
    <3>4. CASE Current(t) /\ snaps[t].refs \subseteq lineage /\ m \notin snaps[t].inputs
      <4>1. PICK u : u \in snaps[t].refs /\ u \in told
        BY <2>2, <3>4 DEF MadeFrom
      <4>2. u \in Visible
        BY <3>1, <3>4, <4>1 DEF Visible
      <4>3. u \in found
        BY <4>1, <4>2
      <4>4. MadeFrom(t, m, found)
        BY <4>1, <4>3 DEF MadeFrom
      <4> QED
        BY <1>1, <3>4, <4>4
    <3> QED
      BY <3>1, <3>2, <3>3, <3>4
  <2>3. told \in SUBSET SnapshotIds /\ \A t \in SnapshotIds : MadeFrom(t, m, told) => t \in told
    BY <2>1, <2>2
  <2>4. s \in told
    <3> HIDE DEF told
    <3> QED
      BY <2>3 DEF TracesTo
  <2> QED
    BY <2>4
<1> QED
  BY <1>0, <1>1 DEF Affected

\* What an invalidation could see and is still current, it has yet to mark.
Marking(p) ==
  kpc[p] = "mark" =>
    /\ kknown[p] \subseteq SnapshotIds
    /\ \A s \in TracesTo(kmark[p]) \intersect kknown[p] : Current(s) => s \in ktodo[p]

ReachInv == SnapInv /\ \A p \in Kernels : Marking(p)

\* An invalidation is not disturbed by what becomes of the rows.
LEMMA MarkingKept ==
  ASSUME RowsInv, RowsStay, NEW q \in Kernels, Marking(q),
         kpc'[q] = "mark" => kpc[q] = "mark",
         kmark'[q] = kmark[q], kknown'[q] = kknown[q],
         \A s \in SnapshotIds : s \in ktodo[q] => s \in ktodo'[q] \/ snaps'[s].validity # "current"
  PROVE  Marking(q)'
<1> SUFFICES ASSUME kpc'[q] = "mark" PROVE Marking(q)'
  BY DEF Marking
<1>1. kpc[q] = "mark" /\ kknown[q] \subseteq SnapshotIds
  BY DEF Marking
<1>2. SnapshotIds \subseteq SnapshotIds'
  BY DEF RowsInv, RowsStay, Chained, SnapshotIds
<1>3. PICK m : m = kmark[q]
  OBVIOUS
<1>4. ASSUME NEW s, s \in TracesTo(m)', s \in kknown[q], snaps'[s].validity = "current"
      PROVE  s \in ktodo'[q]
  <2>1. s \in SnapshotIds
    BY <1>1, <1>4
  <2>2. s \in TracesTo(m)
    BY <1>4, <2>1, TraceShrinks
  <2>3. snaps[s].validity = "current"
    BY <1>4, <2>1 DEF RowsStay
  <2>4. s \in ktodo[q]
    BY <1>1, <1>3, <1>4, <2>2, <2>3 DEF Marking, Current
  <2> QED
    BY <1>4, <2>1, <2>4
<1>5. kmark'[q] = m
  BY <1>3
<1>6. \A s \in TracesTo(kmark[q])' : s \in TracesTo(m)'
  BY <1>5 DEF TracesTo, MadeFrom
<1> QED
  BY <1>1, <1>2, <1>4, <1>6 DEF Marking, Current

LEMMA NextReach == ReachInv /\ [SnapNext]_snapVars => ReachInv'
<1> SUFFICES ASSUME ReachInv, [SnapNext]_snapVars PROVE ReachInv'
  OBVIOUS
<1>0. SnapInv /\ RowsInv /\ Calls /\ SnapInv'
  BY NextSnap DEF ReachInv, SnapInv
<1>1. ASSUME snaps' = snaps, NEW q \in Kernels, kpc'[q] = "mark" => kpc[q] = "mark",
             kmark'[q] = kmark[q], kknown'[q] = kknown[q], ktodo'[q] = ktodo[q]
      PROVE  Marking(q)'
  BY <1>0, <1>1, RowsSame, MarkingKept DEF ReachInv
<1>2. CASE UNCHANGED snapVars
  BY <1>0, <1>1, <1>2 DEF snapVars, memoryOfKernels, ReachInv
<1>3. ASSUME NEW p \in Kernels, ForgetCall(p), snaps' = snaps
      PROVE  ReachInv'
  <2>1. Marking(p)'
    BY <1>0, <1>3, ForgottenFits DEF Marking
  <2>2. ASSUME NEW q \in Kernels, q # p PROVE Marking(q)'
    BY <1>0, <1>1, <1>3, <2>2, ForgottenFits
  <2> QED
    BY <1>0, <2>1, <2>2 DEF ReachInv
<1>4. ASSUME NEW p \in Kernels, NEW base, NEW delta, NEW explicit, NEW old, Draft(p, base, delta, explicit, old)
      PROVE  ReachInv'
  <2>1. ASSUME NEW q \in Kernels PROVE Marking(q)'
    <3>1. /\ snaps' = snaps /\ kmark' = kmark /\ kknown' = kknown /\ ktodo' = ktodo
          /\ kpc' = [kpc EXCEPT ![p] = "insert"]
      BY <1>4 DEF Draft
    <3>2. kpc'[q] = "mark" => kpc[q] = "mark"
      BY <1>0, <3>1 DEF Calls
    <3> QED
      BY <1>1, <3>1, <3>2
  <2> QED
    BY <1>0, <2>1 DEF ReachInv
<1>5. ASSUME NEW p \in Kernels, BuildSnapshot(p) PROVE ReachInv'
  BY <1>4, <1>5 DEF BuildSnapshot
<1>6. ASSUME NEW p \in Kernels, NEW s \in SnapshotIds,
             DeriveSnapshot(p, s) \/ PromoteSnapshot(p, s) \/ CompactSnapshot(p, s) \/ RebuildSnapshot(p, s)
      PROVE  ReachInv'
  <2>1. PICK tip : tip = TipOf(s)
    OBVIOUS
  <2>2. PICK all : all = Content(tip)
    OBVIOUS
  <2>3. \E base, delta, explicit, old : Draft(p, base, delta, explicit, old)
    <3>1. CASE DeriveSnapshot(p, s)
      BY <2>1, <3>1 DEF DeriveSnapshot
    <3>2. CASE PromoteSnapshot(p, s)
      BY <2>1, <2>2, <3>2 DEF PromoteSnapshot
    <3>3. CASE CompactSnapshot(p, s)
      <4>1. PICK keep \in {AlwaysKept, Fields} : Draft(p, 0, [f \in DOMAIN all \intersect keep |-> all[f]], {}, tip)
        BY <2>1, <2>2, <3>3 DEF CompactSnapshot
      <4> QED
        BY <4>1
    <3>4. CASE RebuildSnapshot(p, s)
      BY <2>1, <2>2, <3>4 DEF RebuildSnapshot
    <3> QED
      BY <1>6, <3>1, <3>2, <3>3, <3>4
  <2> QED
    BY <1>4, <2>3
<1>7. ASSUME NEW p \in Kernels, InsertSnapshot(p) PROVE ReachInv'
  <2>1. CASE krev[p] = Len(snaps) + 1
    <3>1. RowsStay /\ kpc' = [kpc EXCEPT ![p] = "index"] /\ kmark' = kmark /\ kknown' = kknown /\ ktodo' = ktodo
      BY <1>0, <1>7, <2>1, InsertSnap DEF InsertSnapshot, memoryOfKernels
    <3>2. ASSUME NEW q \in Kernels PROVE Marking(q)'
      <4>1. kpc'[q] = "mark" => kpc[q] = "mark"
        BY <1>0, <3>1 DEF Calls
      <4> QED
        BY <1>0, <3>1, <4>1, MarkingKept DEF ReachInv
    <3> QED
      BY <1>0, <3>2 DEF ReachInv
  <2>2. CASE krev[p] # Len(snaps) + 1
    BY <1>3, <1>7, <2>2 DEF InsertSnapshot
  <2> QED
    BY <2>1, <2>2
<1>8. ASSUME NEW p \in Kernels, IndexSnapshot(p) PROVE ReachInv'
  <2>1. CASE kold[p] = 0
    BY <1>3, <1>8, <2>1 DEF IndexSnapshot
  <2>2. CASE kold[p] # 0
    <3>1. /\ snaps' = snaps /\ kpc' = [kpc EXCEPT ![p] = "supersede"]
          /\ kmark' = kmark /\ kknown' = kknown /\ ktodo' = ktodo
      BY <1>8, <2>2 DEF IndexSnapshot, memoryOfKernels
    <3>2. ASSUME NEW q \in Kernels PROVE Marking(q)'
      <4>1. kpc'[q] = "mark" => kpc[q] = "mark"
        BY <1>0, <3>1 DEF Calls
      <4> QED
        BY <1>1, <3>1, <4>1
    <3> QED
      BY <1>0, <3>2 DEF ReachInv
  <2> QED
    BY <2>1, <2>2
<1>9. ASSUME NEW p \in Kernels, SupersedeSnapshot(p) \/ InvalidateEnd(p) \/ CrashKernel(p)
      PROVE  ReachInv'
  BY <1>3, <1>9 DEF SupersedeSnapshot, InvalidateEnd, CrashKernel
<1>10. ASSUME NEW p \in Kernels, NEW m \in Markers, InvalidateMarker(p, m) PROVE ReachInv'
  <2>1. snaps' = snaps /\ indexed' = indexed
    BY <1>10 DEF InvalidateMarker
  <2>2. ASSUME NEW q \in Kernels PROVE Marking(q)'
    <3>1. CASE q = p
      <4>1. kmark'[p] = m /\ kknown'[p] = Visible /\ ktodo'[p] = Affected(m)
        BY <1>0, <1>10 DEF InvalidateMarker, Calls
      <4>2. Visible \subseteq SnapshotIds /\ SnapshotIds' = SnapshotIds
        BY <2>1 DEF Visible, SnapshotIds
      <4>3. ASSUME NEW s, s \in TracesTo(kmark[p])', s \in Visible, snaps'[s].validity = "current"
            PROVE  s \in Affected(m)
        <5>1. s \in TracesTo(m)
          BY <2>1, <4>1, <4>3 DEF TracesTo, MadeFrom, SnapshotIds
        <5>2. Current(s)
          BY <2>1, <4>3 DEF Current
        <5> QED
          BY <1>0, <4>3, <5>1, <5>2, Reaches DEF RowsInv
      <4> QED
        BY <3>1, <4>1, <4>2, <4>3 DEF Marking, Current
    <3>2. CASE q # p
      <4>1. /\ kpc'[q] = kpc[q] /\ kmark'[q] = kmark[q]
            /\ kknown'[q] = kknown[q] /\ ktodo'[q] = ktodo[q]
        BY <1>0, <1>10, <3>2 DEF InvalidateMarker, Calls
      <4> QED
        BY <1>1, <2>1, <4>1
    <3> QED
      BY <3>1, <3>2
  <2> QED
    BY <1>0, <2>2 DEF ReachInv
<1>11. ASSUME NEW p \in Kernels, NEW s \in SnapshotIds, MarkStale(p, s) PROVE ReachInv'
  <2>1. /\ snaps' = [snaps EXCEPT ![s].validity = "stale"]
        /\ ktodo' = [ktodo EXCEPT ![p] = @ \ {s}]
        /\ kpc' = kpc /\ kmark' = kmark /\ kknown' = kknown
    BY <1>11 DEF MarkStale
  <2>2. RowsStay /\ snaps'[s].validity = "stale"
    BY <1>0, <2>1, RowMarked
  <2>3. ASSUME NEW q \in Kernels PROVE Marking(q)'
    <3>1. \A t \in SnapshotIds : t \in ktodo[q] => t \in ktodo'[q] \/ snaps'[t].validity # "current"
      <4>1. \A t \in ktodo[q] : t \in ktodo'[q] \/ t = s
        BY <1>0, <2>1 DEF Calls
      <4> QED
        BY <2>2, <4>1
    <3> QED
      BY <1>0, <2>1, <2>2, <3>1, MarkingKept DEF ReachInv
  <2> QED
    BY <1>0, <2>3 DEF ReachInv
<1>12. ASSUME NEW p \in Kernels, NEW s \in SnapshotIds, InvalidateRecord(p, s) PROVE ReachInv'
  <2>1. PICK t : t = TipOf(s)
    OBVIOUS
  <2>2. t \in SnapshotIds
    BY <1>0, <2>1, TipKeeps DEF RowsInv
  <2>3. /\ snaps' = [snaps EXCEPT ![t].validity = "invalid"]
        /\ kpc' = kpc /\ kmark' = kmark /\ kknown' = kknown /\ ktodo' = ktodo
    BY <1>12, <2>1 DEF InvalidateRecord, memoryOfKernels
  <2>4. RowsStay
    BY <1>0, <2>2, <2>3, RowMarked
  <2>5. \A q \in Kernels : Marking(q)'
    BY <1>0, <2>3, <2>4, MarkingKept DEF ReachInv
  <2> QED
    BY <1>0, <2>5 DEF ReachInv
<1> QED
  BY <1>2, <1>5, <1>6, <1>7, <1>8, <1>9, <1>10, <1>11, <1>12 DEF SnapNext

\* When an invalidation returns, what it could see of the marker's descendants
\* is not current any more, whoever wrote in between (ContextKernel.invalidate).
THEOREM InvalidationDone == SnapSpec => []InvalidationReaches
<1>1. SnapInit => ReachInv
  BY InitSnap DEF ReachInv, Marking, SnapInit
<1>2. ReachInv => InvalidationReaches
  BY DEF ReachInv, Marking, InvalidationReaches
<1> QED
  BY <1>1, <1>2, NextReach, PTL DEF SnapSpec
=============================================================================
