------------------------------ MODULE Journal ------------------------------
(***************************************************************************)
(* The signal journal: writers append signals, with a run status if they   *)
(* like, inside the store's one write transaction; followers poll for what *)
(* is after their cursor.  A sequence number is given out when the row is  *)
(* inserted, long before the transaction commits, and is given out again   *)
(* when it rolls back, so a cursor is only safe because nobody else can    *)
(* insert meanwhile and nobody reads what is not committed.                *)
(*                                                                         *)
(* Two locks are involved: the Store's, for a whole outer transaction, and *)
(* the one of the SignalJournal object, held while it opens a transaction, *)
(* announces a signal, sets a status or reads.  Appending by the Store      *)
(* itself takes its own lock alone.                                        *)
(***************************************************************************)
EXTENDS Naturals, Sequences, SequencesExt

CONSTANTS
  Runs,         \* runs in the database
  Writers,      \* threads that append
  Readers,      \* followers, each of one run
  Follows,      \* Follows[r]: the run r follows
  Handles,      \* SignalJournal objects
  Handle,       \* Handle[t]: the one thread t uses
  StoreOf,      \* StoreOf[t]: its Store, and so its connection
  StoreFirst,   \* writers that open Store.transaction and append inside it
  Overrides,    \* writers that pass allow_transition=False
  BatchLimit,   \* the limit of one read
  MaxSignals,   \* bound: signals committed
  MaxNesting,   \* bound: nested transactions
  NoWriter      \* a model value

JournalStates == {"created", "active", "paused", "blocked", "completed",
                  "cancelled", "aborted"}

\* _ALLOWED_RUN_TRANSITIONS
StatusAfter(s) ==
  CASE s = "created"             -> {"active"}
    [] s = "active"              -> {"paused", "blocked", "completed", "cancelled", "aborted"}
    [] s \in {"paused", "blocked"} -> {"active", "completed", "cancelled", "aborted"}
    [] OTHER                     -> {}

ASSUME JournalConstants ==
  /\ Follows \in [Readers -> Runs] /\ Readers \intersect Writers = {}
  /\ Handle \in [Writers \union Readers -> Handles] /\ DOMAIN StoreOf = Writers \union Readers
  /\ \A t, u \in Writers \union Readers : Handle[t] = Handle[u] => StoreOf[t] = StoreOf[u]
  /\ StoreFirst \subseteq Writers /\ Overrides \subseteq Writers
  /\ BatchLimit \in Nat \ {0} /\ MaxSignals \in Nat /\ MaxNesting \in Nat
  /\ NoWriter \notin Writers

VARIABLES
  log,          \* committed signals, in order: [run, seq, status]
  status,       \* status[x]: status of run x, committed
  owner,        \* the thread in a transaction, or NoWriter
  nesting,      \* its Store._depth
  held,         \* held[h]: the writer in the condition of journal h, or NoWriter
  draft,        \* signals it inserted
  draftStatus,  \* run statuses as it sees them
  cursor,       \* cursor[r]: where follower r stands
  seen,         \* seen[r]: what follower r was given
  silent,       \* history: runs whose status changed without a signal since their last one
  draftSilent   \* the same as the open transaction sees it

journalVars ==
  <<log, status, owner, nesting, held, draft, draftStatus, cursor, seen, silent, draftSilent>>

JournalInit ==
  /\ log = <<>> /\ status = [x \in Runs |-> "created"]
  /\ owner = NoWriter /\ nesting = 0 /\ held = [h \in Handles |-> NoWriter]
  /\ draft = <<>> /\ draftStatus = status
  /\ cursor = [r \in Readers |-> 0] /\ seen = [r \in Readers |-> <<>>]
  /\ silent = {} /\ draftSilent = {}

LastSeq(s) == IF s = <<>> THEN 0 ELSE Last(s).seq

HandleOf(t) == Handle[t]

Free(t) == held[HandleOf(t)] \in {NoWriter, t}

\* SignalJournal.transaction and append take the journal's own lock first.
EnterJournal(w) ==
  /\ w \notin StoreFirst /\ owner # w /\ held[HandleOf(w)] = NoWriter
  /\ held' = [held EXCEPT ![HandleOf(w)] = w]
  /\ UNCHANGED <<log, status, owner, nesting, draft, draftStatus, cursor, seen, silent, draftSilent>>

\* Store.transaction: the lock and BEGIN IMMEDIATE keep everybody else out.
\* SignalJournal.transaction opens one, or joins the one its thread is in.
BeginJournal(w) ==
  /\ owner = NoWriter /\ (w \in StoreFirst \/ held[HandleOf(w)] = w)
  /\ owner' = w /\ nesting' = 1
  /\ draft' = <<>> /\ draftStatus' = status /\ draftSilent' = silent
  /\ UNCHANGED <<log, status, held, cursor, seen, silent>>

JoinJournal(w) ==
  /\ owner = w /\ nesting < MaxNesting
  /\ nesting' = nesting + 1
  /\ UNCHANGED <<log, status, owner, held, draft, draftStatus, cursor, seen, silent, draftSilent>>

\* The statuses w may give the run x.
Allowed(w, x) ==
  IF w \in Overrides THEN JournalStates ELSE {draftStatus[x]} \union StatusAfter(draftStatus[x])

\* The status first, then the row with the next number.
Inserts(w, x, to) ==
  /\ owner = w /\ Len(log) + Len(draft) < MaxSignals
  /\ to \in Allowed(w, x)
  /\ draftStatus' = [draftStatus EXCEPT ![x] = to] /\ draftSilent' = draftSilent \ {x}
  /\ draft' = Append(draft, [run |-> x, seq |-> LastSeq(log \o draft) + 1, status |-> to])
  /\ UNCHANGED <<log, status, owner, nesting, held, cursor, seen, silent>>

\* SignalJournal.append: whoever waits on this journal is told.
AppendSignal(w, x, to) == Free(w) /\ Inserts(w, x, to)

\* Store.append_signal, and update_run_status with a signal type: nobody is told.
StoreAppend(w, x, to) == Inserts(w, x, to)

\* set_status, and update_run_status without a signal type.  The journal's does not
\* take the Store's lock: outside a transaction it commits at once, and on the
\* connection of another thread's transaction it becomes part of that one.
SetStatus(w, x, to) ==
  /\ to \in Allowed(w, x) \ {draftStatus[x]}
  /\ draftStatus' = [draftStatus EXCEPT ![x] = to] /\ draftSilent' = draftSilent \union {x}
  /\ \/ /\ owner = w \/ (Free(w) /\ owner # NoWriter /\ StoreOf[owner] = StoreOf[w])
        /\ UNCHANGED <<status, silent>>
     \/ /\ owner = NoWriter /\ Free(w)
        /\ status' = draftStatus' /\ silent' = draftSilent'
  /\ UNCHANGED <<log, owner, nesting, held, draft, cursor, seen>>

Released(w) == [h \in Handles |-> IF held[h] = w THEN NoWriter ELSE held[h]]

\* A transition the table refuses, an unknown run, a signal type or a payload
\* that is not valid, a crash: nothing of the outermost transaction stays.
AbortJournal(w) ==
  /\ owner = w /\ held' = Released(w)
  /\ owner' = NoWriter /\ nesting' = 0
  /\ draft' = <<>> /\ draftStatus' = status /\ draftSilent' = silent
  /\ UNCHANGED <<log, status, cursor, seen, silent>>

\* Mutant: leaving an inner transaction commits what is there so far.
LeaveCommits(w) ==
  /\ owner = w
  /\ nesting' = nesting - 1
  /\ owner' = IF nesting = 1 THEN NoWriter ELSE owner
  /\ held' = IF nesting = 1 THEN Released(w) ELSE held
  /\ log' = log \o draft
  /\ status' = IF nesting = 1 THEN draftStatus ELSE status
  /\ silent' = IF nesting = 1 THEN draftSilent ELSE silent
  /\ draft' = <<>>
  /\ UNCHANGED <<draftStatus, draftSilent, cursor, seen>>

LeaveJournal(w) ==
  /\ owner = w
  /\ nesting' = nesting - 1
  /\ \/ /\ nesting > 1
        /\ UNCHANGED <<log, status, owner, held, draft, silent>>
     \/ /\ nesting = 1
        /\ owner' = NoWriter /\ held' = Released(w)
        /\ log' = log \o draft /\ status' = draftStatus /\ silent' = draftSilent
        /\ draft' = <<>>
  /\ UNCHANGED <<draftStatus, draftSilent, cursor, seen>>

\* The rows a reader's connection shows: those of an open transaction too when
\* it is the writer's own connection.
VisibleTo(r) ==
  IF owner # NoWriter /\ StoreOf[r] = StoreOf[owner] THEN log \o draft ELSE log

After(r) ==
  {s \in Range(VisibleTo(r)) : s.run = Follows[r] /\ s.seq > cursor[r]}

InOrder(s) == \A i, j \in DOMAIN s : i < j => s[i].seq < s[j].seq

\* read: SELECT in sequence order, and at most BatchLimit rows.
IsBatch(r, batch) ==
  /\ InOrder(batch)
  /\ \A s \in After(r) \ Range(batch) : Len(batch) = BatchLimit /\ s.seq > LastSeq(batch)

Receives(r, batch) ==
  /\ seen' = [seen EXCEPT ![r] = @ \o batch]
  /\ cursor' = [cursor EXCEPT ![r] = LastSeq(batch)]

\* Mutant: the read does not wait for the journal's lock.
FollowUnlocked(r) ==
  /\ \E n \in 1 .. BatchLimit : \E batch \in [1 .. n -> After(r)] :
       IsBatch(r, batch) /\ Receives(r, batch)
  /\ UNCHANGED <<log, status, owner, nesting, held, draft, draftStatus, silent, draftSilent>>

\* follow: the batch and the cursor of its last signal.
FollowJournal(r) ==
  /\ Free(r)
  /\ \E n \in 1 .. BatchLimit : \E batch \in [1 .. n -> After(r)] :
       IsBatch(r, batch) /\ Receives(r, batch)
  /\ UNCHANGED <<log, status, owner, nesting, held, draft, draftStatus, silent, draftSilent>>

JournalNext ==
  \/ \E w \in Writers : \/ EnterJournal(w) \/ BeginJournal(w) \/ JoinJournal(w) \/ AbortJournal(w)
                        \/ LeaveJournal(w)
                        \/ \E x \in Runs, to \in JournalStates :
                             AppendSignal(w, x, to) \/ StoreAppend(w, x, to) \/ SetStatus(w, x, to)
  \/ \E r \in Readers : FollowJournal(r)

-----------------------------------------------------------------------------

JournalTypes ==
  /\ \A i \in DOMAIN log : log[i].run \in Runs /\ log[i].status \in JournalStates
  /\ status \in [Runs -> JournalStates] /\ draftStatus \in [Runs -> JournalStates]
  /\ owner \in Writers \union {NoWriter} /\ nesting \in 0 .. MaxNesting
  /\ held \in [Handles -> Writers \union {NoWriter}] /\ cursor \in [Readers -> Nat]
  /\ silent \subseteq Runs /\ draftSilent \subseteq Runs

\* r was given each committed signal of its run up to its cursor, once, in order.
IsGivenAll(r) ==
  /\ InOrder(seen[r]) /\ cursor[r] = LastSeq(seen[r])
  /\ Range(seen[r]) = {s \in Range(log) : s.run = Follows[r] /\ s.seq <= cursor[r]}

\* Every writer on r's connection lets r's own journal open its transactions.
Waits(r) ==
  \A w \in Writers : StoreOf[w] = StoreOf[r] => w \notin StoreFirst /\ Handle[w] = Handle[r]

\* A follower on a connection of its own, or whose journal opens all transactions
\* of its connection, is given each committed signal of its run once and in order,
\* with no gap, although numbers are handed out before the commit and again after
\* a rollback, and although statuses are set on any connection meanwhile.
FollowersMissNothing == \A r \in Readers : Waits(r) => IsGivenAll(r)

\* What follow says of every follower, "yielding each new signal once"
\* (journal.py:643), and so of one on the connection of a writer that opens the
\* Store's transaction first, as Store.append_signal does: no committed signal is
\* behind its cursor without having been given to it.
NoSignalIsSkipped ==
  \A r \in Readers : \A s \in Range(log) :
    s.run = Follows[r] /\ s.seq <= cursor[r] => s \in Range(seen[r])

\* A thread in the transaction may append to its journal: the journal's holder is
\* not one that waits for this transaction ("makes the default single connection
\* safe for concurrent journal appenders", store.py:87-89).
NobodyIsStuck ==
  \A w \in Writers : held[HandleOf(w)] = w /\ owner # w =>
    owner = NoWriter \/ HandleOf(owner) # HandleOf(w)

\* What the signals in s say last of the run x.
SaysLast(s, x, told) ==
  IF \A i \in DOMAIN s : s[i].run # x THEN told = "created"
  ELSE \E i \in DOMAIN s : /\ s[i].run = x /\ s[i].status = told
                           /\ \A j \in DOMAIN s : j > i => s[j].run # x

\* A run's committed status is the one its last committed signal came with, unless
\* it was set without a signal since then: "every state change must have its
\* corresponding signal in the same transaction" (contracts.py:1541) is kept by
\* whatever appends one, and not by set_status.
StatusHasItsSignal == \A x \in Runs \ silent : SaysLast(log, x, status[x])

=============================================================================
