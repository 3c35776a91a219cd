------------------------------ MODULE Evidence ------------------------------
(***************************************************************************)
(* How a task's completed handoff is believed: a collector runs the        *)
(* commands of the contract, keeps their output as artifacts, reads the    *)
(* worktree and makes a bundle; the scheduler accepts the handoff only     *)
(* with a bundle it can verify again.                                      *)
(*                                                                         *)
(* Nothing locks the worktree.  Each git command is a read of its own, the *)
(* adapter establishes the workspace's identity twice, and the worker may  *)
(* edit, commit or reset in between.  A tree is the set of files in which  *)
(* it differs from the base commit's tree.                                 *)
(***************************************************************************)
EXTENDS CheckTrust, Sequences

CONSTANTS
  Files, Owned, Protected, \* paths, the task's own, and the protected ones
  BaseChanges,  \* the paths that the base commit itself changed
  Domains,      \* what a task may have been planned from
  Settings,     \* how a collector is set up: [adapter, base (is it in the scope), projectless]
  Outputs,      \* what a command may print
  Silent,       \* it printed nothing
  MaxCommits, MaxEdits, MaxBundles \* bounds: commits, edits of the files, bundles

VARIABLES
  contract,   \* [conditions, specs] of the task
  setting,    \* of the collector
  commits,    \* [parent, tree] of each commit; the first is the base
  head,       \* the commit that is checked out
  working,    \* the tree of the working files
  edits,      \* how often the working files were edited
  stored,     \* artifacts: the kind each output was put with, or NoKind
  payload,    \* "ok", "torn" or "absent": the file that holds it
  job,        \* the collector's local state
  bundles,    \* the bundles it made
  accepted,   \* the bundle with which the task was completed, if any
  ran         \* history: the commands that ran

worktree == <<commits, head, working, edits>>
artifacts == <<stored, payload>>
evidenceVars == <<contract, setting, worktree, artifacts, job, bundles, accepted, ran>>

NoKind == "nothing"
NotCollecting == [pc |-> "idle", todo |-> {}, writing |-> <<>>, receipt |-> {}, receipts |-> {},
                  head |-> 0, claimed |-> {}, tip |-> 0, quiet |-> TRUE]

EvidenceInit ==
  /\ \E d \in Domains : contract = [conditions |-> d.conditions, specs |-> Plan(d)]
  /\ setting \in Settings
  /\ commits = <<[parent |-> 0, tree |-> {}]>> /\ head = 1 /\ working = {} /\ edits = 0
  /\ stored = [o \in Outputs |-> NoKind] /\ payload = [o \in Outputs |-> "absent"]
  /\ job = NotCollecting /\ bundles = {} /\ accepted = {} /\ ran = {}

Changed(s, t) == (s \ t) \union (t \ s)
TreeOf(c) == commits[c].tree

-----------------------------------------------------------------------------
(* The worker, at any time *)

Disturbs == job' = [job EXCEPT !.quiet = FALSE] /\ UNCHANGED <<contract, setting, bundles, accepted, ran>>

Edit(f) ==
  /\ edits < MaxEdits /\ edits' = edits + 1 /\ working' = Changed(working, {f})
  /\ Disturbs /\ UNCHANGED <<commits, head, artifacts>>
CommitWork ==
  /\ setting.adapter = "git" /\ Len(commits) < MaxCommits /\ working # TreeOf(head)
  /\ commits' = Append(commits, [parent |-> head, tree |-> working])
  /\ head' = Len(commits) + 1
  /\ Disturbs /\ UNCHANGED <<working, edits, artifacts>>
Reset(c) ==
  /\ setting.adapter = "git" /\ c # head /\ head' = c /\ working' = TreeOf(c)
  /\ Disturbs /\ UNCHANGED <<commits, edits, artifacts>>
\* The artifact directory is not the database's: a file of it may go.
LosePayload(o) ==
  /\ payload[o] = "ok" /\ payload' = [payload EXCEPT ![o] = "absent"]
  /\ Disturbs /\ UNCHANGED <<worktree, stored>>

-----------------------------------------------------------------------------
(* The commands of the contract *)

Commands == {s \in contract.specs : s.kind = "command"}
Collects == UNCHANGED <<contract, setting, worktree, accepted>>

StartCollecting ==
  /\ job.pc = "idle" /\ Cardinality(bundles) < MaxBundles /\ accepted = {}
  /\ job' = [NotCollecting EXCEPT !.pc = "checks", !.todo = Commands]
  /\ Collects /\ UNCHANGED <<artifacts, bundles, ran>>

Receipt(spec, status) == [id |-> spec.id, status |-> status, satisfies |-> spec.satisfies, refs |-> {}]

\* CheckRunner.run of a command that may not run.
HoldBack(spec) ==
  /\ job.pc = "checks" /\ Evaluate(spec) # "trusted"
  /\ job' = [job EXCEPT !.todo = @ \ {spec},
                        !.receipts = @ \union {Receipt(spec, Evaluate(spec))}]
  /\ Collects /\ UNCHANGED <<artifacts, bundles, ran>>

\* CheckRunner.run of any other; what it printed is still to be stored.
RunCheck(spec, status, out, err) ==
  /\ job.pc = "checks" /\ Evaluate(spec) = "trusted"
  /\ job' = [job EXCEPT !.pc = "storing", !.todo = @ \ {spec}, !.receipt = Receipt(spec, status),
                        !.writing = SelectSeq(<<<<out, "check-log">>, <<err, "tool-log">>>>,
                                              LAMBDA w : w[1] # Silent)]
  /\ ran' = ran \union {spec}
  /\ Collects /\ UNCHANGED <<artifacts, bundles>>

\* ArtifactStore.put: the row is immutable and its kind is part of it, and a
\* file that is there must hold the same bytes; a conflict makes the check an
\* error.  The process may die between the row and the file, or in the file.
Conflicts(o, kind) == stored[o] \notin {NoKind, kind} \/ payload[o] = "torn"
PutArtifact(o, kind) ==
  /\ stored' = [stored EXCEPT ![o] = IF @ = NoKind THEN kind ELSE @]
  /\ IF Conflicts(o, kind)
     THEN /\ job' = [job EXCEPT !.writing = <<>>, !.receipt.status = "error", !.receipt.refs = {}]
          /\ UNCHANGED payload
     ELSE \/ /\ job' = [job EXCEPT !.writing = Tail(@), !.receipt.refs = @ \union {o}]
             /\ payload' = [payload EXCEPT ![o] = "ok"]
          \/ /\ job' = NotCollecting /\ payload[o] = "absent"
             /\ payload' \in {payload, [payload EXCEPT ![o] = "torn"]}
StoreOutput ==
  /\ job.pc = "storing" /\ job.writing # <<>> /\ PutArtifact(Head(job.writing)[1], Head(job.writing)[2])
  /\ Collects /\ UNCHANGED <<bundles, ran>>
CheckDone ==
  /\ job.pc = "storing" /\ job.writing = <<>>
  /\ job' = [job EXCEPT !.pc = "checks", !.receipts = @ \union {job.receipt}, !.receipt = {}]
  /\ Collects /\ UNCHANGED <<artifacts, bundles, ran>>

-----------------------------------------------------------------------------
(* The worktree *)

\* _commit_paths of the commit c since the base, or since its own parent.
PathsOf(c) ==
  IF c = 1 THEN BaseChanges
  ELSE IF setting.base THEN Changed(TreeOf(1), TreeOf(c))
  ELSE Changed(TreeOf(commits[c].parent), TreeOf(c))
StatusPaths == Changed(TreeOf(head), working)

\* GitWorktreeAdapter.identity claims what was committed, FileSystemAdapter's
\* what differs from its baseline.
ClaimedPaths == IF setting.adapter = "git" THEN PathsOf(job.head) ELSE working

Reads(from, to) ==
  /\ job.pc = from
  /\ IF from = "checks" THEN job.todo = {} /\ setting.adapter # "none" ELSE TRUE
  /\ Collects /\ UNCHANGED <<artifacts, bundles, ran>>
ReadHead == Reads("checks", "claims") /\ job' = [job EXCEPT !.pc = "claims", !.head = head]
ClaimPaths == Reads("claims", "again") /\ job' = [job EXCEPT !.pc = "again", !.claimed = ClaimedPaths]
ReadHeadAgain == Reads("again", "status") /\ job' = [job EXCEPT !.pc = "status", !.tip = head]

\* A plausible slip: the working files are compared in any case.
ActualStatus == StatusPaths
\* verify_changed_paths: with a base in the scope the commits are compared with
\* the claim, without one the working files are.
ActualPaths ==
  IF setting.adapter = "filesystem" THEN working
  ELSE IF setting.base THEN Changed(TreeOf(1), TreeOf(job.tip))
  ELSE StatusPaths
\* A plausible slip: the claim is believed.
ClaimBelieved ==
  ActualPaths \subseteq Owned /\ (ActualPaths \union StatusPaths) \intersect Protected = {}
ClaimHolds ==
  /\ job.claimed = ActualPaths /\ ActualPaths \subseteq Owned
  /\ (ActualPaths \union StatusPaths) \intersect Protected = {}

-----------------------------------------------------------------------------
(* The bundle *)

Observed(workspaceValid) ==
  {Receipt(s, IF s.kind = "workspace" /\ ~workspaceValid THEN "failed" ELSE "pass") :
     s \in {t \in contract.specs : t.kind \in {"artifact", "workspace"}}}

Passes(receipt) == receipt.status = "pass"
\* A plausible slip: a condition is met when nothing speaks against it.
NotContradicted(condition, receipts) ==
  \A r \in receipts : condition \in r.satisfies => Passes(r)
Satisfied(condition, receipts) ==
  LET matching == {r \in receipts : condition \in r.satisfies}
  IN matching # {} /\ \A r \in matching : Passes(r)

AsksSomebody ==
  \/ \A s \in contract.specs : s.kind \notin Automatable
  \/ \E s \in contract.specs : s.kind = "human" \/ (s.kind = "command" /\ s.state # "trusted")

\* EvidenceCollector.collect, the rest.
Bundle(workspaceValid) ==
  LET receipts == job.receipts \union Observed(workspaceValid)
  IN [receipts |-> receipts, valid |-> workspaceValid, head |-> job.head, paths |-> job.claimed,
      quiet |-> job.quiet /\ working \intersect Protected = {},
      verified |-> /\ workspaceValid /\ ~AsksSomebody
                   /\ receipts # {} /\ \A r \in receipts : Passes(r)
                   /\ \A c \in contract.conditions : Satisfied(c, receipts)]

MakeBundle ==
  /\ \/ job.pc = "status" /\ bundles' = bundles \union {Bundle(ClaimHolds)}
     \/ /\ job.pc = "checks" /\ job.todo = {} /\ setting.adapter = "none"
        /\ bundles' = bundles \union {Bundle(setting.projectless)}
  /\ job' = NotCollecting /\ Collects /\ UNCHANGED <<artifacts, ran>>

\* HandoffProcessor.verify and EvidenceCollector.verify: the bundle is judged
\* as it is, only its artifacts are looked at again.
Verifies(b) ==
  /\ b.verified /\ b.valid /\ b.receipts # {}
  /\ \A r \in b.receipts : Passes(r) /\ \A o \in r.refs : payload[o] = "ok"
  /\ \A c \in contract.conditions : Satisfied(c, b.receipts)
AcceptHandoff(b) ==
  /\ accepted = {} /\ Verifies(b) /\ accepted' = {b}
  /\ UNCHANGED <<contract, setting, worktree, artifacts, job, bundles, ran>>

EvidenceNext ==
  \/ \E f \in Files : Edit(f)
  \/ \E c \in DOMAIN commits : Reset(c)
  \/ \E o \in Outputs : LosePayload(o)
  \/ \E s \in job.todo :
       HoldBack(s) \/ \E status \in {"pass", "fail", "timeout"}, out, err \in Outputs \union {Silent} :
                        RunCheck(s, status, out, err)
  \/ CommitWork \/ StartCollecting \/ StoreOutput \/ CheckDone
  \/ ReadHead \/ ClaimPaths \/ ReadHeadAgain \/ MakeBundle
  \/ \E b \in bundles : AcceptHandoff(b)

-----------------------------------------------------------------------------
\* Whatever the worker does while the evidence is collected, a verified bundle
\* names only paths of the task, none of them protected, and with a base in the
\* scope they are exactly what the commit it names changed since the base.  (A
\* head that is the base itself claims what the base changed: the bundle may
\* then name a commit that holds none of the task's work.)
VerifiedWorkIsOwned ==
  \A b \in bundles : b.verified /\ setting.adapter # "none" =>
    /\ b.paths \subseteq Owned \ Protected
    /\ setting.adapter = "git" /\ setting.base /\ b.head > 1 => b.paths = Changed(TreeOf(1), TreeOf(b.head))

\* Work that keeps to its paths, is committed and left alone is not refused for
\* the state of its worktree.  (Without a base in the scope it is, and so is a
\* task that commits nothing.)
HonestWorkIsValid ==
  \A b \in bundles :
    /\ b.quiet /\ setting.adapter = "git" /\ setting.base /\ b.head > 1
    /\ Changed(TreeOf(1), TreeOf(b.head)) \subseteq Owned \ Protected
    => b.valid

\* A task is completed on commands that ran and passed, each condition of its
\* contract shown by one of them or by an observation, and nobody left to ask.
AcceptedWorkWasChecked ==
  \A b \in accepted :
    /\ \A s \in contract.specs : s.kind # "human"
    /\ \A s \in Commands : s \in ran /\ \E r \in b.receipts : r.id = s.id /\ Passes(r)
    /\ \A c \in contract.conditions :
         \E s \in contract.specs : s.kind \in Automatable /\ c \in s.satisfies

\* Nothing that destroys or reaches the network runs without an approval of
\* exactly that command for exactly that.
NothingRunsUnapproved ==
  \A s \in ran :
    \A scope \in {"network", "destructive"} :
      (IF scope = "network" THEN s.network = "allow" ELSE s.destructive) =>
        s.approval # NoApproval /\ s.approval.of = s.argv /\ scope \in s.approval.scopes
=============================================================================
