----------------------------- MODULE CheckTrust -----------------------------
(***************************************************************************)
(* Which verification procedures a task gets and which of their commands   *)
(* may run: the planner's choice among a domain's explicit procedures, the *)
(* entry points found in the repository and the pack's, and the evaluator  *)
(* that stands before every subprocess.                                    *)
(*                                                                         *)
(* A procedure is a record: kind, satisfies (conditions), and for commands *)
(* argv, state (the trust it claims, NoTrust when it claims none), source  *)
(* (its provenance), ref (where its source file is), registered (its pack  *)
(* is of a trusted registry), approval, inside (its cwd is in the owned    *)
(* workspace), networked (argv names a network tool), network, destructive.*)
(***************************************************************************)
EXTENDS Naturals, FiniteSets

CONSTANTS
  NoTrust,   \* no trust state is claimed
  NoApproval \* no approval evidence is attached

Automatable == {"command", "artifact", "workspace"}

\* A plausible slip: any approval of the command covers what it needs.
ApprovedAtAll(spec, scope) == spec.approval # NoApproval /\ spec.approval.of = spec.argv

\* ApprovalEvidence: bound to one argv and to some scopes.
Approved(spec, scope) ==
  /\ spec.approval # NoApproval
  /\ spec.approval.of = spec.argv
  /\ {"command", scope} \subseteq spec.approval.scopes

Denied(spec) ==
  \/ ~spec.inside
  \/ spec.source = "repository-discovered" /\ spec.ref = "escapes"
  \/ spec.networked /\ spec.network = "deny"
  \/ spec.state = "denied"

Vouched(spec) ==
  CASE spec.source = "repository-discovered" -> spec.ref = "file"
    [] spec.source = "pack-signed"           -> spec.registered
    [] spec.source = "deployment-approved"   -> TRUE
    [] spec.source = "unknown"               -> FALSE
    [] OTHER                                 -> Approved(spec, "command")

StillRequired(spec) ==
  {s \in {"network", "destructive"} :
     /\ IF s = "network" THEN spec.network = "allow" ELSE spec.destructive
     /\ ~Approved(spec, s)}

\* CommandTrustEvaluator.evaluate
Evaluate(spec) ==
  IF Denied(spec) THEN "denied"
  ELSE IF spec.state = "trusted" /\ Vouched(spec) /\ StillRequired(spec) = {} THEN "trusted"
  ELSE "approval_required"

-----------------------------------------------------------------------------
\* VerificationPlanner._annotate_explicit: a procedure that claims no trust
\* takes its domain's, and stays open when the domain claims none either.
Annotated(spec, domain) ==
  [spec EXCEPT !.state = IF @ # NoTrust THEN @
                         ELSE IF domain.trust # NoTrust THEN domain.trust ELSE "approval_required"]

Covered(specs) ==
  UNION {spec.satisfies : spec \in {s \in specs : s.kind \in Automatable /\ s.state = "trusted"}}

ManualSpec(conditions) == [id |-> "manual", kind |-> "human", satisfies |-> conditions,
                           state |-> "approval_required"]

\* VerificationPlanner.plan: explicit procedures replace everything else, and
\* then nobody is asked about the conditions they leave open.
Plan(domain) ==
  LET found == domain.found \union domain.pack
      open  == domain.conditions \ Covered(found)
  IN IF domain.explicit # {} THEN {Annotated(s, domain) : s \in domain.explicit}
     ELSE found \union (IF open = {} THEN {} ELSE {ManualSpec(open)})
=============================================================================
