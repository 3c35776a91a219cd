----------------------------- MODULE Permissions -----------------------------
(***************************************************************************)
(* Permission intents: an external action under the policy "ask" crosses   *)
(* to the host only when the newest intent of its scope and kind is        *)
(* allowed.  The check is one transaction and the crossing a later step;   *)
(* users decide in other processes, and may decide again.                  *)
(***************************************************************************)
EXTENDS Naturals, Sequences

CONSTANTS
  Dispatchers,  \* processes that dispatch
  Subjects,     \* scope and kind of an external action
  MaxDecisions  \* bound: decisions taken

VARIABLES
  intents,   \* permission_intents, in the order they were requested
  decisions, \* the rows of decisions that answer them: [intent, option]
  checked,   \* each dispatcher: the subject it may let cross, or Unchecked
  crossed    \* the subjects that crossed, with the number of decisions then taken

permissionVars == <<intents, decisions, checked, crossed>>
Unchecked == "unchecked"

PermissionInit ==
  /\ intents = <<>> /\ decisions = <<>> /\ crossed = {}
  /\ checked = [p \in Dispatchers |-> Unchecked]

IntentsOf(s) == {i \in DOMAIN intents : intents[i].subject = s}
NewestIntent(s) == CHOOSE i \in IntentsOf(s) : \A j \in IntentsOf(s) : j <= i

\* request_permission: any decided or pending intent of the subject answers.
RequestPermission(s) ==
  intents' = IF IntentsOf(s) # {} THEN intents
             ELSE Append(intents, [subject |-> s, status |-> "pending"])

\* A plausible slip: only a denied intent keeps the action back.
UnlessDenied(p, s) ==
  /\ checked[p] = Unchecked /\ RequestPermission(s)
  /\ checked' = [checked EXCEPT ![p] =
       IF IntentsOf(s) # {} /\ intents[NewestIntent(s)].status = "denied" THEN Unchecked ELSE s]
  /\ UNCHANGED <<decisions, crossed>>

\* dispatch, up to the permission check.
CheckPermission(p, s) ==
  /\ checked[p] = Unchecked /\ RequestPermission(s)
  /\ checked' = [checked EXCEPT ![p] =
       IF IntentsOf(s) # {} /\ intents[NewestIntent(s)].status = "allowed" THEN s ELSE Unchecked]
  /\ UNCHANGED <<decisions, crossed>>

\* dispatch, the rest: the host is asked.  A process may also die before that.
CrossOrDie(p) ==
  /\ checked[p] # Unchecked /\ checked' = [checked EXCEPT ![p] = Unchecked]
  /\ crossed' \in {crossed, crossed \union {<<checked[p], Len(decisions)>>}}
  /\ UNCHANGED <<intents, decisions>>

\* decide_permission: whatever was decided before.
DecidePermission(i, option) ==
  /\ Len(decisions) < MaxDecisions
  /\ intents' = [intents EXCEPT ![i].status = IF option = "allow" THEN "allowed" ELSE "denied"]
  /\ decisions' = Append(decisions, [intent |-> i, option |-> option])
  /\ UNCHANGED <<checked, crossed>>

PermissionNext ==
  \/ \E p \in Dispatchers : CrossOrDie(p) \/ \E s \in Subjects : CheckPermission(p, s)
  \/ \E i \in DOMAIN intents, option \in {"allow", "deny"} : DecidePermission(i, option)

-----------------------------------------------------------------------------
\* The user is asked once for each subject, and nothing crosses that a user had
\* not allowed by then.  (A later denial does not call back a dispatcher that
\* has checked already.)
NothingCrossesUnasked ==
  /\ \A s \in Subjects : \A i, j \in IntentsOf(s) : i = j
  /\ \A x \in crossed : \E d \in 1 .. x[2] :
       decisions[d].option = "allow" /\ intents[decisions[d].intent].subject = x[1]
=============================================================================
