----------------------------- MODULE Capability -----------------------------
(***************************************************************************)
(* Invoking a capability: the adapter looks its declaration up, asks the   *)
(* host whether it is there and whether it may be used, falls back to      *)
(* another one where the binding names it, calls the host, and believes    *)
(* the answer when it is a receipt.  Another thread may replace a          *)
(* declaration between any two of these.  The host may grant less than it  *)
(* was asked for: the adapter keeps the scopes of the answer and compares  *)
(* them with nothing.                                                      *)
(***************************************************************************)
EXTENDS Naturals, FiniteSets

CONSTANTS
  Ids,          \* capabilities
  Declarations, \* what a declaration says: [scopes, mutates]
  Changing,     \* READ_ONLY_FORBIDDEN_SCOPE
  StatedScopes, \* scopes a permission may state as its own
  Bindings,     \* what callers ask for: [id, described, scope, applicable, fallback]
  Absent,       \* no declaration; no fallback
  MaxInvocations, \* bound: invocations
  MaxReplaced   \* bound: declarations replaced

VARIABLES
  registry,  \* [Ids -> declaration]
  replaced,  \* how many were replaced
  ask,       \* the invocation under way
  heard,     \* what the host said while it is
  invoked     \* what the host was asked to run: [id, declared, readOnly, binding, fellBack, heard]

capabilityVars == <<registry, replaced, ask, heard, invoked>>

NotAsked == [at |-> "idle"]
CapabilityInit ==
  /\ registry \in [Ids -> Declarations \union {Absent}] /\ replaced = 0
  /\ ask = NotAsked /\ heard = {} /\ invoked = {}

\* CapabilityRegistry.register with replace.
Register(id, d) ==
  /\ replaced < MaxReplaced /\ d # registry[id]
  /\ registry' = [registry EXCEPT ![id] = d] /\ replaced' = replaced + 1
  /\ UNCHANGED <<ask, heard, invoked>>

\* An unregistered capability is what the binding says of it.
LookedUp(b) == IF registry[b.id] = Absent THEN b.described ELSE registry[b.id]

\* invoke, resolve: the declaration is looked up once, before the host is asked.
BeginCall(b, readOnly, mayFallBack) ==
  /\ ask = NotAsked /\ Cardinality(invoked) < MaxInvocations
  /\ ask' = [at |-> "discover", binding |-> b, readOnly |-> readOnly, mayFallBack |-> mayFallBack,
             registered |-> registry[b.id] # Absent, id |-> b.id, declared |-> LookedUp(b),
             seen |-> "unknown", permission |-> "unknown"]
  /\ heard' = {}
  /\ UNCHANGED <<registry, replaced, invoked>>

\* What an observation of the host amounts to: without a live source and some
\* evidence "available" and "unavailable" are only "unknown".
Discovery(status, proven) == IF proven THEN status ELSE "unknown"

\* _discovery_input, discover_capability: from the caller, or asked live.
Discovered(status, proven) ==
  /\ ask.at \in {"discover", "discover fallback"}
  /\ LET seen == Discovery(status, proven) IN
     /\ heard' = heard \union (IF seen = "available" THEN {<<"available", ask.id>>} ELSE {})
     /\ ask' = [ask EXCEPT !.at = IF @ = "discover" THEN "permit" ELSE "permit fallback", !.seen = seen]
  /\ UNCHANGED <<registry, replaced, invoked>>

\* A plausible slip: the binding's scopes are not asked for.
DeclaredScopes == ask.declared.scopes

\* The scopes of the declaration and those of the binding.
ScopesAsked == ask.declared.scopes \union ask.binding.scope

\* Whatever the host's or the caller's answer looks like, it is one of these.
PermissionAnswers == {"granted", "denied", "unknown"}

\* _permission_input, check_permission: an answer that states no scopes counts for
\* all that were asked for, one that states its own is kept with them.  A provider
\* that takes no scopes is asked without them and answers all the same.
Permitted(answer, stated) ==
  /\ ask.at \in {"permit", "permit fallback"} /\ stated \in StatedScopes \union {ScopesAsked}
  /\ heard' = heard \union
       (IF answer = "granted" THEN {<<"granted", ask.id, ScopesAsked, stated>>} ELSE {})
  /\ ask' = [ask EXCEPT !.at = IF @ = "permit" THEN "decide" ELSE "decide fallback", !.permission = answer]
  /\ UNCHANGED <<registry, replaced, invoked>>

\* _read_only_violation
BreaksReadOnly(declared, scopes) ==
  ask.readOnly /\ (declared.mutates \/ scopes \intersect Changing # {})

\* The status of resolve.
ResolvedStatus ==
  IF ~ask.binding.applicable THEN "not-applicable"
  ELSE IF (ask.registered /\ BreaksReadOnly(ask.declared, ScopesAsked)) \/ ask.permission = "denied" THEN "permission-denied"
  ELSE IF ask.seen # "available" THEN ask.seen
  ELSE IF ask.permission = "unknown" THEN "permission-unknown"
  ELSE IF ask.registered THEN "resolved" ELSE "unknown"

GiveUp == ask' = NotAsked /\ heard' = {} /\ UNCHANGED <<registry, replaced, invoked>>

\* The first decision: use it, ask about the fallback, or give up.
DecideCall ==
  /\ ask.at = "decide"
  /\ LET status == ResolvedStatus
         other  == ask.binding.fallback
     IN
     IF status = "resolved"
     THEN ask' = [ask EXCEPT !.at = "invoke"] /\ UNCHANGED <<registry, replaced, heard, invoked>>
     ELSE IF status # "not-applicable" /\ ask.mayFallBack /\ other # Absent /\ registry[other.id] # Absent
     THEN /\ ask' = [ask EXCEPT !.at = "discover fallback", !.id = other.id, !.declared = other.described]
          /\ UNCHANGED <<registry, replaced, heard, invoked>>
     ELSE GiveUp

\* Evidence the binding brings along stands in for the host's observation.
FallbackIsThere == ask.binding.fallback.evidence \/ ask.seen = "available"

\* The fallback was judged as the binding describes it; what runs is what is
\* registered now.
DecideFallback ==
  /\ ask.at = "decide fallback"
  /\ IF /\ FallbackIsThere /\ ask.permission = "granted"
        /\ ~BreaksReadOnly(ask.declared, ScopesAsked)
        /\ registry[ask.id] # Absent
     THEN /\ ask' = [ask EXCEPT !.at = "invoke fallback", !.declared = registry[ask.id]]
          /\ UNCHANGED <<registry, replaced, heard, invoked>>
     ELSE GiveUp

\* _invoker_call
InvokeHost ==
  /\ ask.at \in {"invoke", "invoke fallback"}
  /\ invoked' = invoked \union {[id |-> ask.id, declared |-> ask.declared, readOnly |-> ask.readOnly,
                                 binding |-> ask.binding, fellBack |-> ask.at = "invoke fallback",
                                 heard |-> heard]}
  /\ ask' = [ask EXCEPT !.at = "receive"]
  /\ UNCHANGED <<registry, replaced, heard>>

\* The answer is reported as a use when it is a receipt, and as nothing when it
\* is not: either way the adapter keeps nothing of the invocation.
EndCall == ask.at = "receive" /\ GiveUp

CapabilityNext ==
  \/ \E id \in Ids, d \in Declarations : Register(id, d)
  \/ \E b \in Bindings, readOnly, mayFallBack \in BOOLEAN : BeginCall(b, readOnly, mayFallBack)
  \/ \E status \in {"available", "unavailable"}, proven \in BOOLEAN : Discovered(status, proven)
  \/ ask # NotAsked /\ \E answer \in PermissionAnswers, stated \in StatedScopes \union {ScopesAsked} :
       Permitted(answer, stated)
  \/ DecideCall \/ DecideFallback \/ InvokeHost \/ EndCall

\* What an invocation was judged by: the declaration that runs, or for a
\* fallback the description in the binding, which may say less than what is
\* registered and runs.
Judged(r) == IF r.fellBack THEN r.binding.fallback.described ELSE r.declared

\* The host said r was there; of a fallback the binding's own evidence says so too.
Seen(r) ==
  <<"available", r.id>> \in r.heard \/ (r.fellBack /\ r.binding.fallback.evidence)

\* Whatever is replaced or answered in between, the host runs a capability only
\* when, in the same invocation, it was seen, the permission that was asked for
\* all the scopes of the capability and of the binding was answered "granted",
\* and nothing among them changes anything while the caller only reads.  That the
\* answer's own scopes are all of them is not said: nothing compares them.
NothingRunsUngranted ==
  \A r \in invoked :
    LET scopes == Judged(r).scopes \union r.binding.scope IN
    /\ Seen(r)
    /\ \E granted \in r.heard : granted[1] = "granted" /\ granted[2] = r.id /\ scopes \subseteq granted[3]
    /\ r.readOnly => ~Judged(r).mutates /\ scopes \intersect Changing = {}
=============================================================================
