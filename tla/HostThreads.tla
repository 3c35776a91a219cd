----------------------------- MODULE HostThreads -----------------------------
(***************************************************************************)
(* The Codex App adapter: what it does with an action before anything      *)
(* reaches the host, and what it remembers of the answers.  It keeps one   *)
(* receipt for each idempotency key, in memory, and only when the answer   *)
(* named a thread or a client thread.                                      *)
(***************************************************************************)
EXTENDS Naturals, Sequences

CONSTANTS
  RawActions,  \* actions as mappings: [key, class, kind, tool, exact, substitutes, unavailable, required, complete]
  CodexTool, DeepSeekTool, \* the creation tools of the two hosts
  Unset,       \* a key that is not in the mapping
  HostAnswers, \* ways a host answers create_thread
  MaxCalls     \* bound: calls of one key that reach the host

VARIABLES
  declared,  \* the host is available and declares its create tool
  calls,     \* the answers of the host, for each key
  hostReceipts, \* _receipts: what is remembered of each key
  replied    \* the receipt the last call returned

hostVars == <<declared, calls, hostReceipts, replied>>

HostKeys == {a.key : a \in RawActions}
NoReceipt == [status |-> "none", actual |-> FALSE, identity |-> "none"]

HostInit ==
  /\ declared \in BOOLEAN /\ calls = [k \in HostKeys |-> <<>>]
  /\ hostReceipts = [k \in HostKeys |-> NoReceipt] /\ replied = NoReceipt

\* HostAction.__post_init__: the defaults, ...
Given(x, default) == IF x = Unset THEN default ELSE x
ClassOf(a) ==
  Given(a.class, CASE a.kind = "create-top-level-task" -> "top_level_task"
                [] a.kind = "spawn-subagent" -> "local_subagent"
                [] OTHER -> "direct")
ToolOf(a) == IF ClassOf(a) = "top_level_task" THEN Given(a.tool, CodexTool) ELSE a.tool
ExactOf(a) == Given(a.exact, ToolOf(a))
RequiredOf(a) == Given(a.required, ToolOf(a))

\* ... and what it refuses with a ValueError.
WellFormed(a) ==
  /\ ClassOf(a) = "top_level_task" =>
       /\ a.kind = "create-top-level-task" /\ ToolOf(a) \in {CodexTool, DeepSeekTool}
       /\ a.unavailable \in {Unset, "block"} /\ a.complete
  /\ ClassOf(a) = "local_subagent" => ToolOf(a) # Unset
  /\ ClassOf(a) # "direct" => ExactOf(a) = ToolOf(a) /\ ~a.substitutes /\ RequiredOf(a) = ToolOf(a)

\* The adapter's own check: another host's action is well formed, and refused.
ExactForCodex(a) ==
  /\ ClassOf(a) = "top_level_task" /\ ToolOf(a) = CodexTool
  /\ ExactOf(a) = CodexTool /\ ~a.substitutes /\ RequiredOf(a) = CodexTool

\* HostReceipt.from_value: only an answer that names a thread is actual.
Observation(status, identity) ==
  [status |-> status, actual |-> identity = "thread", identity |-> identity]

\* _normalise_thread_payload.  The bridge answers for a host that has nothing
\* to say; an answer that is no mapping, or that names nothing, is unresolved.
ReceiptFor(answer) ==
  CASE answer = "thread"  -> Observation("ready", "thread")
    [] answer = "client"  -> Observation("pending", "client")
    [] answer = "nothing" -> Observation("pending", "none")
    [] OTHER -> Observation("unresolved", "none")

ReplyWith(r) == replied' = r /\ UNCHANGED <<declared, calls, hostReceipts>>
Refusal(status) == Observation(status, "none")

RefuseAction(a) == WellFormed(a) /\ ~ExactForCodex(a) /\ ReplyWith(Refusal("failed"))
BlockAction(a) == WellFormed(a) /\ ExactForCodex(a) /\ ~declared /\ ReplyWith(Refusal("blocked"))

Admitted(a) == WellFormed(a) /\ ExactForCodex(a) /\ declared
AnswerAgain(a) == Admitted(a) /\ hostReceipts[a.key] # NoReceipt /\ ReplyWith(hostReceipts[a.key])

\* A plausible slip: only a receipt with a real thread is remembered.
RememberThreads(k, r) ==
  hostReceipts' = [hostReceipts EXCEPT ![k] = IF r.actual THEN r ELSE @]

\* _remember
Remember(k, r) ==
  hostReceipts' = [hostReceipts EXCEPT ![k] = IF r.actual \/ r.identity # "none" THEN r ELSE @]

\* _invoke_raw: by whichever way the host has, the call reaches it.
AskHost(k, answer) ==
  Len(calls[k]) < MaxCalls /\ calls' = [calls EXCEPT ![k] = Append(@, answer)]

\* A host that raises leaves nothing behind in the adapter.
Invoke(a, answer) ==
  /\ Admitted(a) /\ hostReceipts[a.key] = NoReceipt /\ AskHost(a.key, answer)
  /\ IF answer = "raises" THEN UNCHANGED <<hostReceipts, replied>>
     ELSE Remember(a.key, ReceiptFor(answer)) /\ replied' = ReceiptFor(answer)
  /\ UNCHANGED declared

\* discover is asked again at every call.
Rediscover == declared' = ~declared /\ UNCHANGED <<calls, hostReceipts, replied>>

HostNext ==
  \/ \E a \in RawActions :
       RefuseAction(a) \/ BlockAction(a) \/ AnswerAgain(a) \/ \E answer \in HostAnswers : Invoke(a, answer)
  \/ Rediscover

-----------------------------------------------------------------------------
\* An action whose thread the host has named, for now or for good, never
\* reaches the host a second time, however often it is dispatched and whatever
\* the host declares in between.
NamedThreadsAreNotAskedAgain ==
  \A k \in HostKeys : \A i \in 1 .. Len(calls[k]) - 1 : calls[k][i] \notin {"thread", "client"}
=============================================================================
