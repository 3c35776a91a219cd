------------------------------ MODULE Intents ------------------------------
(***************************************************************************)
(* What the dispatch outbox promises of a durable intent, whatever dies:   *)
(* it is written once, sent once, performed at most once and only while it *)
(* is sent, answered only if it was performed, and once it is settled it   *)
(* is never sent or performed again.  Dispatch and LaneWork implement this *)
(* when one driver at a time works on the database.                        *)
(***************************************************************************)
EXTENDS Naturals

CONSTANT Key

VARIABLES
  intent,    \* intent[k]: how far the intent has come
  work,      \* work[k]: how often it was performed
  answered   \* the intents whose answer is stored

vars == <<intent, work, answered>>

Init ==
  /\ intent = [k \in Key |-> "none"]
  /\ work = [k \in Key |-> 0]
  /\ answered = {}

Write(k) ==
  /\ intent[k] = "none"
  /\ intent' = [intent EXCEPT ![k] = "written"]
  /\ UNCHANGED <<work, answered>>

Send(k) ==
  /\ intent[k] = "written"
  /\ intent' = [intent EXCEPT ![k] = "sent"]
  /\ UNCHANGED <<work, answered>>

Perform(k) ==
  /\ intent[k] = "sent" /\ work[k] = 0
  /\ work' = [work EXCEPT ![k] = 1]
  /\ UNCHANGED <<intent, answered>>

\* The answer and the end of the intent are one step.
Answer(k) ==
  /\ work[k] = 1
  /\ answered' = answered \union {k}
  /\ intent' = [intent EXCEPT ![k] = "settled"]
  /\ UNCHANGED work

\* Some intents are given up or made good by other means.
Settle(S) ==
  /\ \A k \in S : intent[k] # "none"
  /\ intent' = [k \in Key |-> IF k \in S THEN "settled" ELSE intent[k]]
  /\ UNCHANGED <<work, answered>>

Next ==
  \/ \E k \in Key : Write(k) \/ Send(k) \/ Perform(k) \/ Answer(k)
  \/ \E S \in SUBSET Key : Settle(S)

Spec == Init /\ [][Next]_vars

=============================================================================
