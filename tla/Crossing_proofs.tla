-------------------------- MODULE Crossing_proofs --------------------------
(***************************************************************************)
(* What reaches a host, for any number of dispatchers, decisions, actions  *)
(* and answers: only what a user had allowed (Permissions), a thread the   *)
(* host has named only once (HostThreads), and a capability only with      *)
(* every scope it is judged by granted in the same invocation              *)
(* (Capability). And what is said of a turn that crossed: a receipt that   *)
(* calls it complete has the turn, its times and its model from the events *)
(* the host exported (ThreadStream).                                       *)
(***************************************************************************)
EXTENDS Permissions, HostThreads, Capability, ThreadStream, TLAPS

PermissionSpec == PermissionInit /\ [][PermissionNext]_permissionVars
HostSpec == HostInit /\ [][HostNext]_hostVars

-----------------------------------------------------------------------------
(* Permissions: an allowed intent has a decision that allows it, and so has  *)
(* whatever a dispatcher is about to let cross.                              *)

Intent == [subject : Subjects, status : {"pending", "allowed", "denied"}]
Answer == [intent : Nat, option : {"allow", "deny"}]

\* The subject was allowed by one of the first n decisions.
AllowedBy(s, n) ==
  \E d \in 1 .. n : decisions[d].option = "allow" /\ intents[decisions[d].intent].subject = s

PermissionTypes ==
  /\ intents \in Seq(Intent) /\ decisions \in Seq(Answer)
  /\ \A d \in 1 .. Len(decisions) : decisions[d].intent \in 1 .. Len(intents)
  /\ checked \in [Dispatchers -> Subjects \union {Unchecked}]
  /\ crossed \subseteq Subjects \X Nat
  /\ \A x \in crossed : x[2] <= Len(decisions)

PermissionInv ==
  /\ PermissionTypes
  /\ \A i \in 1 .. Len(intents) : intents[i].status = "allowed" =>
       \E d \in 1 .. Len(decisions) : decisions[d].option = "allow" /\ decisions[d].intent = i
  /\ \A p \in Dispatchers : checked[p] # Unchecked => AllowedBy(checked[p], Len(decisions))
  /\ NothingCrossesUnasked

\* What the types say, in the form the steps below need it.
LEMMA Stored ==
  ASSUME PermissionTypes
  PROVE  /\ Len(intents) \in Nat /\ DOMAIN intents = 1 .. Len(intents)
         /\ \A i \in 1 .. Len(intents) : intents[i] \in Intent /\ intents[i].subject \in Subjects
         /\ Len(decisions) \in Nat
         /\ \A n \in Nat : \A d \in 1 .. n : n <= Len(decisions) =>
              d \in 1 .. Len(decisions) /\ decisions[d].intent \in 1 .. Len(intents)
<1>1. Len(intents) \in Nat /\ DOMAIN intents = 1 .. Len(intents) /\ Len(decisions) \in Nat
  BY DEF PermissionTypes
<1>2. \A i \in 1 .. Len(intents) : intents[i] \in Intent /\ intents[i].subject \in Subjects
  <2> SUFFICES ASSUME NEW i \in 1 .. Len(intents)
               PROVE  intents[i] \in Intent /\ intents[i].subject \in Subjects
    OBVIOUS
  <2>1. intents[i] \in Intent
    BY <1>1 DEF PermissionTypes
  <2> QED
    BY <2>1 DEF Intent
<1>3. \A n \in Nat : \A d \in 1 .. n : n <= Len(decisions) => d \in 1 .. Len(decisions)
  BY <1>1
<1> QED
  BY <1>1, <1>2, <1>3 DEF PermissionTypes

LEMMA InitPermission == PermissionInit => PermissionInv
BY DEF PermissionInit, PermissionInv, PermissionTypes, NothingCrossesUnasked, IntentsOf

\* Requesting, if anything, appends an intent of a subject that had none.
LEMMA RequestKeeps ==
  ASSUME PermissionInv, NEW s \in Subjects, RequestPermission(s),
         UNCHANGED <<decisions, crossed>>
  PROVE  /\ intents' \in Seq(Intent) /\ Len(intents') >= Len(intents)
         /\ \A i \in 1 .. Len(intents) : intents'[i] = intents[i]
         /\ \A i \in 1 .. Len(intents') : i \notin 1 .. Len(intents) =>
              intents'[i].status = "pending" /\ intents'[i].subject = s
         /\ Len(intents') \in {Len(intents), Len(intents) + 1}
         /\ IntentsOf(s) # {} => intents' = intents
<1> DEFINE new == [subject |-> s, status |-> "pending"]
<1>1. CASE IntentsOf(s) # {}
  BY <1>1 DEF RequestPermission, PermissionInv, PermissionTypes
<1>2. CASE IntentsOf(s) = {}
  <2>1. intents' = Append(intents, new)
    BY <1>2 DEF RequestPermission
  <2>2. new \in Intent
    BY DEF Intent
  <2> QED
    BY <1>2, <2>1, <2>2 DEF PermissionInv, PermissionTypes
<1> QED
  BY <1>1, <1>2

LEMMA CheckKeeps ==
  ASSUME PermissionInv, NEW p \in Dispatchers, NEW s \in Subjects, CheckPermission(p, s)
  PROVE  PermissionInv'
<1>0. PermissionTypes
  BY DEF PermissionInv
<1>1. /\ intents' \in Seq(Intent) /\ Len(intents') >= Len(intents)
      /\ \A i \in 1 .. Len(intents) : intents'[i] = intents[i]
      /\ \A i \in 1 .. Len(intents') : i \notin 1 .. Len(intents) =>
           intents'[i].status = "pending" /\ intents'[i].subject = s
      /\ Len(intents') \in {Len(intents), Len(intents) + 1}
      /\ IntentsOf(s) # {} => intents' = intents
  BY RequestKeeps DEF CheckPermission
<1>2. UNCHANGED <<decisions, crossed>>
  BY DEF CheckPermission
<1>3. \A i, j \in DOMAIN intents : intents[i].subject = intents[j].subject => i = j
  <2> SUFFICES ASSUME NEW i \in DOMAIN intents, NEW j \in DOMAIN intents,
                      intents[i].subject = intents[j].subject
               PROVE  i = j
    OBVIOUS
  <2>1. intents[i].subject \in Subjects
    BY <1>0, Stored
  <2> QED
    BY <2>1 DEF NothingCrossesUnasked, IntentsOf, PermissionInv
<1>4. ASSUME checked'[p] # Unchecked
      PROVE  checked'[p] = s /\ AllowedBy(s, Len(decisions))
  <2>1. IntentsOf(s) # {} /\ intents[NewestIntent(s)].status = "allowed" /\ checked'[p] = s
    <3>1. checked[p] = Unchecked
      BY DEF CheckPermission
    <3> QED
      BY <1>0, <1>4, <3>1 DEF CheckPermission, PermissionTypes
  <2>2. PICK i \in IntentsOf(s) : TRUE
    BY <2>1
  <2>3. i \in 1 .. Len(intents) /\ intents[i].subject = s
    BY <1>0, <2>2, Stored DEF IntentsOf
  <2>4. IntentsOf(s) = {i}
    BY <1>0, <1>3, <2>3, Stored DEF IntentsOf
  <2>5. NewestIntent(s) = i
    BY <2>3, <2>4 DEF NewestIntent
  <2>6. intents[i].status = "allowed"
    BY <2>1, <2>5
  <2>7. PICK d \in 1 .. Len(decisions) : decisions[d].option = "allow" /\ decisions[d].intent = i
    BY <2>3, <2>6 DEF PermissionInv
  <2> QED
    BY <2>1, <2>3, <2>7 DEF AllowedBy
<1>5. \A t, n : n \in 0 .. Len(decisions) /\ AllowedBy(t, n) => AllowedBy(t, n)'
  BY <1>0, <1>1, <1>2, Stored DEF AllowedBy
<1>6. PermissionTypes'
  <2>1. checked' \in [Dispatchers -> Subjects \union {Unchecked}]
    BY <1>0 DEF CheckPermission, PermissionTypes
  <2>2. \A d \in 1 .. Len(decisions) : decisions[d].intent \in 1 .. Len(intents')
    BY <1>0, <1>1, Stored DEF PermissionTypes
  <2> QED
    BY <1>0, <1>1, <1>2, <2>1, <2>2 DEF PermissionTypes
<1>7. ASSUME NEW i \in 1 .. Len(intents'), intents'[i].status = "allowed"
      PROVE  \E d \in 1 .. Len(decisions') : decisions'[d].option = "allow" /\ decisions'[d].intent = i
  <2>1. i \in 1 .. Len(intents)
    BY <1>1, <1>7
  <2>2. intents[i].status = "allowed"
    BY <1>1, <1>7, <2>1
  <2> QED
    BY <1>2, <2>1, <2>2 DEF PermissionInv
<1>8. ASSUME NEW q \in Dispatchers, checked'[q] # Unchecked
      PROVE  AllowedBy(checked[q], Len(decisions))'
  <2>1. CASE q = p
    BY <1>0, <1>2, <1>4, <1>5, <1>8, <2>1, Stored
  <2>2. CASE q # p
    <3>1. checked'[q] = checked[q]
      BY <1>0, <2>2 DEF CheckPermission, PermissionTypes
    <3> QED
      BY <1>0, <1>2, <1>5, <1>8, <3>1, Stored DEF PermissionInv
  <2> QED
    BY <2>1, <2>2
<1>9. ASSUME NEW t \in Subjects, NEW i \in IntentsOf(t)', NEW j \in IntentsOf(t)' PROVE i = j
  <2>1. i \in 1 .. Len(intents') /\ j \in 1 .. Len(intents')
    BY <1>1, <1>9 DEF IntentsOf
  <2>2. CASE IntentsOf(s) # {}
    BY <1>1, <1>3, <1>9, <2>2 DEF IntentsOf
  <2>3. CASE IntentsOf(s) = {}
    BY <1>0, <1>1, <1>3, <1>9, <2>1, <2>3, Stored DEF IntentsOf
  <2> QED
    BY <2>2, <2>3
<1>10. ASSUME NEW x \in crossed' PROVE AllowedBy(x[1], x[2])'
  <2>1. x[2] \in 0 .. Len(decisions) /\ AllowedBy(x[1], x[2])
    BY <1>0, <1>2, <1>10 DEF NothingCrossesUnasked, AllowedBy, PermissionInv, PermissionTypes
  <2> QED
    BY <1>5, <2>1
<1>11. NothingCrossesUnasked'
  BY <1>9, <1>10 DEF NothingCrossesUnasked, AllowedBy
<1> QED
  BY <1>6, <1>7, <1>8, <1>11 DEF PermissionInv

LEMMA CrossKeeps ==
  ASSUME PermissionInv, NEW p \in Dispatchers, CrossOrDie(p)
  PROVE  PermissionInv'
<1>0. PermissionTypes /\ checked[p] # Unchecked
  BY DEF PermissionInv, CrossOrDie
<1>1. /\ UNCHANGED <<intents, decisions>> /\ checked' = [checked EXCEPT ![p] = Unchecked]
      /\ crossed' \subseteq crossed \union {<<checked[p], Len(decisions)>>}
  BY DEF CrossOrDie
<1>2. PermissionTypes'
  BY <1>0, <1>1, Stored DEF PermissionTypes
<1>3. \A q \in Dispatchers : checked'[q] # Unchecked => AllowedBy(checked'[q], Len(decisions))
  BY <1>0, <1>1 DEF PermissionInv, PermissionTypes
<1>4. ASSUME NEW x \in crossed' PROVE AllowedBy(x[1], x[2])
  <2>1. CASE x \in crossed
    BY <2>1 DEF PermissionInv, NothingCrossesUnasked, AllowedBy
  <2>2. CASE x = <<checked[p], Len(decisions)>>
    BY <1>0, <2>2 DEF PermissionInv
  <2> QED
    BY <1>1, <1>4, <2>1, <2>2
<1>5. NothingCrossesUnasked'
  BY <1>1, <1>4 DEF PermissionInv, NothingCrossesUnasked, AllowedBy, IntentsOf
<1>6. \A q \in Dispatchers : checked'[q] # Unchecked => AllowedBy(checked[q], Len(decisions))'
  BY <1>1, <1>3 DEF AllowedBy
<1> QED
  BY <1>1, <1>2, <1>5, <1>6 DEF PermissionInv

LEMMA DecideKeeps ==
  ASSUME PermissionInv, NEW i \in DOMAIN intents, NEW option \in {"allow", "deny"},
         DecidePermission(i, option)
  PROVE  PermissionInv'
<1>0. PermissionTypes /\ i \in 1 .. Len(intents)
  BY Stored DEF PermissionInv
<1> DEFINE answer == [intent |-> i, option |-> option]
<1>1. answer \in Answer /\ decisions' = Append(decisions, answer)
  BY <1>0, Stored DEF DecidePermission, Answer
<1>2. /\ decisions' \in Seq(Answer) /\ Len(decisions') = Len(decisions) + 1
      /\ \A d \in 1 .. Len(decisions) : decisions'[d] = decisions[d]
      /\ decisions'[Len(decisions')] = answer
  BY <1>0, <1>1 DEF PermissionTypes
<1>3. /\ intents' \in Seq(Intent) /\ Len(intents') = Len(intents)
      /\ \A j \in 1 .. Len(intents) : /\ intents'[j].subject = intents[j].subject
                                      /\ j # i => intents'[j] = intents[j]
      /\ intents'[i].status = "allowed" => option = "allow"
  <2> DEFINE status == IF option = "allow" THEN "allowed" ELSE "denied"
  <2>1. intents' = [intents EXCEPT ![i].status = status]
    BY DEF DecidePermission
  <2>2. intents[i] \in Intent /\ status \in {"allowed", "denied"}
    BY <1>0, Stored
  <2>3. [intents[i] EXCEPT !.status = status] \in Intent
    BY <2>2 DEF Intent
  <2>4. intents' = [intents EXCEPT ![i] = [intents[i] EXCEPT !.status = status]]
    BY <2>1
  <2>5. intents' \in Seq(Intent) /\ Len(intents') = Len(intents)
    BY <1>0, <2>3, <2>4 DEF PermissionTypes
  <2>6. intents'[i] = [intents[i] EXCEPT !.status = status]
    BY <1>0, <2>4, Stored
  <2>7. intents'[i].subject = intents[i].subject /\ intents'[i].status = status
    BY <2>2, <2>6 DEF Intent
  <2>8. \A j \in 1 .. Len(intents) : j # i => intents'[j] = intents[j]
    BY <1>0, <2>4, Stored
  <2> QED
    BY <2>5, <2>7, <2>8
<1>4. UNCHANGED <<checked, crossed>>
  BY DEF DecidePermission
<1>5. PermissionTypes'
  BY <1>0, <1>1, <1>2, <1>3, <1>4, Stored DEF PermissionTypes
<1>6. \A t, n : n \in 0 .. Len(decisions) /\ AllowedBy(t, n) => AllowedBy(t, n)'
  <2> SUFFICES ASSUME NEW t, NEW n \in 0 .. Len(decisions), AllowedBy(t, n)
               PROVE  AllowedBy(t, n)'
    OBVIOUS
  <2>1. PICK d \in 1 .. n : decisions[d].option = "allow" /\ intents[decisions[d].intent].subject = t
    BY DEF AllowedBy
  <2>2. d \in 1 .. Len(decisions) /\ decisions[d].intent \in 1 .. Len(intents)
    BY <1>0, Stored
  <2>3. decisions'[d] = decisions[d] /\ intents'[decisions[d].intent].subject = t
    BY <1>2, <1>3, <2>1, <2>2
  <2> QED
    BY <2>1, <2>3 DEF AllowedBy
<1>7. \A t : AllowedBy(t, Len(decisions)) => AllowedBy(t, Len(decisions))'
  <2> SUFFICES ASSUME NEW t, AllowedBy(t, Len(decisions))
               PROVE  AllowedBy(t, Len(decisions))'
    OBVIOUS
  <2>1. AllowedBy(t, Len(decisions)) => \E d \in 1 .. Len(decisions) :
          decisions'[d].option = "allow" /\ intents'[decisions'[d].intent].subject = t
    <3>1. PICK d \in 1 .. Len(decisions) :
            decisions[d].option = "allow" /\ intents[decisions[d].intent].subject = t
      BY DEF AllowedBy
    <3>2. decisions[d].intent \in 1 .. Len(intents)
      BY <1>0, Stored
    <3> QED
      BY <1>2, <1>3, <3>1, <3>2
  <2>2. 1 .. Len(decisions) \subseteq 1 .. Len(decisions')
    BY <1>0, <1>2, Stored
  <2> QED
    BY <2>1, <2>2 DEF AllowedBy
<1>8. ASSUME NEW j \in 1 .. Len(intents'), intents'[j].status = "allowed"
      PROVE  \E d \in 1 .. Len(decisions') : decisions'[d].option = "allow" /\ decisions'[d].intent = j
  <2>1. CASE j = i
    BY <1>0, <1>1, <1>2, <1>3, <1>8, <2>1, Stored
  <2>2. CASE j # i
    <3>1. j \in 1 .. Len(intents) /\ intents[j].status = "allowed"
      BY <1>3, <1>8, <2>2
    <3>2. PICK d \in 1 .. Len(decisions) : decisions[d].option = "allow" /\ decisions[d].intent = j
      BY <3>1 DEF PermissionInv
    <3>3. d \in 1 .. Len(decisions') /\ decisions'[d] = decisions[d]
      BY <1>0, <1>2, Stored
    <3> QED
      BY <3>2, <3>3
  <2> QED
    BY <2>1, <2>2
<1>9. \A t \in Subjects : \A j, k \in IntentsOf(t)' : j = k
  <2> SUFFICES ASSUME NEW t \in Subjects, NEW j \in IntentsOf(t)', NEW k \in IntentsOf(t)'
               PROVE  j = k
    OBVIOUS
  <2>1. j \in 1 .. Len(intents) /\ k \in 1 .. Len(intents)
    BY <1>3 DEF IntentsOf
  <2>2. j \in IntentsOf(t) /\ k \in IntentsOf(t)
    BY <1>0, <1>3, <2>1, Stored DEF IntentsOf
  <2> QED
    BY <2>2 DEF PermissionInv, NothingCrossesUnasked
<1>10. ASSUME NEW x \in crossed' PROVE AllowedBy(x[1], x[2])'
  <2>1. x[2] \in 0 .. Len(decisions) /\ AllowedBy(x[1], x[2])
    BY <1>0, <1>4, <1>10 DEF NothingCrossesUnasked, AllowedBy, PermissionInv, PermissionTypes
  <2> QED
    BY <1>6, <2>1
<1>11. NothingCrossesUnasked'
  BY <1>9, <1>10 DEF NothingCrossesUnasked, AllowedBy
<1> QED
  BY <1>4, <1>5, <1>7, <1>8, <1>11 DEF PermissionInv

\* Nothing crosses to a host that a user had not allowed by then
\* (request_permission, decide_permission, dispatch), and nobody is asked twice.
THEOREM NothingCrosses == PermissionSpec => []NothingCrossesUnasked
<1>1. PermissionInv /\ [PermissionNext]_permissionVars => PermissionInv'
  <2>1. ASSUME PermissionInv, UNCHANGED permissionVars PROVE PermissionInv'
    BY <2>1 DEF permissionVars, PermissionInv, PermissionTypes, NothingCrossesUnasked, AllowedBy, IntentsOf
  <2> QED
    BY <2>1, CheckKeeps, CrossKeeps, DecideKeeps DEF PermissionNext
<1>2. PermissionInv => NothingCrossesUnasked
  BY DEF PermissionInv
<1> QED
  BY <1>1, <1>2, InitPermission, PTL DEF PermissionSpec

-----------------------------------------------------------------------------
(* Host threads: what the host named is remembered, and what is remembered   *)
(* is not asked for again.                                                   *)

Named == {"thread", "client"}

ThreadInv ==
  /\ calls \in [HostKeys -> Seq(HostAnswers)]
  /\ hostReceipts \in [HostKeys -> {NoReceipt} \union {ReceiptFor(x) : x \in Named}]
  /\ \A k \in HostKeys : \A i \in 1 .. Len(calls[k]) :
       calls[k][i] \in Named => hostReceipts[k] # NoReceipt
  /\ NamedThreadsAreNotAskedAgain

LEMMA InvokeKeeps ==
  ASSUME ThreadInv, NEW a \in RawActions, NEW answer \in HostAnswers, Invoke(a, answer)
  PROVE  ThreadInv'
<1> DEFINE k == a.key
<1>1. k \in HostKeys /\ hostReceipts[k] = NoReceipt
  BY DEF Invoke, HostKeys
<1>2. calls' = [calls EXCEPT ![k] = Append(@, answer)]
  BY DEF Invoke, AskHost
<1>3. /\ calls' \in [HostKeys -> Seq(HostAnswers)]
      /\ Len(calls'[k]) = Len(calls[k]) + 1 /\ calls'[k][Len(calls'[k])] = answer
      /\ \A i \in 1 .. Len(calls[k]) : calls'[k][i] = calls[k][i]
      /\ \A l \in HostKeys \ {k} : calls'[l] = calls[l]
  BY <1>1, <1>2 DEF ThreadInv
<1>4. \A i \in 1 .. Len(calls[k]) : calls[k][i] \notin Named
  BY <1>1 DEF ThreadInv
<1>5. answer \in Named => hostReceipts' = [hostReceipts EXCEPT ![k] = ReceiptFor(answer)]
  BY DEF Invoke, Remember, ReceiptFor, Observation, Named
<1>6. answer \notin Named => hostReceipts' = hostReceipts
  BY <1>1 DEF Invoke, Remember, ReceiptFor, Observation, Named, ThreadInv
<1>7. \A x \in Named : ReceiptFor(x) # NoReceipt
  BY DEF ReceiptFor, Observation, Named, NoReceipt
<1>8. hostReceipts' \in [HostKeys -> {NoReceipt} \union {ReceiptFor(x) : x \in Named}]
  BY <1>5, <1>6 DEF ThreadInv
<1>9. ASSUME NEW l \in HostKeys, NEW i \in 1 .. Len(calls'[l]), calls'[l][i] \in Named
      PROVE  hostReceipts'[l] # NoReceipt
  <2>1. CASE l = k
    <3>1. Len(calls[k]) \in Nat
      BY <1>1 DEF ThreadInv
    <3>2. i \in 1 .. Len(calls[k]) \/ i = Len(calls'[k])
      BY <1>3, <1>9, <2>1, <3>1
    <3>3. answer \in Named
      BY <1>3, <1>4, <1>9, <2>1, <3>2
    <3> QED
      BY <1>1, <1>5, <1>7, <2>1, <3>3 DEF ThreadInv
  <2>2. CASE l # k
    <3>1. hostReceipts[l] # NoReceipt
      BY <1>3, <1>9, <2>2 DEF ThreadInv
    <3> QED
      BY <1>5, <1>6, <2>2, <3>1 DEF ThreadInv
  <2> QED
    BY <2>1, <2>2
<1>10. NamedThreadsAreNotAskedAgain'
  <2> SUFFICES ASSUME NEW l \in HostKeys, NEW i \in 1 .. Len(calls'[l]) - 1
               PROVE  calls'[l][i] \notin Named
    BY DEF NamedThreadsAreNotAskedAgain, Named, HostKeys
  <2>1. CASE l = k
    <3>1. Len(calls[k]) \in Nat
      BY <1>1 DEF ThreadInv
    <3>2. i \in 1 .. Len(calls[k])
      BY <1>3, <2>1, <3>1
    <3> QED
      BY <1>3, <1>4, <2>1, <3>2
  <2>2. CASE l # k
    BY <1>3, <2>2 DEF ThreadInv, NamedThreadsAreNotAskedAgain, Named
  <2> QED
    BY <2>1, <2>2
<1> HIDE DEF k
<1> QED
  BY <1>3, <1>8, <1>9, <1>10 DEF ThreadInv

\* An action whose thread the host has named never reaches the host again,
\* whatever actions, keys and answers there are (CodexApp._remember).
THEOREM NamedOnce == HostSpec => []NamedThreadsAreNotAskedAgain
<1>1. HostInit => ThreadInv
  BY DEF HostInit, ThreadInv, NamedThreadsAreNotAskedAgain
<1>2. ThreadInv /\ [HostNext]_hostVars => ThreadInv'
  <2>1. ASSUME ThreadInv, UNCHANGED <<calls, hostReceipts>> PROVE ThreadInv'
    BY <2>1 DEF ThreadInv, NamedThreadsAreNotAskedAgain
  <2>2. ASSUME NEW a \in RawActions, RefuseAction(a) \/ BlockAction(a) \/ AnswerAgain(a)
        PROVE  UNCHANGED <<calls, hostReceipts>>
    BY <2>2 DEF RefuseAction, BlockAction, AnswerAgain, ReplyWith
  <2>3. Rediscover \/ UNCHANGED hostVars => UNCHANGED <<calls, hostReceipts>>
    BY DEF Rediscover, hostVars
  <2> QED
    BY <2>1, <2>2, <2>3, InvokeKeeps DEF HostNext
<1>3. ThreadInv => NamedThreadsAreNotAskedAgain
  BY DEF ThreadInv
<1> QED
  BY <1>1, <1>2, <1>3, PTL DEF HostSpec

-----------------------------------------------------------------------------
(* Capabilities: what the host said of the capability asked for is in heard  *)
(* when the decision falls, and stays there until the host is called.        *)

CapabilitySpec == CapabilityInit /\ [][CapabilityNext]_capabilityVars

CallFields ==
  {"at", "binding", "readOnly", "mayFallBack", "registered", "id", "declared", "seen", "permission"}

Judging  == {"permit", "decide"}
Replacing == {"discover fallback", "permit fallback", "decide fallback"}
Calling  == {"invoke", "invoke fallback"}

\* What the host would be asked to run now.
Request ==
  [id |-> ask.id, declared |-> ask.declared, readOnly |-> ask.readOnly, binding |-> ask.binding,
   fellBack |-> ask.at = "invoke fallback", heard |-> heard]

\* The host allowed all of r, and nothing in it changes what may only be read.
Covered(r) ==
  LET scopes == Judged(r).scopes \union r.binding.scope IN
  /\ Seen(r)
  /\ \E granted \in r.heard : granted[1] = "granted" /\ granted[2] = r.id /\ scopes \subseteq granted[3]
  /\ r.readOnly => ~Judged(r).mutates /\ scopes \intersect Changing = {}

CallInv ==
  /\ ask # NotAsked =>
       /\ ask = [f \in CallFields |-> ask[f]]
       /\ ask.at \in {"discover", "receive"} \union Judging \union Replacing \union Calling
       /\ ask.seen \in {"available", "unavailable", "unknown"}
       /\ ask.permission \in PermissionAnswers
  /\ ask.at \in {"permit", "decide", "permit fallback", "decide fallback"} /\ ask.seen = "available" =>
       <<"available", ask.id>> \in heard
  /\ ask.at \in {"decide", "decide fallback"} /\ ask.permission = "granted" =>
       \E stated : <<"granted", ask.id, ScopesAsked, stated>> \in heard
  /\ ask.at \in Replacing => ask.declared = ask.binding.fallback.described
  /\ ask.at \in Calling => Covered(Request)
  /\ \A r \in invoked : Covered(r)

LEMMA InitCall == CapabilityInit => CallInv
BY DEF CapabilityInit, CallInv, NotAsked, Replacing, Calling

\* A call under way is a whole record.
LEMMA UnderWay ==
  ASSUME CallInv, ask.at # "idle"
  PROVE  ask # NotAsked /\ ask = [f \in CallFields |-> ask[f]]
<1>1. NotAsked.at = "idle"
  BY DEF NotAsked
<1> QED
  BY <1>1 DEF CallInv

\* Giving up, or any step of the registry, leaves nothing half asked.
LEMMA GiveUpKeeps == CallInv /\ GiveUp => CallInv'
<1> SUFFICES ASSUME CallInv, GiveUp PROVE CallInv'
  OBVIOUS
<1>1. ask' = NotAsked /\ ask'.at = "idle" /\ invoked' = invoked
  BY DEF GiveUp, NotAsked
<1>2. \A r \in invoked' : Covered(r)
  BY <1>1 DEF CallInv
<1> QED
  BY <1>1, <1>2 DEF CallInv, NotAsked, Replacing, Calling

LEMMA DiscoveredKeeps ==
  ASSUME CallInv, NEW status \in {"available", "unavailable"}, NEW proven \in BOOLEAN,
         Discovered(status, proven)
  PROVE  CallInv'
<1> DEFINE seen == Discovery(status, proven)
           next == IF ask.at = "discover" THEN "permit" ELSE "permit fallback"
<1>1. ask.at \in {"discover", "discover fallback"} /\ ask # NotAsked /\ ask = [f \in CallFields |-> ask[f]]
  BY UnderWay DEF Discovered
<1>2. ask' = [ask EXCEPT !.at = next, !.seen = seen] /\ UNCHANGED invoked
      /\ heard' = heard \union (IF seen = "available" THEN {<<"available", ask.id>>} ELSE {})
  BY DEF Discovered
<1>3. seen \in {"available", "unavailable", "unknown"}
  BY DEF Discovery
<1> HIDE DEF seen
<1>4. /\ ask'.at = next /\ ask'.seen = seen /\ ask'.id = ask.id /\ ask'.permission = ask.permission
      /\ ask'.declared = ask.declared /\ ask'.binding = ask.binding
      /\ ask' = [f \in CallFields |-> ask'[f]]
  BY <1>1, <1>2 DEF CallFields
<1>5. next = "permit fallback" => ask.declared = ask.binding.fallback.described
  BY <1>1 DEF CallInv, Replacing
<1>6. ask'.permission \in PermissionAnswers /\ \A r \in invoked' : Covered(r)
  BY <1>1, <1>2, <1>4 DEF CallInv
<1>7. ask'.seen = "available" => <<"available", ask'.id>> \in heard'
  BY <1>2, <1>4
<1> QED
  BY <1>3, <1>4, <1>5, <1>6, <1>7 DEF CallInv, Judging, Replacing, Calling

LEMMA PermittedKeeps ==
  ASSUME CallInv, NEW answer \in PermissionAnswers, NEW stated, Permitted(answer, stated)
  PROVE  CallInv'
<1> DEFINE next == IF ask.at = "permit" THEN "decide" ELSE "decide fallback"
<1>1. ask.at \in {"permit", "permit fallback"} /\ ask # NotAsked /\ ask = [f \in CallFields |-> ask[f]]
  BY UnderWay DEF Permitted
<1>2. ask' = [ask EXCEPT !.at = next, !.permission = answer] /\ UNCHANGED invoked
      /\ heard' = heard \union (IF answer = "granted" THEN {<<"granted", ask.id, ScopesAsked, stated>>} ELSE {})
  BY DEF Permitted
<1>3. /\ ask'.at = next /\ ask'.seen = ask.seen /\ ask'.id = ask.id /\ ask'.permission = answer
      /\ ask'.declared = ask.declared /\ ask'.binding = ask.binding
      /\ ask' = [f \in CallFields |-> ask'[f]]
  BY <1>1, <1>2 DEF CallFields
<1>4. next = "decide fallback" => ask.declared = ask.binding.fallback.described
  BY <1>1 DEF CallInv, Replacing
<1>5. ScopesAsked' = ScopesAsked
  BY <1>3 DEF ScopesAsked
<1>6. ask.seen = "available" => <<"available", ask.id>> \in heard
  BY <1>1 DEF CallInv
<1>7. ask.seen \in {"available", "unavailable", "unknown"}
  BY <1>1 DEF CallInv
<1>8. ask'.permission = "granted" => <<"granted", ask'.id, ScopesAsked', stated>> \in heard'
  BY <1>2, <1>3, <1>5
<1>9. ask'.seen = "available" => <<"available", ask'.id>> \in heard'
  BY <1>2, <1>3, <1>6
<1>10. \A r \in invoked' : Covered(r)
  BY <1>2 DEF CallInv
<1> QED
  BY <1>3, <1>4, <1>7, <1>8, <1>9, <1>10 DEF CallInv, Judging, Replacing, Calling

LEMMA DecideCallKeeps == CallInv /\ DecideCall => CallInv'
<1> SUFFICES ASSUME CallInv, DecideCall PROVE CallInv'
  OBVIOUS
<1>1. ask.at = "decide" /\ ask # NotAsked /\ ask = [f \in CallFields |-> ask[f]]
  BY DEF DecideCall, CallInv, NotAsked
<1>2. CASE GiveUp
  BY <1>2, GiveUpKeeps
<1>3. CASE /\ ResolvedStatus = "resolved" /\ ask' = [ask EXCEPT !.at = "invoke"]
           /\ UNCHANGED <<registry, replaced, heard, invoked>>
  <2>1. /\ ~BreaksReadOnly(ask.declared, ScopesAsked) /\ ask.seen = "available" /\ ask.permission = "granted"
    BY <1>1, <1>3 DEF ResolvedStatus, CallInv, PermissionAnswers
  <2>2. /\ ask'.at = "invoke" /\ ask'.id = ask.id /\ ask'.declared = ask.declared /\ ask'.seen = ask.seen
        /\ ask'.binding = ask.binding /\ ask'.readOnly = ask.readOnly /\ ask'.permission = ask.permission
        /\ ask' = [f \in CallFields |-> ask'[f]]
    BY <1>1, <1>3 DEF CallFields
  <2>3. <<"available", ask.id>> \in heard /\ \E stated : <<"granted", ask.id, ScopesAsked, stated>> \in heard
    BY <1>1, <2>1 DEF CallInv
  <2>4. /\ Request'.id = ask.id /\ Request'.heard = heard /\ Request'.readOnly = ask.readOnly
        /\ Judged(Request') = ask.declared /\ Request'.binding = ask.binding
    BY <1>3, <2>2 DEF Request, Judged
  <2>5. Covered(Request')
    BY <2>1, <2>3, <2>4 DEF Covered, Seen, ScopesAsked, BreaksReadOnly
  <2>6. Covered(Request)'
    BY <2>5 DEF Covered, Seen, Judged
  <2>7. ask'.seen \in {"available", "unavailable", "unknown"} /\ ask'.permission \in PermissionAnswers
    BY <1>1, <2>2 DEF CallInv
  <2>8. \A r \in invoked' : Covered(r)
    BY <1>3 DEF CallInv
  <2> QED
    BY <2>2, <2>6, <2>7, <2>8 DEF CallInv, Judging, Replacing, Calling, Covered, Seen, Judged
<1>4. CASE /\ ask' = [ask EXCEPT !.at = "discover fallback", !.id = ask.binding.fallback.id,
                                 !.declared = ask.binding.fallback.described]
           /\ UNCHANGED <<registry, replaced, heard, invoked>>
  <2>1. /\ ask'.at = "discover fallback" /\ ask'.declared = ask.binding.fallback.described
        /\ ask'.binding = ask.binding /\ ask'.permission = ask.permission /\ ask'.seen = ask.seen
        /\ ask' = [f \in CallFields |-> ask'[f]]
    BY <1>1, <1>4 DEF CallFields
  <2> QED
    BY <1>1, <1>4, <2>1 DEF CallInv, Judging, Replacing, Calling, Covered, Seen, Judged
<1> QED
  BY <1>2, <1>3, <1>4 DEF DecideCall

LEMMA DecideFallbackKeeps == CallInv /\ DecideFallback => CallInv'
<1> SUFFICES ASSUME CallInv, DecideFallback PROVE CallInv'
  OBVIOUS
<1>1. ask.at = "decide fallback" /\ ask # NotAsked /\ ask = [f \in CallFields |-> ask[f]]
      /\ ask.declared = ask.binding.fallback.described
  <2>1. ask.at = "decide fallback"
    BY DEF DecideFallback
  <2> QED
    BY <2>1, UnderWay DEF CallInv, Replacing
<1>2. CASE GiveUp
  BY <1>2, GiveUpKeeps
<1>3. CASE /\ FallbackIsThere /\ ask.permission = "granted" /\ ~BreaksReadOnly(ask.declared, ScopesAsked)
           /\ ask' = [ask EXCEPT !.at = "invoke fallback", !.declared = registry[ask.id]]
           /\ UNCHANGED <<registry, replaced, heard, invoked>>
  <2>1. /\ ask'.at = "invoke fallback" /\ ask'.id = ask.id /\ ask'.seen = ask.seen
        /\ ask'.binding = ask.binding /\ ask'.readOnly = ask.readOnly /\ ask'.permission = ask.permission
        /\ ask' = [f \in CallFields |-> ask'[f]]
    BY <1>1, <1>3 DEF CallFields
  <2>2. /\ ask.seen = "available" => <<"available", ask.id>> \in heard'
        /\ \E stated : <<"granted", ask.id, ScopesAsked, stated>> \in heard'
    BY <1>1, <1>3 DEF CallInv
  <2>3. /\ Request'.id = ask.id /\ Request'.heard = heard' /\ Request'.readOnly = ask.readOnly
        /\ Judged(Request') = ask.declared /\ Request'.binding = ask.binding /\ Request'.fellBack
    BY <1>1, <1>3, <2>1 DEF Request, Judged
  <2>8. Seen(Request')
    BY <1>3, <2>2, <2>3 DEF Seen, FallbackIsThere
  <2>4. Covered(Request')
    BY <1>3, <2>2, <2>3, <2>8 DEF Covered, ScopesAsked, BreaksReadOnly
  <2>5. Covered(Request)'
    BY <2>4 DEF Covered, Seen, Judged
  <2>6. ask'.seen \in {"available", "unavailable", "unknown"} /\ ask'.permission \in PermissionAnswers
    BY <1>1, <2>1 DEF CallInv
  <2>7. \A r \in invoked' : Covered(r)
    BY <1>3 DEF CallInv
  <2> QED
    BY <2>1, <2>5, <2>6, <2>7 DEF CallInv, Judging, Replacing, Calling, Covered, Seen, Judged
<1> QED
  BY <1>2, <1>3 DEF DecideFallback

LEMMA InvokeHostKeeps == CallInv /\ InvokeHost => CallInv'
<1> SUFFICES ASSUME CallInv, InvokeHost PROVE CallInv'
  OBVIOUS
<1>1. /\ ask.at \in Calling /\ ask # NotAsked /\ ask = [f \in CallFields |-> ask[f]]
      /\ invoked' = invoked \union {Request} /\ ask' = [ask EXCEPT !.at = "receive"]
  <2>1. ask.at \in Calling
    BY DEF InvokeHost, Calling
  <2>2. ask # NotAsked /\ ask = [f \in CallFields |-> ask[f]]
    BY <2>1, UnderWay DEF Calling
  <2> QED
    BY <2>1, <2>2 DEF InvokeHost, Request
<1>2. /\ ask'.at = "receive" /\ ask'.seen = ask.seen /\ ask'.permission = ask.permission
      /\ ask' = [f \in CallFields |-> ask'[f]]
  BY <1>1 DEF CallFields
<1>3. \A r \in invoked' : Covered(r)
  BY <1>1 DEF CallInv
<1> QED
  BY <1>1, <1>2, <1>3 DEF CallInv, Judging, Replacing, Calling

LEMMA NextCall == CallInv /\ [CapabilityNext]_capabilityVars => CallInv'
<1> SUFFICES ASSUME CallInv, [CapabilityNext]_capabilityVars PROVE CallInv'
  OBVIOUS
<1>1. CASE UNCHANGED <<ask, heard, invoked>>
  <2>1. Request' = Request /\ ScopesAsked' = ScopesAsked
    BY <1>1 DEF Request, ScopesAsked
  <2>2. \A r : Covered(r)' <=> Covered(r)
    BY DEF Covered, Seen, Judged
  <2> QED
    BY <1>1, <2>1, <2>2 DEF CallInv
<1>2. ASSUME NEW id, NEW d, Register(id, d) PROVE CallInv'
  BY <1>1, <1>2 DEF Register
<1>3. ASSUME NEW b, NEW readOnly, NEW mayFallBack, BeginCall(b, readOnly, mayFallBack) PROVE CallInv'
  <2>1. ask'.at = "discover" /\ ask'.seen = "unknown" /\ ask'.permission = "unknown"
        /\ ask' = [f \in CallFields |-> ask'[f]] /\ invoked' = invoked
    BY <1>3 DEF BeginCall, CallFields
  <2> QED
    BY <2>1 DEF CallInv, PermissionAnswers, Judging, Replacing, Calling
<1>4. CASE EndCall
  BY <1>4, GiveUpKeeps DEF EndCall
<1>5. CASE UNCHANGED capabilityVars
  BY <1>1, <1>5 DEF capabilityVars
<1> QED
  BY <1>2, <1>3, <1>4, <1>5, DiscoveredKeeps, PermittedKeeps, DecideCallKeeps, DecideFallbackKeeps,
     InvokeHostKeeps DEF CapabilityNext

\* For any capabilities, declarations, bindings and replacements in between, the
\* host runs a capability only when, in the same invocation, it was seen and the
\* permission asked for all scopes it was judged by was answered "granted"
\* (resolve, invoke).
THEOREM GrantedFirst == CapabilitySpec => []NothingRunsUngranted
<1>1. CallInv => NothingRunsUngranted
  BY DEF CallInv, NothingRunsUngranted, Covered
<1> QED
  BY <1>1, InitCall, NextCall, PTL DEF CapabilitySpec

-----------------------------------------------------------------------------
(* ThreadStream: what was folded is what the events say                      *)

StreamSpec == StreamInit /\ [][StreamNext]_streamVars

FoldFields == {"model", "reroutes", "started", "completed"}

\* The one followed event of a method, as it was folded, or none.
ToldOnce(method, turn) ==
  IF turn = NoTurn THEN \A i \in Told : events[i].method # method
  ELSE /\ turn.at # 0
       /\ \E i \in Told : /\ events[i].method = method /\ events[i].turn = turn.turn /\ events[i].at = turn.at
                          /\ \A j \in Told : events[j].method = method => j = i

\* The model is where the last reroute led.
ModelTold(model) ==
  IF Hops = {} THEN model = StartModel
  ELSE \E k \in Hops : model = events[k].to /\ \A h \in Hops : h <= k

StreamInv ==
  /\ events \in Seq(StreamEvents)
  /\ folded = [f \in FoldFields |-> folded[f]]
  /\ outcome \in {"reading", "raised", "assembled"}
  /\ outcome # "raised" =>
       /\ ToldOnce("turn/started", folded.started) /\ ToldOnce("turn/completed", folded.completed)
       /\ \A i, j \in Told : events[i].method = "turn/started" /\ events[j].method = "turn/completed" => i < j
       /\ ModelTold(folded.model)
  /\ outcome = "assembled" =>
       /\ receipt.status = "completed" => ValidEvidence
       /\ receipt.modelReceipt = "real" => receipt.model = folded.model

LEMMA InitStream == StreamInit => StreamInv
<1> SUFFICES ASSUME StreamInit PROVE StreamInv
  OBVIOUS
<1>1. Told = {} /\ Hops = {}
  BY DEF StreamInit, Told, Hops
<1> QED
  BY <1>1 DEF StreamInit, StreamInv, FoldFields, ToldOnce, ModelTold

\* What the next event adds.
LEMMA OneMore ==
  ASSUME StreamInv, NEW e \in StreamEvents, ReadEvent(e)
  PROVE  LET n == Len(events) + 1 IN
         /\ outcome = "reading" /\ events' \in Seq(StreamEvents) /\ n \in Nat /\ n \notin Told
         /\ \A i \in Told : i \in Nat /\ i < n /\ events'[i] = events[i]
         /\ events'[n] = e
         /\ Told' = IF Followed(e) THEN Told \union {n} ELSE Told
         /\ Hops' = IF Followed(e) /\ e.method = "model/rerouted" THEN Hops \union {n} ELSE Hops
<1> DEFINE n == Len(events) + 1
<1>1. /\ events \in Seq(StreamEvents) /\ events' = Append(events, e) /\ outcome = "reading"
  BY DEF StreamInv, ReadEvent
<1>2. /\ n \in Nat /\ DOMAIN events = 1 .. Len(events) /\ DOMAIN events' = 1 .. n /\ Len(events) \in Nat
      /\ events' \in Seq(StreamEvents) /\ events'[n] = e
      /\ \A i \in DOMAIN events : events'[i] = events[i]
  BY <1>1
<1>3. DOMAIN events' = DOMAIN events \union {n} /\ n \notin DOMAIN events
  BY <1>2
<1>4. \A i \in Told : i \in Nat /\ i < n /\ events'[i] = events[i]
  BY <1>2 DEF Told
<1> HIDE DEF n
<1>5. Told' = IF Followed(e) THEN Told \union {n} ELSE Told
  BY <1>2, <1>3 DEF Told, Followed, Ours
<1>6. Hops' = IF Followed(e) /\ e.method = "model/rerouted" THEN Hops \union {n} ELSE Hops
  BY <1>2, <1>3, <1>4, <1>5 DEF Hops, Told
<1> QED
  BY <1>1, <1>2, <1>3, <1>4, <1>5, <1>6 DEF n, Told

\* An event of another method changes nothing that was told of this one.
LEMMA OtherMethod ==
  ASSUME StreamInv, NEW e \in StreamEvents, ReadEvent(e), NEW method, NEW turn,
         ToldOnce(method, turn), Followed(e) => e.method # method
  PROVE  /\ (\A i \in Told' : events'[i].method = method => i \in Told)
         /\ turn = NoTurn => \A i \in Told' : events'[i].method # method
         /\ turn # NoTurn =>
              /\ turn.at # 0
              /\ \E i \in Told' : /\ events'[i].method = method /\ events'[i].turn = turn.turn /\ events'[i].at = turn.at
                                  /\ \A j \in Told' : events'[j].method = method => j = i
<1>1. \A i \in Told' : events'[i].method = method => i \in Told
  BY OneMore
<1>2. Told \subseteq Told' /\ \A i \in Told : events'[i] = events[i]
  BY OneMore
<1> QED
  BY <1>1, <1>2 DEF ToldOnce

\* The first event of its method.
LEMMA FirstOfMethod ==
  ASSUME StreamInv, NEW e \in StreamEvents, ReadEvent(e), NEW method,
         ToldOnce(method, NoTurn), Followed(e), e.method = method
  PROVE  \A j \in Told' : events'[j].method = method <=> j = Len(events) + 1
BY OneMore DEF ToldOnce

LEMMA FoldKeeps ==
  ASSUME StreamInv, NEW e \in StreamEvents, SkipEvent(e) \/ ModelRerouted(e) \/ TurnStarted(e) \/ TurnCompleted(e)
  PROVE  StreamInv'
<1> DEFINE n == Len(events) + 1
<1>0. ReadEvent(e) /\ outcome = "reading" /\ events' \in Seq(StreamEvents)
  BY OneMore DEF SkipEvent, ModelRerouted, TurnStarted, TurnCompleted
<1>1. outcome' = "raised" \/ outcome' = "reading"
  BY <1>0 DEF SkipEvent, ModelRerouted, TurnStarted, TurnCompleted, RaiseOnEvent, FoldTo
<1>2. folded' = [f \in FoldFields |-> folded'[f]]
  BY DEF SkipEvent, ModelRerouted, TurnStarted, TurnCompleted, RaiseOnEvent, FoldTo, FoldFields, StreamInv
<1>3. CASE outcome' = "raised"
  BY <1>0, <1>2, <1>3 DEF StreamInv
<1>4. ASSUME outcome' = "reading",
             ToldOnce("turn/started", folded.started)', ToldOnce("turn/completed", folded.completed)',
             \A i, j \in Told' : events'[i].method = "turn/started" /\ events'[j].method = "turn/completed" => i < j,
             ModelTold(folded.model)'
      PROVE  StreamInv'
  BY <1>0, <1>2, <1>4 DEF StreamInv
<1>5. /\ ToldOnce("turn/started", folded.started) /\ ToldOnce("turn/completed", folded.completed)
      /\ \A i, j \in Told : events[i].method = "turn/started" /\ events[j].method = "turn/completed" => i < j
      /\ ModelTold(folded.model)
  BY <1>0 DEF StreamInv
<1>6. ASSUME folded'.started = folded.started, Followed(e) => e.method # "turn/started"
      PROVE  ToldOnce("turn/started", folded.started)'
             /\ \A i \in Told' : events'[i].method = "turn/started" => i \in Told
  <2>1. ToldOnce("turn/started", folded.started)
    BY <1>5
  <2>2. /\ (\A i \in Told' : events'[i].method = "turn/started" => i \in Told)
        /\ folded.started = NoTurn => \A i \in Told' : events'[i].method # "turn/started"
        /\ folded.started # NoTurn =>
             /\ folded.started.at # 0
             /\ \E i \in Told' : /\ events'[i].method = "turn/started"
                                 /\ events'[i].turn = folded.started.turn /\ events'[i].at = folded.started.at
                                 /\ \A j \in Told' : events'[j].method = "turn/started" => j = i
    BY <1>0, <1>6, <2>1, OtherMethod
  <2>3. ToldOnce("turn/started", folded.started)'
    BY <1>6, <2>2 DEF ToldOnce, NoTurn
  <2> QED
    BY <2>2, <2>3
<1>7. ASSUME folded'.completed = folded.completed, Followed(e) => e.method # "turn/completed"
      PROVE  ToldOnce("turn/completed", folded.completed)'
             /\ \A i \in Told' : events'[i].method = "turn/completed" => i \in Told
  <2>1. ToldOnce("turn/completed", folded.completed)
    BY <1>5
  <2>2. /\ (\A i \in Told' : events'[i].method = "turn/completed" => i \in Told)
        /\ folded.completed = NoTurn => \A i \in Told' : events'[i].method # "turn/completed"
        /\ folded.completed # NoTurn =>
             /\ folded.completed.at # 0
             /\ \E i \in Told' : /\ events'[i].method = "turn/completed"
                                 /\ events'[i].turn = folded.completed.turn /\ events'[i].at = folded.completed.at
                                 /\ \A j \in Told' : events'[j].method = "turn/completed" => j = i
    BY <1>0, <1>7, <2>1, OtherMethod
  <2>3. ToldOnce("turn/completed", folded.completed)'
    BY <1>7, <2>2 DEF ToldOnce, NoTurn
  <2> QED
    BY <2>2, <2>3
<1>8. ASSUME folded'.model = folded.model, Followed(e) => e.method # "model/rerouted"
      PROVE  ModelTold(folded.model)'
  <2>1. Hops' = Hops /\ \A k \in Hops : events'[k] = events[k]
    BY <1>0, <1>8, OneMore DEF Hops
  <2> QED
    BY <1>5, <1>8, <2>1 DEF ModelTold
<1>9. ASSUME \A i \in Told' : events'[i].method = "turn/started" => i \in Told,
             \A i \in Told' : events'[i].method = "turn/completed" => i \in Told
      PROVE  \A i, j \in Told' : events'[i].method = "turn/started" /\ events'[j].method = "turn/completed" => i < j
  <2>1. \A i \in Told : events'[i] = events[i]
    BY <1>0, OneMore
  <2> QED
    BY <1>5, <1>9, <2>1
<1>10. CASE SkipEvent(e)
  BY <1>0, <1>4, <1>6, <1>7, <1>8, <1>9, <1>10 DEF SkipEvent
<1>11. CASE ModelRerouted(e) /\ outcome' = "reading"
  <2>1. Followed(e) /\ e.method = "model/rerouted" /\ folded'.model = e.to
        /\ folded'.started = folded.started /\ folded'.completed = folded.completed
    BY <1>11, <1>5 DEF ModelRerouted, FoldTo, RaiseOnEvent, Followed, StreamInv, FoldFields
  <2>2. Hops' = Hops \union {n} /\ events'[n] = e /\ \A h \in Hops : h \in Nat /\ h < n
    BY <1>0, <2>1, OneMore DEF Hops
  <2>3. n \in Nat
    BY <1>0, OneMore
  <2> HIDE DEF n
  <2>4. ModelTold(folded.model)'
    BY <2>1, <2>2, <2>3 DEF ModelTold
  <2> QED
    BY <1>4, <1>6, <1>7, <1>9, <1>11, <2>1, <2>4
<1>12. CASE TurnStarted(e) /\ outcome' = "reading"
  <2>1. /\ Followed(e) /\ e.method = "turn/started" /\ e.at # 0
        /\ folded.started = NoTurn /\ folded.completed = NoTurn
        /\ folded'.started = [turn |-> e.turn, at |-> e.at]
        /\ folded'.model = folded.model /\ folded'.completed = folded.completed
    BY <1>12 DEF TurnStarted, FoldTo, RaiseOnEvent, Followed, StreamInv, FoldFields
  <2>2. n \in Told' /\ events'[n] = e
    BY <1>0, <2>1, OneMore
  <2>3. \A j \in Told' : events'[j].method = "turn/started" <=> j = n
    BY <1>0, <1>5, <2>1, FirstOfMethod
  <2> HIDE DEF n
  <2>4. folded'.started # NoTurn /\ folded'.started.at = e.at /\ folded'.started.turn = e.turn
    BY <2>1 DEF NoTurn
  <2>5. ToldOnce("turn/started", folded.started)'
    BY <2>1, <2>2, <2>3, <2>4 DEF ToldOnce, NoTurn
  <2>6. \A j \in Told' : events'[j].method # "turn/completed"
    BY <1>0, <1>5, <2>1, OtherMethod
  <2> QED
    BY <1>4, <1>7, <1>8, <1>12, <2>1, <2>5, <2>6
<1>13. CASE TurnCompleted(e) /\ outcome' = "reading"
  <2>1. /\ Followed(e) /\ e.method = "turn/completed" /\ e.at # 0
        /\ folded.completed = NoTurn
        /\ folded'.completed = [turn |-> e.turn, at |-> e.at]
        /\ folded'.model = folded.model /\ folded'.started = folded.started
    BY <1>13 DEF TurnCompleted, FoldTo, RaiseOnEvent, Followed, StreamInv, FoldFields
  <2>2. n \in Told' /\ events'[n] = e /\ \A i \in Told : i < n
    BY <1>0, <2>1, OneMore
  <2>3. \A j \in Told' : events'[j].method = "turn/completed" <=> j = n
    BY <1>0, <1>5, <2>1, FirstOfMethod
  <2> HIDE DEF n
  <2>4. folded'.completed # NoTurn /\ folded'.completed.at = e.at /\ folded'.completed.turn = e.turn
    BY <2>1 DEF NoTurn
  <2>5. ToldOnce("turn/completed", folded.completed)'
    BY <2>1, <2>2, <2>3, <2>4 DEF ToldOnce, NoTurn
  <2> QED
    BY <1>4, <1>6, <1>8, <1>13, <2>1, <2>2, <2>3, <2>5
<1> QED
  BY <1>1, <1>3, <1>10, <1>11, <1>12, <1>13

LEMMA NextStream == StreamInv /\ [StreamNext]_streamVars => StreamInv'
<1> SUFFICES ASSUME StreamInv, [StreamNext]_streamVars PROVE StreamInv'
  OBVIOUS
<1>0. ASSUME UNCHANGED <<events, folded>> PROVE Told' = Told /\ Hops' = Hops /\ (ValidEvidence' <=> ValidEvidence)
  BY <1>0 DEF Told, Hops, Followed, Ours, ValidEvidence, ResolvedRoute, ValidObservedAt
<1>1. CASE UNCHANGED streamVars
  BY <1>0, <1>1 DEF streamVars, StreamInv, ToldOnce, ModelTold
<1>2. CASE AssembleReceipt
  <2>1. UNCHANGED <<events, folded>> /\ outcome = "reading" /\ outcome' = "assembled"
    BY <1>2 DEF AssembleReceipt
  <2>2. receipt'.status = "completed" => ValidEvidence
    BY <1>2 DEF AssembleReceipt
  <2>3. receipt'.modelReceipt = "real" => receipt'.model = folded.model
    BY <1>2 DEF AssembleReceipt
  <2> QED
    BY <1>0, <2>1, <2>2, <2>3 DEF StreamInv, ToldOnce, ModelTold
<1> QED
  BY <1>1, <1>2, FoldKeeps DEF StreamNext

\* For any stream of any length: a receipt that says completed saw one turn of
\* its thread begin and that turn end, later and with nothing but reroutes
\* besides, and a model called real is where the last of them led
\* (assemble_app_server_receipt, valid_app_server_route_evidence).
THEOREM StreamTold == StreamSpec => []CompletedTellsTheStream
<1>1. StreamInv => CompletedTellsTheStream
  <2> SUFFICES ASSUME StreamInv, outcome = "assembled", receipt.status = "completed"
               PROVE  CompletedTellsTheStream
    BY DEF CompletedTellsTheStream
  <2>1. ValidEvidence /\ ModelTold(folded.model)
    BY DEF StreamInv
  <2>2. PICK i \in Told : /\ events[i].method = "turn/started" /\ events[i].turn = folded.started.turn
                          /\ events[i].at = folded.started.at
                          /\ \A k \in Told : events[k].method = "turn/started" => k = i
    BY <2>1 DEF StreamInv, ToldOnce, ValidEvidence
  <2>3. PICK j \in Told : /\ events[j].method = "turn/completed" /\ events[j].turn = folded.completed.turn
                          /\ events[j].at = folded.completed.at
                          /\ \A k \in Told : events[k].method = "turn/completed" => k = j
    BY <2>1 DEF StreamInv, ToldOnce, ValidEvidence
  <2>4. i < j /\ events[i].turn = events[j].turn
    BY <2>1, <2>2, <2>3 DEF StreamInv, ValidEvidence
  <2>5. events[i].at <= events[j].at
    <3>1. events[i] \in StreamEvents /\ events[j] \in StreamEvents
      BY DEF StreamInv, Told
    <3>2. events[i].at \in Nat /\ events[j].at \in Nat
      BY <3>1, EventsAreTimed
    <3> QED
      BY <2>1, <2>2, <2>3, <3>2 DEF ValidEvidence
  <2>6. Told = Hops \union {i, j}
    BY <2>2, <2>3 DEF Told, Hops, Followed
  <2>7. receipt.modelReceipt = "real" => ModelTold(receipt.model)
    BY <2>1 DEF StreamInv
  <2> QED
    BY <2>2, <2>3, <2>4, <2>5, <2>6, <2>7 DEF CompletedTellsTheStream, ModelTold
<1> QED
  BY <1>1, InitStream, NextStream, PTL DEF StreamSpec
=============================================================================
