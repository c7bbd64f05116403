---------------------------- MODULE Webhook_proofs ----------------------------
(***************************************************************************)
(* Theorems about Webhook, for every value of its constants.               *)
(***************************************************************************)
EXTENDS Webhook, SequenceTheorems, TLAPS

(***************************************************************************)
(* The inductive invariant.  A delivery in retry has an attempt left; a    *)
(* delivery that has not arrived was never received under its key, unless  *)
(* an earlier one was purged; and a running loop works on what it may.     *)
(***************************************************************************)
TargetOf(d) == <<d.endpoint, d.key>>

DeliveriesOK ==
    \A i \in DOMAIN deliveries :
        /\ deliveries[i].endpoint \in DOMAIN endpoints
        /\ TargetOf(deliveries[i]) \in remembered
        /\ deliveries[i].attempts > 0
        /\ deliveries[i].status = "RETRYING" => deliveries[i].attempts < MaxAttempts
        /\ deliveries[i].status \in Settled => deliveries[i].wait = 0

OnePerTarget ==
    \A i, j \in DOMAIN deliveries :
        TargetOf(deliveries[i]) = TargetOf(deliveries[j]) => i = j

ReceiptsOK ==
    /\ \A i \in DOMAIN deliveries :
          deliveries[i].status # "DELIVERED" =>
             received[TargetOf(deliveries[i])] = 0 \/ TargetOf(deliveries[i]) \in purged
    /\ \A t \in Targets \X Uuids :
          received[t] > 0 => \/ t \in purged
                             \/ \E i \in DOMAIN deliveries : TargetOf(deliveries[i]) = t

WorkOK ==
    /\ work.by = "dispatch" => \A e \in work.todo : e \in DOMAIN endpoints /\ Eligible(e)
    /\ work.by = "retry" => \A i \in work.todo : i \in DOMAIN deliveries /\ Due(deliveries[i])

IInv == /\ TypeOK /\ BreakerFollowsResults /\ ReceivedOnceWhileKept
        /\ DeliveriesOK /\ OnePerTarget /\ ReceiptsOK /\ WorkOK

-----------------------------------------------------------------------------
(* Sequences *)

LEMMA DomainOf ==
    ASSUME NEW S, NEW s \in Seq(S)
    PROVE  /\ DOMAIN s = 1 .. Len(s) /\ Len(s) \in Nat
           /\ \A i \in DOMAIN s : s[i] \in S
  BY LenProperties, ElementOfSeq

LEMMA Appended ==
    ASSUME NEW S, NEW s \in Seq(S), NEW e \in S
    PROVE  /\ Append(s, e) \in Seq(S)
           /\ Len(Append(s, e)) = Len(s) + 1
           /\ DOMAIN Append(s, e) = DOMAIN s \cup {Len(s) + 1}
           /\ Len(s) + 1 \notin DOMAIN s
           /\ \A i \in DOMAIN s : Append(s, e)[i] = s[i]
           /\ Append(s, e)[Len(s) + 1] = e
<1>1. /\ Append(s, e) \in Seq(S)
      /\ Len(Append(s, e)) = Len(s) + 1
      /\ \A i \in 1 .. Len(s) : Append(s, e)[i] = s[i]
      /\ Append(s, e)[Len(s) + 1] = e
  OBVIOUS
<1>2. /\ DOMAIN s = 1 .. Len(s) /\ Len(s) \in Nat
      /\ DOMAIN Append(s, e) = 1 .. Len(s) + 1
  BY <1>1
<1>3. 1 .. Len(s) + 1 = (1 .. Len(s)) \cup {Len(s) + 1}
  BY <1>2
<1> QED
  BY <1>1, <1>2, <1>3

LEMMA Updated ==
    ASSUME NEW S, NEW s \in Seq(S), NEW i \in DOMAIN s, NEW e \in S
    PROVE  /\ [s EXCEPT ![i] = e] \in Seq(S)
           /\ DOMAIN [s EXCEPT ![i] = e] = DOMAIN s
           /\ Len([s EXCEPT ![i] = e]) = Len(s)
           /\ [s EXCEPT ![i] = e][i] = e
           /\ \A j \in DOMAIN s : j # i => [s EXCEPT ![i] = e][j] = s[j]
<1>1. DOMAIN s = 1 .. Len(s)
  BY LenProperties
<1> QED
  BY <1>1, ExceptSeq

LEMMA Suffix ==
    ASSUME NEW S, NEW s \in Seq(S), NEW n \in DOMAIN s
    PROVE  LET t == SubSeq(s, n + 1, Len(s))
           IN  /\ t \in Seq(S) /\ Len(t) = Len(s) - n
               /\ DOMAIN t = 1 .. Len(s) - n
               /\ \A i \in DOMAIN t : i + n \in DOMAIN s /\ t[i] = s[i + n]
<1> DEFINE t == SubSeq(s, n + 1, Len(s))
<1>1. DOMAIN s = 1 .. Len(s) /\ Len(s) \in Nat
  BY LenProperties
<1>2. /\ t \in Seq(S)
      /\ Len(t) = Len(s) - n
      /\ \A i \in 1 .. Len(s) - n : t[i] = s[i + n]
  BY <1>1
<1>3. DOMAIN t = 1 .. Len(t)
  BY <1>2, LenProperties
<1> QED
  BY <1>1, <1>2, <1>3

-----------------------------------------------------------------------------
(* One attempt *)

Attemptable == [endpoint : Targets, key : Uuids, signature : Secrets,
                status : {"PENDING", "RETRYING"}, attempts : 0 .. MaxAttempts - 1,
                wait : {0}]

LEMMA AttemptShape ==
    ASSUME NEW d \in Attemptable, NEW simulate
    PROVE  LET a == Attempted(d, simulate)
           IN  /\ a \in Deliveries
               /\ TargetOf(a) = TargetOf(d) /\ a.endpoint = d.endpoint
               /\ a.attempts = d.attempts + 1
               /\ a.status = "RETRYING" => a.attempts < MaxAttempts
               /\ a.status \in Settled => a.wait = 0
<1> DEFINE a == Attempted(d, simulate)
           n == d.attempts + 1
<1>1. /\ MaxAttempts \in Nat /\ RetryDelay \in Nat
      /\ d.attempts \in 0 .. MaxAttempts - 1 /\ n \in 1 .. MaxAttempts
      /\ d.endpoint \in 1 .. MaxEndpoints /\ d.key \in Uuids /\ d.signature \in Secrets
      /\ d.wait = 0
      /\ d = [endpoint |-> d.endpoint, key |-> d.key, signature |-> d.signature,
              status |-> d.status, attempts |-> d.attempts, wait |-> d.wait]
  BY WebhookAssumption DEF Attemptable, Targets
<1> DEFINE Result(status, wait) ==
        [endpoint |-> d.endpoint, key |-> d.key, signature |-> d.signature,
         status |-> status, attempts |-> n, wait |-> wait]
<1>2. \/ a = Result("FAILED", 0)
      \/ a = Result("DELIVERED", 0)
      \/ n < MaxAttempts /\ a = Result("RETRYING", RetryDelay)
  BY <1>1 DEF Attempted
<1>3. /\ 0 \in 0 .. RetryDelay /\ RetryDelay \in 0 .. RetryDelay
      /\ n \in 0 .. MaxAttempts
  BY <1>1
<1> QED
  BY <1>1, <1>2, <1>3 DEF Deliveries, Settled, TargetOf

LEMMA NoteKeepsBreaker ==
    ASSUME circuit \in Circuits, streak \in 0 .. Threshold, BreakerFollowsResults,
           NEW d, Note(d)
    PROVE  circuit' \in Circuits /\ streak' \in 0 .. Threshold /\ BreakerFollowsResults'
<1>1. CASE d.status = "DELIVERED"
  BY <1>1, WebhookAssumption DEF Note, Noted, Closed, Circuits, BreakerFollowsResults
<1>2. CASE d.status # "DELIVERED"
  <2> DEFINE failures == IF circuit.failures < Threshold THEN circuit.failures + 1 ELSE Threshold
  <2>1. /\ streak' = IF streak < Threshold THEN streak + 1 ELSE streak
        /\ circuit' = IF failures = Threshold \/ circuit.state = "HALF_OPEN"
                      THEN [state |-> "OPEN", failures |-> failures, cooling |-> Cooldown]
                      ELSE [circuit EXCEPT !.failures = failures]
    BY <1>2 DEF Note, Noted
  <2>2. CASE failures = Threshold \/ circuit.state = "HALF_OPEN"
    BY <2>1, <2>2, WebhookAssumption DEF Circuits, BreakerFollowsResults
  <2>3. CASE ~(failures = Threshold \/ circuit.state = "HALF_OPEN")
    <3>1. circuit' = [circuit EXCEPT !.failures = failures]
      BY <2>1, <2>3
    <3> QED
      BY <3>1, <2>1, <2>3, WebhookAssumption DEF Circuits, BreakerFollowsResults
  <2> QED
    BY <2>2, <2>3
<1> QED
  BY <1>1, <1>2

LEMMA NoteCounts ==
    ASSUME received \in [Targets \X Uuids -> 0 .. 2],
           NEW d \in Deliveries, Note(d)
    PROVE  /\ received' \in [Targets \X Uuids -> 0 .. 2]
           /\ d.status # "DELIVERED" => received' = received
           /\ \A t \in Targets \X Uuids : t # TargetOf(d) => received'[t] = received[t]
           /\ received'[TargetOf(d)] <= received[TargetOf(d)] + 1
<1>1. TargetOf(d) \in Targets \X Uuids
  BY DEF Deliveries, TargetOf, Targets
<1> QED
  BY <1>1 DEF Note, TargetOf

-----------------------------------------------------------------------------
(* Initially *)

LEMMA InitInvariant == Init => IInv
<1> SUFFICES ASSUME Init PROVE IInv
  OBVIOUS
<1>1. endpoints = <<>> /\ deliveries = <<>> /\ work = NoWork
  BY DEF Init
<1>2. TypeOK
  <2>1. circuit \in Circuits /\ window \in [left : 0 .. Window, count : 0 .. Limit + 1]
    BY WebhookAssumption DEF Init, Closed, Circuits
  <2>2. work \in Works
    BY <1>1 DEF Works
  <2> QED
    BY <2>1, <2>2, WebhookAssumption DEF Init, TypeOK
<1>3. BreakerFollowsResults /\ ReceivedOnceWhileKept
  BY WebhookAssumption DEF Init, Closed, BreakerFollowsResults, ReceivedOnceWhileKept
<1>4. DOMAIN deliveries = {}
  BY <1>1
<1>5. ReceiptsOK
  BY <1>4 DEF Init, ReceiptsOK
<1> QED
  BY <1>1, <1>2, <1>3, <1>4, <1>5 DEF IInv, DeliveriesOK, OnePerTarget, WorkOK, NoWork

-----------------------------------------------------------------------------
(* Registration and control *)

LEMMA SetupKeeps ==
    ASSUME IInv, Idle,
           endpoints' \in Seq(Settings), Len(endpoints') <= MaxEndpoints,
           DOMAIN endpoints \subseteq DOMAIN endpoints',
           clients' \in [Clients -> {"absent", "active", "killed"}],
           UNCHANGED <<traffic, window, work, purged>>
    PROVE  IInv'
<1>1. TypeOK'
  BY DEF IInv, TypeOK, traffic
<1>2. BreakerFollowsResults' /\ ReceivedOnceWhileKept'
  BY DEF IInv, BreakerFollowsResults, ReceivedOnceWhileKept, traffic
<1>3. DeliveriesOK' /\ OnePerTarget' /\ ReceiptsOK'
  BY DEF IInv, DeliveriesOK, OnePerTarget, ReceiptsOK, TargetOf, traffic
<1>4. WorkOK'
  BY DEF Idle, NoWork, WorkOK
<1> QED
  BY <1>1, <1>2, <1>3, <1>4 DEF IInv

LEMMA ControlStep ==
    ASSUME IInv,
           \/ RegisterEndpoint
           \/ \E e \in DOMAIN endpoints : UpdateEndpoint(e)
           \/ \E c \in Clients : CreateClient(c) \/ \E enabled \in BOOLEAN : SetKillSwitch(c, enabled)
    PROVE  IInv'
<1>1. endpoints \in Seq(Settings) /\ Len(endpoints) <= MaxEndpoints
  BY DEF IInv, TypeOK
<1>2. clients \in [Clients -> {"absent", "active", "killed"}]
  BY DEF IInv, TypeOK
<1>3. CASE RegisterEndpoint
  <2>1. PICK settings \in Settings : endpoints' = Append(endpoints, settings)
    BY <1>3, WebhookAssumption DEF RegisterEndpoint
  <2>2. Len(endpoints') <= MaxEndpoints
    BY <1>1, <1>3, <2>1, Appended, DomainOf, WebhookAssumption DEF RegisterEndpoint
  <2> QED
    BY <1>1, <1>2, <1>3, <2>1, <2>2, Appended, SetupKeeps DEF RegisterEndpoint, setup
<1>4. CASE \E e \in DOMAIN endpoints : UpdateEndpoint(e)
  <2>1. PICK e \in DOMAIN endpoints, settings \in Settings :
            endpoints' = [endpoints EXCEPT ![e] = settings]
    BY <1>4, WebhookAssumption DEF UpdateEndpoint
  <2> QED
    BY <1>1, <1>2, <1>4, <2>1, Updated, SetupKeeps DEF UpdateEndpoint, setup
<1>5. CASE \E c \in Clients : CreateClient(c) \/ \E enabled \in BOOLEAN : SetKillSwitch(c, enabled)
  <2>1. /\ Idle
        /\ clients' \in [Clients -> {"absent", "active", "killed"}]
        /\ UNCHANGED <<endpoints, traffic, window, work, purged>>
    BY <1>2, <1>5 DEF CreateClient, SetKillSwitch
  <2> QED
    BY <1>1, <2>1, SetupKeeps
<1> QED
  BY <1>3, <1>4, <1>5

-----------------------------------------------------------------------------
(* Requests *)

LEMMA RequestKeeps ==
    ASSUME IInv,
           UNCHANGED <<setup, deliveries, remembered, streak, received, purged>>,
           window' \in [left : 0 .. Window, count : 0 .. Limit + 1],
           circuit' \in Circuits, BreakerFollowsResults',
           work' \in Works, WorkOK'
    PROVE  IInv'
<1>1. TypeOK'
  BY DEF IInv, TypeOK, setup
<1>2. ReceivedOnceWhileKept' /\ DeliveriesOK' /\ OnePerTarget' /\ ReceiptsOK'
  BY DEF IInv, ReceivedOnceWhileKept, DeliveriesOK, OnePerTarget, ReceiptsOK, TargetOf, setup
<1> QED
  BY <1>1, <1>2 DEF IInv

LEMMA CountedType ==
    ASSUME window \in [left : 0 .. Window, count : 0 .. Limit + 1]
    PROVE  Counted \in [left : 0 .. Window, count : 0 .. Limit + 1]
  BY WebhookAssumption DEF Counted

LEMMA AdmitKeepsBreaker ==
    ASSUME IInv, Admit
    PROVE  circuit' \in Circuits /\ BreakerFollowsResults'
<1>1. circuit' = Probed /\ streak' = streak
  BY DEF Admit
<1>2. circuit \in Circuits /\ streak \in 0 .. Threshold /\ BreakerFollowsResults
  BY DEF IInv, TypeOK
<1>3. CASE circuit.state = "OPEN"
  <2>1. circuit' = [state |-> "HALF_OPEN", failures |-> 0, cooling |-> 0]
    BY <1>1, <1>3 DEF Probed
  <2>2. streak = Threshold
    BY <1>2, <1>3, WebhookAssumption DEF BreakerFollowsResults
  <2> QED
    BY <1>1, <2>1, <2>2, WebhookAssumption DEF Circuits, BreakerFollowsResults
<1>4. CASE circuit.state # "OPEN"
  <2>1. circuit' = circuit
    BY <1>1, <1>4 DEF Probed
  <2> QED
    BY <1>1, <1>2, <2>1 DEF BreakerFollowsResults
<1> QED
  BY <1>3, <1>4

LEMMA RequestStep ==
    ASSUME IInv, (\E k \in Uuids : Dispatch(k)) \/ RetryDue \/ Refuse
    PROVE  IInv'
<1>1. window' = Counted /\ window' \in [left : 0 .. Window, count : 0 .. Limit + 1]
  BY CountedType DEF IInv, TypeOK, Dispatch, RetryDue, Refuse, Admit
<1>2. CASE \E k \in Uuids : Dispatch(k)
  <2>1. PICK k \in Uuids : Dispatch(k)
    BY <1>2
  <2>2. PICK addressed \in SUBSET DOMAIN endpoints, simulate \in BOOLEAN :
            LET todo == {e \in addressed : Eligible(e)}
            IN  work' = IF todo = {} THEN NoWork
                        ELSE [by |-> "dispatch", key |-> k, simulate |-> simulate, todo |-> todo]
    BY <2>1 DEF Dispatch
  <2> DEFINE todo == {e \in addressed : Eligible(e)}
  <2>3. Admit
    BY <2>1 DEF Dispatch
  <2>4. todo \in SUBSET Nat
    BY DomainOf DEF IInv, TypeOK
  <2>5. work' \in Works
    BY <2>2, <2>4 DEF Works
  <2>6. UNCHANGED setup
    BY <2>3 DEF Admit
  <2>7. \A e \in todo : e \in DOMAIN endpoints' /\ Eligible(e)'
    BY <2>6 DEF setup, Eligible
  <2>8. WorkOK'
    BY <2>2, <2>7 DEF WorkOK, NoWork
  <2> QED
    BY <1>1, <2>3, <2>5, <2>8, AdmitKeepsBreaker, RequestKeeps DEF Admit
<1>3. CASE RetryDue
  <2> DEFINE todo == {i \in DOMAIN deliveries : Due(deliveries[i])}
  <2>1. Admit /\ work' = IF todo = {} THEN NoWork ELSE [by |-> "retry", todo |-> todo]
    BY <1>3 DEF RetryDue
  <2>2. todo \in SUBSET Nat
    BY DomainOf DEF IInv, TypeOK
  <2>3. work' \in Works
    BY <2>1, <2>2 DEF Works
  <2>4. deliveries' = deliveries
    BY <2>1 DEF Admit
  <2>5. WorkOK'
    BY <2>1, <2>4 DEF WorkOK, NoWork, Due
  <2> QED
    BY <1>1, <2>1, <2>3, <2>5, AdmitKeepsBreaker, RequestKeeps DEF Admit
<1>4. CASE Refuse
  <2>1. UNCHANGED <<setup, traffic, work, purged>>
    BY <1>4 DEF Refuse
  <2>2. WorkOK' /\ work' \in Works
    BY <2>1 DEF IInv, TypeOK, WorkOK, Eligible, Due, setup, traffic
  <2>3. circuit' \in Circuits /\ BreakerFollowsResults'
    BY <2>1 DEF IInv, TypeOK, BreakerFollowsResults, traffic
  <2> QED
    BY <1>1, <2>1, <2>2, <2>3, RequestKeeps DEF traffic
<1> QED
  BY <1>2, <1>3, <1>4

-----------------------------------------------------------------------------
(* Time and retention *)

LEMMA LessType ==
    ASSUME NEW m \in Nat, NEW t \in 0 .. m
    PROVE  Less(t) \in 0 .. m /\ Less(0) = 0
  BY DEF Less

LEMMA Targeted ==
    ASSUME NEW d \in Deliveries
    PROVE  TargetOf(d) \in Targets \X Uuids
  BY DEF Deliveries, TargetOf, Targets

LEMMA Waited ==
    ASSUME NEW d \in Deliveries
    PROVE  LET a == [d EXCEPT !.wait = Less(@)]
           IN  /\ a \in Deliveries /\ TargetOf(a) = TargetOf(d)
               /\ a.endpoint = d.endpoint /\ a.status = d.status /\ a.attempts = d.attempts
               /\ d.wait = 0 => a.wait = 0
<1>1. /\ RetryDelay \in Nat /\ d.wait \in 0 .. RetryDelay
  BY WebhookAssumption DEF Deliveries
<1>2. Less(d.wait) \in 0 .. RetryDelay /\ Less(0) = 0
  BY <1>1, LessType
<1> DEFINE w == Less(d.wait)
           a == [d EXCEPT !.wait = w]
<1>3. a \in Deliveries /\ a.wait = w /\ a.endpoint = d.endpoint /\ a.key = d.key
      /\ a.status = d.status /\ a.attempts = d.attempts
  <2>1. w \in 0 .. RetryDelay
    BY <1>2
  <2> HIDE DEF w
  <2> QED
    BY <2>1 DEF Deliveries
<1> QED
  BY <1>2, <1>3 DEF TargetOf

LEMMA TickKeeps == ASSUME IInv, Tick PROVE IInv'
<1>1. /\ deliveries \in Seq(Deliveries) /\ circuit \in Circuits
      /\ window \in [left : 0 .. Window, count : 0 .. Limit + 1]
  BY DEF IInv, TypeOK
<1>2. /\ deliveries' = [i \in DOMAIN deliveries |-> [deliveries[i] EXCEPT !.wait = Less(@)]]
      /\ circuit' = [circuit EXCEPT !.cooling = Less(@)]
      /\ window' = [window EXCEPT !.left = Less(@)]
      /\ UNCHANGED <<setup, remembered, streak, received, work, purged>>
  BY DEF Tick
<1>3. DOMAIN deliveries = 1 .. Len(deliveries) /\ Len(deliveries) \in Nat
  BY <1>1, DomainOf
<1>4. \A i \in DOMAIN deliveries :
         /\ deliveries'[i] = [deliveries[i] EXCEPT !.wait = Less(@)]
         /\ deliveries'[i] \in Deliveries
         /\ TargetOf(deliveries'[i]) = TargetOf(deliveries[i])
         /\ deliveries'[i].endpoint = deliveries[i].endpoint
         /\ deliveries'[i].status = deliveries[i].status
         /\ deliveries'[i].attempts = deliveries[i].attempts
         /\ deliveries[i].wait = 0 => deliveries'[i].wait = 0
  BY <1>1, <1>2, DomainOf, Waited
<1>5. deliveries' \in Seq(Deliveries) /\ DOMAIN deliveries' = DOMAIN deliveries
  <2>1. DOMAIN deliveries' = 1 .. Len(deliveries)
    BY <1>2, <1>3
  <2>2. deliveries' \in [1 .. Len(deliveries) -> Deliveries]
    BY <1>2, <1>3, <1>4
  <2> QED
    BY <1>3, <2>1, <2>2, SeqDef
<1>6. circuit' \in Circuits
  <2>1. circuit.cooling \in 0 .. Cooldown /\ Cooldown \in Nat
    BY <1>1, WebhookAssumption DEF Circuits
  <2> DEFINE c == Less(circuit.cooling)
  <2>2. c \in 0 .. Cooldown /\ circuit' = [circuit EXCEPT !.cooling = c]
    BY <1>2, <2>1, LessType
  <2> HIDE DEF c
  <2> QED
    BY <1>1, <2>2 DEF Circuits
<1>7. window' \in [left : 0 .. Window, count : 0 .. Limit + 1]
  <2>1. window.left \in 0 .. Window /\ Window \in Nat
    BY <1>1, WebhookAssumption
  <2> DEFINE l == Less(window.left)
  <2>2. l \in 0 .. Window /\ window' = [window EXCEPT !.left = l]
    BY <1>2, <2>1, LessType
  <2> HIDE DEF l
  <2> QED
    BY <1>1, <2>2
<1>8. TypeOK'
  BY <1>2, <1>5, <1>6, <1>7 DEF IInv, TypeOK, setup
<1>9. circuit'.state = circuit.state /\ circuit'.failures = circuit.failures
  BY <1>1, <1>2 DEF Circuits
<1>10. BreakerFollowsResults' /\ ReceivedOnceWhileKept'
  BY <1>2, <1>9 DEF IInv, BreakerFollowsResults, ReceivedOnceWhileKept
<1>11. DeliveriesOK'
  BY <1>2, <1>4, <1>5 DEF IInv, DeliveriesOK, setup
<1>12. OnePerTarget' /\ ReceiptsOK'
  <2>1. OnePerTarget'
    BY <1>4, <1>5 DEF IInv, OnePerTarget
  <2>2. ReceiptsOK
    BY DEF IInv
  <2>3. \A i \in DOMAIN deliveries' :
           deliveries'[i].status # "DELIVERED" =>
              \/ received'[TargetOf(deliveries'[i])] = 0
              \/ TargetOf(deliveries'[i]) \in purged'
    BY <1>2, <1>4, <1>5, <2>2 DEF ReceiptsOK
  <2>4. ASSUME NEW t \in Targets \X Uuids, received'[t] > 0, t \notin purged'
        PROVE  \E i \in DOMAIN deliveries' : TargetOf(deliveries'[i]) = t
    <3>1. PICK i \in DOMAIN deliveries : TargetOf(deliveries[i]) = t
      BY <1>2, <2>2, <2>4 DEF ReceiptsOK
    <3> QED
      BY <1>4, <1>5, <3>1
  <2> QED
    BY <2>1, <2>3, <2>4 DEF ReceiptsOK
<1>13. WorkOK'
  BY <1>2 DEF Tick, Idle, NoWork, WorkOK
<1> QED
  BY <1>8, <1>10, <1>11, <1>12, <1>13 DEF IInv

LEMMA PurgeKeeps == ASSUME IInv, NEW n \in DOMAIN deliveries, Purge(n) PROVE IInv'
<1>1. deliveries \in Seq(Deliveries)
  BY DEF IInv, TypeOK
<1>2. /\ deliveries' = SubSeq(deliveries, n + 1, Len(deliveries))
      /\ purged' = purged \cup {TargetOf(deliveries[i]) : i \in 1 .. n}
      /\ UNCHANGED <<setup, remembered, circuit, streak, received, window, work>>
  BY DEF Purge, TargetOf
<1>3. /\ deliveries' \in Seq(Deliveries)
      /\ DOMAIN deliveries' = 1 .. Len(deliveries) - n
      /\ \A i \in DOMAIN deliveries' : /\ i + n \in DOMAIN deliveries
                                      /\ deliveries'[i] = deliveries[i + n]
  BY <1>1, <1>2, Suffix
<1>4. DOMAIN deliveries = 1 .. Len(deliveries) /\ Len(deliveries) \in Nat
  BY <1>1, DomainOf
<1>5. \A i \in DOMAIN deliveries : TargetOf(deliveries[i]) \in Targets \X Uuids
  BY <1>1, DomainOf, Targeted
<1>6. purged' \subseteq Targets \X Uuids /\ purged \subseteq purged'
  <2>1. purged \subseteq Targets \X Uuids
    BY DEF IInv, TypeOK
  <2>2. \A i \in 1 .. n : TargetOf(deliveries[i]) \in Targets \X Uuids
    BY <1>4, <1>5
  <2> QED
    BY <1>2, <2>1, <2>2
<1>7. TypeOK'
  BY <1>2, <1>3, <1>6 DEF IInv, TypeOK, setup
<1>8. BreakerFollowsResults' /\ ReceivedOnceWhileKept'
  BY <1>2, <1>6 DEF IInv, BreakerFollowsResults, ReceivedOnceWhileKept
<1>9. DeliveriesOK'
  BY <1>2, <1>3 DEF IInv, DeliveriesOK, setup
<1>10. OnePerTarget'
  <2> SUFFICES ASSUME NEW i \in DOMAIN deliveries', NEW j \in DOMAIN deliveries',
                      TargetOf(deliveries'[i]) = TargetOf(deliveries'[j])
               PROVE  i = j
    BY DEF OnePerTarget
  <2>1. i + n = j + n
    BY <1>3 DEF IInv, OnePerTarget
  <2> QED
    BY <2>1, <1>3, <1>4
<1>11. ReceiptsOK'
  <2>1. ASSUME NEW i \in DOMAIN deliveries', deliveries'[i].status # "DELIVERED"
        PROVE  received'[TargetOf(deliveries'[i])] = 0 \/ TargetOf(deliveries'[i]) \in purged'
    BY <1>2, <1>3, <1>6, <2>1 DEF IInv, ReceiptsOK
  <2>2. ASSUME NEW t \in Targets \X Uuids, received'[t] > 0, t \notin purged'
        PROVE  \E i \in DOMAIN deliveries' : TargetOf(deliveries'[i]) = t
    <3>1. PICK i \in DOMAIN deliveries : TargetOf(deliveries[i]) = t
      BY <1>2, <1>6, <2>2 DEF IInv, ReceiptsOK
    <3>2. i \notin 1 .. n
      BY <1>2, <2>2, <3>1
    <3>3. i - n \in DOMAIN deliveries' /\ (i - n) + n = i
      BY <1>3, <1>4, <3>2
    <3> QED
      BY <1>3, <3>1, <3>3
  <2> QED
    BY <2>1, <2>2 DEF ReceiptsOK
<1>12. WorkOK'
  BY <1>2 DEF Purge, Idle, NoWork, WorkOK
<1> QED
  BY <1>7, <1>8, <1>9, <1>10, <1>11, <1>12 DEF IInv

-----------------------------------------------------------------------------
(* The passes of a loop *)

LEMMA PassKeepsWork ==
    ASSUME IInv, NEW by \in {"dispatch", "retry"}, NEW i, HeadOf(by, i), PassOver(i),
           UNCHANGED setup,
           DOMAIN deliveries \subseteq DOMAIN deliveries',
           \A j \in DOMAIN deliveries : j # i \/ by = "dispatch" => deliveries'[j] = deliveries[j]
    PROVE  work' \in Works /\ WorkOK'
<1>1. work \in Works /\ WorkOK
  BY DEF IInv, TypeOK
<1>2. work.by = by /\ i \in work.todo
  BY DEF HeadOf
<1>3. CASE work.todo = {i}
  BY <1>3 DEF PassOver, Works, WorkOK, NoWork
<1>4. CASE work.todo # {i} /\ by = "dispatch"
  <2>1. work \in [by : {"dispatch"}, key : Uuids, simulate : BOOLEAN, todo : SUBSET Nat]
    BY <1>1, <1>2, <1>4 DEF Works, NoWork
  <2>2. work' = [work EXCEPT !.todo = work.todo \ {i}]
    BY <1>4 DEF PassOver
  <2>3. /\ work' \in [by : {"dispatch"}, key : Uuids, simulate : BOOLEAN, todo : SUBSET Nat]
        /\ work'.by = "dispatch" /\ work'.todo \subseteq work.todo
    BY <2>1, <2>2
  <2>4. \A e \in work.todo : e \in DOMAIN endpoints' /\ Eligible(e)'
    BY <1>1, <1>2, <1>4 DEF WorkOK, Eligible, setup
  <2> QED
    BY <2>3, <2>4 DEF Works, WorkOK
<1>5. CASE work.todo # {i} /\ by = "retry"
  <2>1. work \in [by : {"retry"}, todo : SUBSET Nat]
    BY <1>1, <1>2, <1>5 DEF Works, NoWork
  <2>2. work' = [work EXCEPT !.todo = work.todo \ {i}]
    BY <1>5 DEF PassOver
  <2>3. /\ work' \in [by : {"retry"}, todo : SUBSET Nat]
        /\ work'.by = "retry" /\ work'.todo = work.todo \ {i}
    BY <2>1, <2>2
  <2>4. \A j \in work'.todo : j \in DOMAIN deliveries' /\ Due(deliveries'[j])
    BY <1>1, <1>2, <1>5, <2>3 DEF WorkOK
  <2> QED
    BY <2>3, <2>4 DEF Works, WorkOK
<1> QED
  BY <1>3, <1>4, <1>5

LEMMA DispatchKeeps ==
    ASSUME IInv, NEW e \in DOMAIN endpoints, DispatchSingle(e)
    PROVE  IInv'
<1>1. /\ deliveries \in Seq(Deliveries) /\ endpoints \in Seq(Settings)
      /\ work \in Works /\ remembered \subseteq Targets \X Uuids
      /\ received \in [Targets \X Uuids -> 0 .. 2]
  BY DEF IInv, TypeOK
<1>2. HeadOf("dispatch", e) /\ PassOver(e) /\ UNCHANGED <<setup, window, purged>>
  BY DEF DispatchSingle
<1>3. work.by = "dispatch" /\ work.key \in Uuids
  BY <1>1, <1>2 DEF HeadOf, Works, NoWork
<1>4. CASE UNCHANGED traffic
  <2>1. work' \in Works /\ WorkOK'
    BY <1>2, <1>4, PassKeepsWork DEF traffic
  <2>2. TypeOK'
    BY <1>2, <1>4, <2>1 DEF IInv, TypeOK, setup, traffic
  <2>3. BreakerFollowsResults' /\ ReceivedOnceWhileKept' /\ DeliveriesOK' /\ OnePerTarget' /\ ReceiptsOK'
    BY <1>2, <1>4 DEF IInv, BreakerFollowsResults, ReceivedOnceWhileKept, DeliveriesOK, OnePerTarget,
                      ReceiptsOK, TargetOf, setup, traffic
  <2> QED
    BY <2>1, <2>2, <2>3 DEF IInv
<1>5. CASE ~Duplicate(e, work.key)
  <2> DEFINE new == NewDelivery(e, work.key)
             d == Attempted(new, work.simulate)
             target == <<e, work.key>>
             n == Len(deliveries) + 1
  <2>1. /\ deliveries' = Append(deliveries, d) /\ Note(d)
        /\ remembered' = remembered \cup {target}
    BY <1>3, <1>5 DEF DispatchSingle, traffic
  <2>2. e \in Targets /\ endpoints[e].secret \in Secrets
    <3>1. /\ DOMAIN endpoints = 1 .. Len(endpoints) /\ Len(endpoints) \in Nat
          /\ endpoints[e] \in Settings
      BY <1>1, DomainOf
    <3>2. Len(endpoints) <= MaxEndpoints /\ MaxEndpoints \in Nat
      BY WebhookAssumption DEF IInv, TypeOK
    <3> QED
      BY <3>1, <3>2 DEF Targets, Settings
  <2>3. new \in Attemptable /\ new.endpoint = e /\ TargetOf(new) = target /\ new.attempts = 0
    BY <1>3, <2>2, WebhookAssumption DEF NewDelivery, Attemptable, TargetOf
  <2>4. /\ d \in Deliveries /\ TargetOf(d) = target /\ d.endpoint = e /\ d.attempts = 1
        /\ d.status = "RETRYING" => d.attempts < MaxAttempts
        /\ d.status \in Settled => d.wait = 0
    BY <2>3, AttemptShape
  <2> HIDE DEF d, new
  <2>5. /\ deliveries' \in Seq(Deliveries)
        /\ DOMAIN deliveries' = DOMAIN deliveries \cup {n} /\ n \notin DOMAIN deliveries
        /\ \A i \in DOMAIN deliveries : deliveries'[i] = deliveries[i]
        /\ deliveries'[n] = d
    BY <1>1, <2>1, <2>4, Appended
  <2>6. target \in Targets \X Uuids
    BY <1>3, <2>2
  <2>7. \A i \in DOMAIN deliveries : TargetOf(deliveries[i]) # target
    BY <1>5 DEF IInv, DeliveriesOK, TargetOf, Duplicate
  <2>8. received[target] = 0 \/ target \in purged
    BY <1>1, <2>6, <2>7 DEF IInv, ReceiptsOK
  <2>9. work' \in Works /\ WorkOK'
    BY <1>2, <2>5, PassKeepsWork, Zenon
  <2>10. circuit' \in Circuits /\ streak' \in 0 .. Threshold /\ BreakerFollowsResults'
    BY <2>1, NoteKeepsBreaker DEF IInv, TypeOK
  <2>11. /\ received' \in [Targets \X Uuids -> 0 .. 2]
         /\ d.status # "DELIVERED" => received' = received
         /\ \A t \in Targets \X Uuids : t # target => received'[t] = received[t]
         /\ received'[target] <= received[target] + 1
    BY <1>1, <2>1, <2>4, NoteCounts
  <2>12. TypeOK'
    BY <1>2, <2>1, <2>5, <2>6, <2>9, <2>10, <2>11 DEF IInv, TypeOK, setup
  <2>13. ReceivedOnceWhileKept'
    <3> SUFFICES ASSUME NEW t \in Targets \X Uuids, received'[t] > 1 PROVE t \in purged'
      BY DEF ReceivedOnceWhileKept
    <3>1. CASE t = target
      <4> HIDE DEF target
      <4> QED
        BY <1>1, <1>2, <2>6, <2>8, <2>11, <3>1
    <3>2. CASE t # target
      <4> HIDE DEF target
      <4> QED
        BY <1>2, <2>11, <3>2 DEF IInv, ReceivedOnceWhileKept
    <3> QED
      BY <3>1, <3>2
  <2>14. DeliveriesOK'
    BY <1>2, <2>1, <2>4, <2>5 DEF IInv, DeliveriesOK, setup
  <2>15. OnePerTarget'
    BY <2>4, <2>5, <2>7 DEF IInv, OnePerTarget
  <2>16. ReceiptsOK'
    <3>1. ASSUME NEW i \in DOMAIN deliveries', deliveries'[i].status # "DELIVERED"
          PROVE  received'[TargetOf(deliveries'[i])] = 0 \/ TargetOf(deliveries'[i]) \in purged'
      <4>1. CASE i = n
        BY <1>2, <2>4, <2>5, <2>8, <2>11, <3>1, <4>1
      <4>2. CASE i \in DOMAIN deliveries
        <5>1. TargetOf(deliveries[i]) \in Targets \X Uuids
          BY <1>1, <4>2, DomainOf, Targeted
        <5> QED
          BY <1>2, <2>5, <2>7, <2>11, <3>1, <4>2, <5>1 DEF IInv, ReceiptsOK
      <4> QED
        BY <2>5, <4>1, <4>2
    <3>2. ASSUME NEW t \in Targets \X Uuids, received'[t] > 0, t \notin purged'
          PROVE  \E i \in DOMAIN deliveries' : TargetOf(deliveries'[i]) = t
      <4>1. CASE t = target
        BY <2>4, <2>5, <4>1
      <4>2. CASE t # target
        <5>1. PICK i \in DOMAIN deliveries : TargetOf(deliveries[i]) = t
          BY <1>2, <2>11, <3>2, <4>2 DEF IInv, ReceiptsOK
        <5> QED
          BY <2>5, <5>1
      <4> QED
        BY <4>1, <4>2
    <3> QED
      BY <3>1, <3>2 DEF ReceiptsOK
  <2> QED
    BY <2>9, <2>10, <2>12, <2>13, <2>14, <2>15, <2>16 DEF IInv
<1> QED
  BY <1>4, <1>5 DEF DispatchSingle

LEMMA RetryKeeps ==
    ASSUME IInv, NEW i \in DOMAIN deliveries, RetryOne(i)
    PROVE  IInv'
<1>1. /\ deliveries \in Seq(Deliveries)
      /\ received \in [Targets \X Uuids -> 0 .. 2]
  BY DEF IInv, TypeOK
<1> DEFINE old == deliveries[i]
           d == Attempted(old, FALSE)
           target == TargetOf(old)
<1>2. /\ HeadOf("retry", i) /\ PassOver(i) /\ UNCHANGED <<setup, remembered, window, purged>>
      /\ deliveries' = [deliveries EXCEPT ![i] = d] /\ Note(d)
  BY DEF RetryOne
<1>3. old \in Deliveries /\ Due(old) /\ old.attempts < MaxAttempts
  BY <1>1, <1>2, DomainOf DEF IInv, DeliveriesOK, WorkOK, HeadOf, Due
<1>4. old \in Attemptable
  BY <1>3, WebhookAssumption DEF Deliveries, Attemptable, Targets, Due
<1>5. /\ d \in Deliveries /\ TargetOf(d) = target /\ d.endpoint = old.endpoint
      /\ d.attempts = old.attempts + 1
      /\ d.status = "RETRYING" => d.attempts < MaxAttempts
      /\ d.status \in Settled => d.wait = 0
  BY <1>4, AttemptShape
<1> HIDE DEF d
<1>6. /\ deliveries' \in Seq(Deliveries) /\ DOMAIN deliveries' = DOMAIN deliveries
      /\ deliveries'[i] = d
      /\ \A j \in DOMAIN deliveries : j # i => deliveries'[j] = deliveries[j]
  BY <1>1, <1>2, <1>5, Updated
<1>7. \A j \in DOMAIN deliveries : /\ TargetOf(deliveries'[j]) = TargetOf(deliveries[j])
                                   /\ TargetOf(deliveries[j]) \in Targets \X Uuids
  BY <1>1, <1>5, <1>6, DomainOf, Targeted
<1>8. received[target] = 0 \/ target \in purged
  BY <1>3 DEF IInv, ReceiptsOK, Due
<1>9. work' \in Works /\ WorkOK'
  BY <1>2, <1>6, PassKeepsWork
<1>10. circuit' \in Circuits /\ streak' \in 0 .. Threshold /\ BreakerFollowsResults'
  BY <1>2, NoteKeepsBreaker DEF IInv, TypeOK
<1>11. /\ received' \in [Targets \X Uuids -> 0 .. 2]
       /\ d.status # "DELIVERED" => received' = received
       /\ \A t \in Targets \X Uuids : t # target => received'[t] = received[t]
       /\ received'[target] <= received[target] + 1
  BY <1>1, <1>2, <1>5, NoteCounts
<1>12. TypeOK'
  BY <1>2, <1>6, <1>9, <1>10, <1>11 DEF IInv, TypeOK, setup
<1>13. target \in Targets \X Uuids
  BY <1>7
<1>14. ReceivedOnceWhileKept'
  <2> SUFFICES ASSUME NEW t \in Targets \X Uuids, received'[t] > 1 PROVE t \in purged'
    BY DEF ReceivedOnceWhileKept
  <2>1. CASE t = target
    BY <1>1, <1>2, <1>8, <1>11, <1>13, <2>1
  <2>2. CASE t # target
    BY <1>2, <1>11, <2>2 DEF IInv, ReceivedOnceWhileKept
  <2> QED
    BY <2>1, <2>2
<1>15. DeliveriesOK'
  <2> SUFFICES ASSUME NEW j \in DOMAIN deliveries
               PROVE  /\ deliveries'[j].endpoint \in DOMAIN endpoints
                      /\ TargetOf(deliveries'[j]) \in remembered
                      /\ deliveries'[j].attempts > 0
                      /\ deliveries'[j].status = "RETRYING" => deliveries'[j].attempts < MaxAttempts
                      /\ deliveries'[j].status \in Settled => deliveries'[j].wait = 0
    BY <1>2, <1>6 DEF DeliveriesOK, setup
  <2>1. CASE j = i
    BY <1>3, <1>5, <1>6, <2>1 DEF IInv, DeliveriesOK, Deliveries
  <2>2. CASE j # i
    BY <1>6, <2>2 DEF IInv, DeliveriesOK
  <2> QED
    BY <2>1, <2>2
<1>16. OnePerTarget'
  BY <1>6, <1>7 DEF IInv, OnePerTarget
<1>17. ReceiptsOK'
  <2>1. ASSUME NEW j \in DOMAIN deliveries', deliveries'[j].status # "DELIVERED"
        PROVE  received'[TargetOf(deliveries'[j])] = 0 \/ TargetOf(deliveries'[j]) \in purged'
    <3>1. CASE j = i
      BY <1>2, <1>5, <1>6, <1>8, <1>11, <2>1, <3>1
    <3>2. CASE j # i
      <4>1. TargetOf(deliveries[j]) # target
        BY <1>6, <2>1, <3>2 DEF IInv, OnePerTarget
      <4> QED
        BY <1>2, <1>6, <1>7, <1>11, <2>1, <3>2, <4>1 DEF IInv, ReceiptsOK
    <3> QED
      BY <3>1, <3>2
  <2>2. ASSUME NEW t \in Targets \X Uuids, received'[t] > 0, t \notin purged'
        PROVE  \E j \in DOMAIN deliveries' : TargetOf(deliveries'[j]) = t
    <3>1. CASE t = target
      BY <1>6, <1>7, <3>1
    <3>2. CASE t # target
      <4>1. PICK j \in DOMAIN deliveries : TargetOf(deliveries[j]) = t
        BY <1>2, <1>11, <2>2, <3>2 DEF IInv, ReceiptsOK
      <4> QED
        BY <1>6, <1>7, <4>1
    <3> QED
      BY <3>1, <3>2
  <2> QED
    BY <2>1, <2>2 DEF ReceiptsOK
<1> QED
  BY <1>9, <1>10, <1>12, <1>14, <1>15, <1>16, <1>17 DEF IInv

-----------------------------------------------------------------------------
(* The theorems *)

LEMMA StutterKeeps == ASSUME IInv, UNCHANGED vars PROVE IInv'
<1>1. UNCHANGED <<endpoints, clients, deliveries, remembered, circuit, window, work, streak,
                  received, purged>>
  BY DEF vars, setup, traffic
<1>2. TypeOK' /\ BreakerFollowsResults' /\ ReceivedOnceWhileKept'
  BY <1>1 DEF IInv, TypeOK, BreakerFollowsResults, ReceivedOnceWhileKept
<1>3. DeliveriesOK' /\ OnePerTarget' /\ ReceiptsOK' /\ WorkOK'
  BY <1>1 DEF IInv, DeliveriesOK, OnePerTarget, ReceiptsOK, WorkOK, TargetOf, Eligible, Due
<1> QED
  BY <1>2, <1>3 DEF IInv

LEMMA StepKeeps == IInv /\ [Next]_vars => IInv'
<1> SUFFICES ASSUME IInv, [Next]_vars PROVE IInv'
  OBVIOUS
<1>1. CASE \/ RegisterEndpoint
           \/ \E e \in DOMAIN endpoints : UpdateEndpoint(e)
           \/ \E c \in Clients : CreateClient(c) \/ \E enabled \in BOOLEAN : SetKillSwitch(c, enabled)
  BY <1>1, ControlStep
<1>2. CASE (\E k \in Uuids : Dispatch(k)) \/ RetryDue \/ Refuse
  BY <1>2, RequestStep
<1>3. CASE \E e \in DOMAIN endpoints : DispatchSingle(e)
  BY <1>3, DispatchKeeps
<1>4. CASE \E i \in DOMAIN deliveries : RetryOne(i)
  BY <1>4, RetryKeeps
<1>5. CASE Tick
  BY <1>5, TickKeeps
<1>6. CASE \E n \in DOMAIN deliveries : Purge(n)
  BY <1>6, PurgeKeeps
<1>7. CASE UNCHANGED vars
  BY <1>7, StutterKeeps
<1> QED
  BY <1>1, <1>2, <1>3, <1>4, <1>5, <1>6, <1>7 DEF Next, LoopStep

(* The inductive invariant holds for any number of endpoints, clients, keys, *)
(* dispatches, retries and purges.                                           *)
THEOREM WebhookInvariant == Spec => []IInv
<1> QED
  BY InitInvariant, StepKeeps, PTL DEF Spec

(* The endpoints, deliveries, breaker and loop keep their types; no delivery *)
(* is attempted more than MaxAttempts times.                                 *)
THEOREM WebhookTypes == Spec => []TypeOK
<1>1. IInv => TypeOK
  BY DEF IInv
<1> QED
  BY <1>1, WebhookInvariant, PTL

(* noteCircuitResult and assertCircuitClosed together keep the breaker true  *)
(* to the results, whatever the threshold.                                   *)
THEOREM BreakerIsTrue == Spec => []BreakerFollowsResults
<1>1. IInv => BreakerFollowsResults
  BY DEF IInv
<1> QED
  BY <1>1, WebhookInvariant, PTL

(* dispatchSingle and retryDue deliver a key to an endpoint at most once, as *)
(* long as its delivery is kept.                                             *)
THEOREM ReceivedOnce == Spec => []ReceivedOnceWhileKept
<1>1. IInv => ReceivedOnceWhileKept
  BY DEF IInv
<1> QED
  BY <1>1, WebhookInvariant, PTL

-----------------------------------------------------------------------------
(* What a step may do to the deliveries *)

(* Every step leaves them, purges some, lets one wait less, adds an eligible *)
(* one, or attempts one that is due.                                         *)
LEMMA StepDeliveries ==
    ASSUME IInv, [Next]_vars
    PROVE  \/ deliveries' = deliveries
           \/ Len(deliveries') < Len(deliveries)
           \/ Tick
           \/ \E e \in DOMAIN endpoints : /\ DispatchSingle(e) /\ ~Duplicate(e, work.key)
                                          /\ Eligible(e)
           \/ \E i \in DOMAIN deliveries : RetryOne(i) /\ Due(deliveries[i])
<1>1. CASE \/ RegisterEndpoint
           \/ \E e \in DOMAIN endpoints : UpdateEndpoint(e)
           \/ \E c \in Clients : CreateClient(c) \/ \E enabled \in BOOLEAN : SetKillSwitch(c, enabled)
  BY <1>1 DEF RegisterEndpoint, UpdateEndpoint, CreateClient, SetKillSwitch, traffic
<1>2. CASE (\E k \in Uuids : Dispatch(k)) \/ RetryDue \/ Refuse
  BY <1>2 DEF Dispatch, RetryDue, Refuse, Admit, traffic
<1>3. CASE \E e \in DOMAIN endpoints : DispatchSingle(e)
  <2>1. PICK e \in DOMAIN endpoints : DispatchSingle(e)
    BY <1>3
  <2>2. Eligible(e)
    BY <2>1 DEF DispatchSingle, HeadOf, IInv, WorkOK
  <2>3. CASE UNCHANGED traffic
    BY <2>3 DEF traffic
  <2> QED
    BY <2>1, <2>2, <2>3 DEF DispatchSingle
<1>4. CASE \E i \in DOMAIN deliveries : RetryOne(i)
  BY <1>4 DEF RetryOne, HeadOf, IInv, WorkOK
<1>5. CASE \E n \in DOMAIN deliveries : Purge(n)
  <2>1. PICK n \in DOMAIN deliveries : deliveries' = SubSeq(deliveries, n + 1, Len(deliveries))
    BY <1>5 DEF Purge
  <2>2. deliveries \in Seq(Deliveries)
    BY DEF IInv, TypeOK
  <2>3. Len(deliveries') = Len(deliveries) - n
    BY <2>1, <2>2, Suffix
  <2>4. n \in 1 .. Len(deliveries) /\ Len(deliveries) \in Nat
    BY <2>2, DomainOf
  <2> QED
    BY <2>3, <2>4
<1>6. CASE UNCHANGED vars
  BY <1>6 DEF vars, traffic
<1> QED
  BY <1>1, <1>2, <1>3, <1>4, <1>5, <1>6 DEF Next, LoopStep

(* A tick changes how long deliveries wait, and nothing of a settled one. *)
LEMMA TickDeliveries ==
    ASSUME IInv, Tick, NEW i \in DOMAIN deliveries'
    PROVE  /\ i \in DOMAIN deliveries
           /\ deliveries'[i].attempts = deliveries[i].attempts
           /\ deliveries'[i].status = deliveries[i].status
           /\ deliveries'[i].wait = Less(deliveries[i].wait)
           /\ deliveries[i].status \in Settled => deliveries'[i] = deliveries[i]
<1>1. deliveries \in Seq(Deliveries)
  BY DEF IInv, TypeOK
<1>2. deliveries' = [j \in DOMAIN deliveries |-> [deliveries[j] EXCEPT !.wait = Less(@)]]
  BY DEF Tick
<1>3. i \in DOMAIN deliveries /\ deliveries[i] \in Deliveries
  BY <1>1, <1>2, DomainOf
<1> DEFINE d == deliveries[i]
<1>4. deliveries'[i] = [d EXCEPT !.wait = Less(d.wait)]
  BY <1>2, <1>3
<1>5. deliveries'[i].attempts = d.attempts /\ deliveries'[i].status = d.status
  BY <1>2, <1>3, <1>4, Waited
<1>7. deliveries'[i].wait = Less(d.wait)
  BY <1>3, <1>4 DEF Deliveries
<1>6. ASSUME d.status \in Settled PROVE deliveries'[i] = d
  <2>1. d.wait = 0
    BY <1>3, <1>6 DEF IInv, DeliveriesOK
  <2>2. Less(d.wait) = d.wait
    BY <2>1 DEF Less
  <2>3. deliveries'[i] = [d EXCEPT !.wait = d.wait]
    BY <1>4, <2>2
  <2> QED
    BY <1>3, <2>3 DEF Deliveries
<1> QED
  BY <1>3, <1>5, <1>6, <1>7

LEMMA NewDeliveryStep ==
    ASSUME IInv, NEW e \in DOMAIN endpoints, DispatchSingle(e), ~Duplicate(e, work.key)
    PROVE  /\ DOMAIN deliveries' = DOMAIN deliveries \cup {Len(deliveries) + 1}
           /\ \A i \in DOMAIN deliveries : deliveries'[i] = deliveries[i]
           /\ deliveries'[Len(deliveries) + 1].endpoint = e
<1>1. /\ deliveries \in Seq(Deliveries) /\ endpoints \in Seq(Settings) /\ work \in Works
      /\ work.by = "dispatch"
  BY DEF IInv, TypeOK, DispatchSingle, HeadOf
<1> DEFINE new == NewDelivery(e, work.key)
           d == Attempted(new, work.simulate)
<1>2. work.key \in Uuids
  BY <1>1 DEF Works, NoWork
<1>3. deliveries' = Append(deliveries, d)
  <2>1. CASE UNCHANGED traffic /\ Duplicate(e, work.key)
    BY <2>1
  <2> QED
    BY <2>1 DEF DispatchSingle
<1>4. e \in Targets /\ endpoints[e].secret \in Secrets
  <2>1. /\ DOMAIN endpoints = 1 .. Len(endpoints) /\ Len(endpoints) \in Nat
        /\ endpoints[e] \in Settings
    BY <1>1, DomainOf
  <2>2. Len(endpoints) <= MaxEndpoints /\ MaxEndpoints \in Nat
    BY WebhookAssumption DEF IInv, TypeOK
  <2> QED
    BY <2>1, <2>2 DEF Targets, Settings
<1>5. new \in Attemptable /\ new.endpoint = e
  BY <1>2, <1>4, WebhookAssumption DEF NewDelivery, Attemptable
<1>6. d \in Deliveries /\ d.endpoint = e
  BY <1>5, AttemptShape
<1> HIDE DEF d
<1> QED
  BY <1>1, <1>3, <1>6, Appended

LEMMA RetryStep ==
    ASSUME IInv, NEW i \in DOMAIN deliveries, RetryOne(i), Due(deliveries[i])
    PROVE  /\ DOMAIN deliveries' = DOMAIN deliveries
           /\ \A j \in DOMAIN deliveries : j # i => deliveries'[j] = deliveries[j]
           /\ deliveries'[i].attempts = deliveries[i].attempts + 1
           /\ deliveries[i].attempts \in Nat /\ deliveries[i].attempts > 0
           /\ deliveries'[i].attempts < MaxAttempts \/ deliveries'[i].status \in Settled
<1>1. deliveries \in Seq(Deliveries)
  BY DEF IInv, TypeOK
<1> DEFINE d == Attempted(deliveries[i], FALSE)
<1>2. deliveries[i] \in Deliveries /\ deliveries[i].attempts < MaxAttempts
      /\ deliveries[i].attempts > 0
  BY <1>1, DomainOf DEF IInv, DeliveriesOK, Due
<1>3. deliveries[i] \in Attemptable /\ deliveries[i].attempts \in Nat
  BY <1>2, WebhookAssumption DEF Deliveries, Attemptable, Targets, Due
<1>4. /\ d \in Deliveries /\ d.attempts = deliveries[i].attempts + 1
      /\ d.status = "RETRYING" => d.attempts < MaxAttempts
  BY <1>3, AttemptShape
<1>5. deliveries' = [deliveries EXCEPT ![i] = d]
  BY DEF RetryOne
<1> HIDE DEF d
<1>6. d.attempts < MaxAttempts \/ d.status \in Settled
  BY <1>4 DEF Deliveries
<1> QED
  BY <1>1, <1>2, <1>3, <1>4, <1>5, <1>6, Updated

(* attemptDelivery is called for new deliveries and for those in retry only, *)
(* so what has arrived or failed keeps its record as it is.                  *)
THEOREM SettledIsFinal == Spec => SettledStays
<1>1. ASSUME IInv, [Next]_vars, NEW i \in DOMAIN deliveries, deliveries[i].status \in Settled
      PROVE  Len(deliveries') < Len(deliveries) \/ deliveries'[i] = deliveries[i]
  <2>1. CASE Tick
    <3>1. DOMAIN deliveries' = DOMAIN deliveries
      BY <2>1 DEF Tick
    <3> QED
      BY <1>1, <2>1, <3>1, TickDeliveries
  <2>2. CASE \E e \in DOMAIN endpoints : DispatchSingle(e) /\ ~Duplicate(e, work.key) /\ Eligible(e)
    BY <1>1, <2>2, NewDeliveryStep
  <2>3. CASE \E j \in DOMAIN deliveries : RetryOne(j) /\ Due(deliveries[j])
    <3>1. PICK j \in DOMAIN deliveries : RetryOne(j) /\ Due(deliveries[j])
      BY <2>3
    <3>2. j # i
      BY <1>1, <3>1 DEF Due, Settled
    <3> QED
      BY <1>1, <3>1, <3>2, RetryStep
  <2> QED
    BY <1>1, <2>1, <2>2, <2>3, StepDeliveries
<1>2. IInv /\ [Next]_vars =>
        [\A i \in DOMAIN deliveries :
            deliveries[i].status \in Settled =>
               \/ Len(deliveries') < Len(deliveries)
               \/ deliveries'[i] = deliveries[i]]_vars
  BY <1>1
<1> QED
  BY <1>2, WebhookInvariant, PTL DEF Spec, SettledStays

(* dispatch attempts eligible endpoints only; whatever else is attempted has *)
(* been attempted before.                                                    *)
THEOREM ControlsHoldForDispatch == Spec => OnlyRetriesEvadeControls
<1>1. ASSUME IInv, [Next]_vars, NEW i \in DOMAIN deliveries',
             Len(deliveries') >= Len(deliveries),
             i \in DOMAIN deliveries => deliveries'[i].attempts # deliveries[i].attempts,
             ~Eligible(deliveries'[i].endpoint)
      PROVE  deliveries'[i].attempts > 1
  <2>0. Len(deliveries) \in Nat
    BY <1>1, DomainOf DEF IInv, TypeOK
  <2>1. CASE deliveries' = deliveries
    BY <1>1, <2>1
  <2>2. CASE Len(deliveries') < Len(deliveries)
    <3>1. deliveries' \in Seq(Deliveries)
      BY <1>1, StepKeeps DEF IInv, TypeOK
    <3>2. Len(deliveries') \in Nat
      BY <3>1, DomainOf
    <3> QED
      BY <1>1, <2>0, <2>2, <3>2
  <2>3. CASE Tick
    BY <1>1, <2>3, TickDeliveries
  <2>4. CASE \E e \in DOMAIN endpoints : DispatchSingle(e) /\ ~Duplicate(e, work.key) /\ Eligible(e)
    BY <1>1, <2>4, NewDeliveryStep
  <2>5. CASE \E j \in DOMAIN deliveries : RetryOne(j) /\ Due(deliveries[j])
    <3>1. PICK j \in DOMAIN deliveries : RetryOne(j) /\ Due(deliveries[j])
      BY <2>5
    <3>2. i = j
      BY <1>1, <3>1, RetryStep
    <3> QED
      BY <1>1, <3>1, <3>2, RetryStep
  <2> QED
    BY <1>1, <2>1, <2>2, <2>3, <2>4, <2>5, StepDeliveries
<1>2. IInv /\ [Next]_vars =>
        [\A i \in DOMAIN deliveries' :
          /\ Len(deliveries') >= Len(deliveries)
          /\ i \in DOMAIN deliveries => deliveries'[i].attempts # deliveries[i].attempts
          /\ ~Eligible(deliveries'[i].endpoint)
          => deliveries'[i].attempts > 1]_vars
  BY <1>1
<1> QED
  BY <1>2, WebhookInvariant, PTL DEF Spec, OnlyRetriesEvadeControls

(* retryDue and attemptDelivery: what EveryRetryEnds rests on beside its     *)
(* fairness.  A delivery in retry is never attempted before its time, never  *)
(* made to wait longer nor taken back in its attempts, comes closer to its   *)
(* next attempt as time passes, and leaves retry by the last one allowed.    *)
RetriesRunOut ==
    [][\A i \in DOMAIN deliveries :
          /\ deliveries[i].status = "RETRYING"
          /\ Len(deliveries') >= Len(deliveries)
          => \/ /\ deliveries'[i].status = "RETRYING"
                /\ deliveries'[i].attempts = deliveries[i].attempts
                /\ deliveries'[i].wait <= deliveries[i].wait
                /\ Tick /\ deliveries[i].wait > 0 => deliveries'[i].wait < deliveries[i].wait
             \/ /\ deliveries[i].wait = 0
                /\ deliveries'[i].attempts = deliveries[i].attempts + 1
                /\ deliveries'[i].attempts < MaxAttempts \/ deliveries'[i].status \in Settled]_vars

(* A delivery in retry only ever comes closer to its end.  Dispatches of the *)
(* same key, a breaker that opens, killed clients and updates of the         *)
(* endpoint do not set it back.                                              *)
THEOREM RetriesAdvance == Spec => RetriesRunOut
<1>1. ASSUME IInv, [Next]_vars, NEW i \in DOMAIN deliveries,
             deliveries[i].status = "RETRYING", Len(deliveries') >= Len(deliveries)
      PROVE  \/ /\ deliveries'[i].status = "RETRYING"
                /\ deliveries'[i].attempts = deliveries[i].attempts
                /\ deliveries'[i].wait <= deliveries[i].wait
                /\ Tick /\ deliveries[i].wait > 0 => deliveries'[i].wait < deliveries[i].wait
             \/ /\ deliveries[i].wait = 0
                /\ deliveries'[i].attempts = deliveries[i].attempts + 1
                /\ deliveries'[i].attempts < MaxAttempts \/ deliveries'[i].status \in Settled
  <2>1. Len(deliveries) \in Nat /\ deliveries[i].wait \in Nat
    <3>1. deliveries \in Seq(Deliveries) /\ deliveries[i] \in Deliveries
      BY <1>1, DomainOf DEF IInv, TypeOK
    <3>2. RetryDelay \in Nat
      BY WebhookAssumption
    <3> QED
      BY <3>1, <3>2 DEF Deliveries
  <2>2. CASE Tick
    <3>1. DOMAIN deliveries' = DOMAIN deliveries
      BY <2>2 DEF Tick
    <3>2. /\ deliveries'[i].attempts = deliveries[i].attempts
          /\ deliveries'[i].status = deliveries[i].status
          /\ deliveries'[i].wait = Less(deliveries[i].wait)
      BY <1>1, <2>2, <3>1, TickDeliveries
    <3> QED
      BY <1>1, <2>1, <3>2 DEF Less
  <2>3. CASE ~Tick /\ deliveries'[i] = deliveries[i]
    BY <1>1, <2>1, <2>3
  <2>4. CASE ~Tick /\ deliveries'[i] # deliveries[i]
    <3>1. deliveries' # deliveries /\ ~(Len(deliveries') < Len(deliveries))
      <4>1. deliveries' \in Seq(Deliveries)
        BY <1>1, StepKeeps DEF IInv, TypeOK
      <4>2. Len(deliveries') \in Nat
        BY <4>1, DomainOf
      <4> QED
        BY <1>1, <2>1, <2>4, <4>2
    <3>2. ~ \E e \in DOMAIN endpoints : /\ DispatchSingle(e) /\ ~Duplicate(e, work.key)
                                        /\ Eligible(e)
      BY <1>1, <2>4, NewDeliveryStep
    <3>3. PICK j \in DOMAIN deliveries : RetryOne(j) /\ Due(deliveries[j])
      BY <1>1, <2>4, <3>1, <3>2, StepDeliveries
    <3>4. j = i
      BY <1>1, <2>4, <3>3, RetryStep
    <3> QED
      BY <1>1, <3>3, <3>4, RetryStep DEF Due
  <2> QED
    BY <2>2, <2>3, <2>4
<1>2. IInv /\ [Next]_vars =>
        [\A i \in DOMAIN deliveries :
          /\ deliveries[i].status = "RETRYING"
          /\ Len(deliveries') >= Len(deliveries)
          => \/ /\ deliveries'[i].status = "RETRYING"
                /\ deliveries'[i].attempts = deliveries[i].attempts
                /\ deliveries'[i].wait <= deliveries[i].wait
                /\ Tick /\ deliveries[i].wait > 0 => deliveries'[i].wait < deliveries[i].wait
             \/ /\ deliveries[i].wait = 0
                /\ deliveries'[i].attempts = deliveries[i].attempts + 1
                /\ deliveries'[i].attempts < MaxAttempts \/ deliveries'[i].status \in Settled]_vars
  BY <1>1
<1> QED
  BY <1>2, WebhookInvariant, PTL DEF Spec, RetriesRunOut
=============================================================================
