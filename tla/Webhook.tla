------------------------------- MODULE Webhook -------------------------------
(***************************************************************************)
(* Outbound webhooks of one tenant: registration of endpoints, dispatch of *)
(* an event to them under an idempotency key, retries, the circuit breaker *)
(* and the rate window (modules/webhooks/webhookService.ts), the clients'  *)
(* kill switch (integrationControlService.ts), and the retention purge.    *)
(*                                                                         *)
(* dispatch and retryDue loop over endpoints or deliveries; "work" holds   *)
(* what the loop has left, each pass is an action, and no other handler    *)
(* runs before the loop ends.  Times are what is left of them: a tick is   *)
(* half a minute, on whose scale a loop takes no time.                     *)
(*                                                                         *)
(* "streak", "received" and "purged" are history variables.                *)
(***************************************************************************)
EXTENDS Integers, Sequences

CONSTANTS Uuids, Clients, Secrets,
          NoClient,                 \* an endpoint that is linked to no client
          EndpointInputs,           \* the settings requests ask for
          Threshold, Cooldown,      \* circuitFailureThreshold, circuitCooldownMs
          Limit, Window,            \* rateLimitPerMinute, rateLimitWindowMs
          MaxAttempts, RetryDelay,
          MaxEndpoints              \* bound on registrations

(* "fails": the URL makes every attempt fail.  A signature is the secret it  *)
(* was made with.  A new delivery is PENDING until its handler attempts it.  *)
Settings == [enabled : BOOLEAN, fails : BOOLEAN, secret : Secrets,
             client : Clients \cup {NoClient}]

ASSUME WebhookAssumption ==
    /\ {Threshold, Cooldown, Limit, Window, MaxAttempts, RetryDelay} \subseteq Nat \ {0}
    /\ MaxEndpoints \in Nat
    /\ NoClient \notin Clients
    /\ EndpointInputs \subseteq Settings

VARIABLES
    endpoints,   \* store.webhookEndpoints, in the order of their registration
    clients,     \* store.integrationClients: absent, active or killed
    deliveries,  \* store.webhookDeliveries
    remembered,  \* store.webhookDeliveryIdempotency
    circuit,     \* the tenant's entry of circuitStates
    window,      \* the tenant's entry of rateWindows
    work,        \* the dispatch or retryDue that is running
    streak,      \* attempts that failed since the last success (0..Threshold)
    received,    \* per endpoint and key, the successful attempts (0..2)
    purged       \* endpoints and keys whose delivery was purged

traffic == <<deliveries, remembered, circuit, streak, received>>
setup == <<endpoints, clients>>
vars == <<setup, traffic, window, work, purged>>

Settled == {"DELIVERED", "FAILED"}
Deliveries == [endpoint : 1 .. MaxEndpoints, key : Uuids, signature : Secrets,
               status : {"RETRYING"} \cup Settled,
               attempts : 0 .. MaxAttempts, wait : 0 .. RetryDelay]
Circuits == [state : {"CLOSED", "OPEN", "HALF_OPEN"}, failures : 0 .. Threshold,
             cooling : 0 .. Cooldown]
Closed == [state |-> "CLOSED", failures |-> 0, cooling |-> 0]
NoWork == [by |-> "none"]
Works == {NoWork}
    \cup [by : {"dispatch"}, key : Uuids, simulate : BOOLEAN, todo : SUBSET Nat]
    \cup [by : {"retry"}, todo : SUBSET Nat]

Targets == 1 .. MaxEndpoints
Idle == work = NoWork

Init ==
    /\ endpoints = <<>>
    /\ clients = [c \in Clients |-> "absent"]
    /\ deliveries = <<>>
    /\ remembered = {}
    /\ circuit = Closed
    /\ window = [left |-> 0, count |-> 0]
    /\ work = NoWork
    /\ streak = 0
    /\ received = [t \in Targets \X Uuids |-> 0]
    /\ purged = {}

-----------------------------------------------------------------------------
(* upsertEndpoint refuses a client that is absent or killed, so it refuses   *)
(* any change of an endpoint whose client was killed.                        *)
Acceptable(settings) == settings.client # NoClient => clients[settings.client] = "active"

RegisterEndpoint ==
    /\ Idle
    /\ Len(endpoints) < MaxEndpoints
    /\ \E settings \in EndpointInputs :
          /\ Acceptable(settings)
          /\ endpoints' = Append(endpoints, settings)
    /\ UNCHANGED <<clients, traffic, window, work, purged>>

(* What a PATCH leaves out keeps its value, so a client cannot be unlinked. *)
UpdateEndpoint(e) ==
    /\ Idle
    /\ \E settings \in EndpointInputs :
          /\ Acceptable(settings)
          /\ settings.client = NoClient => endpoints[e].client = NoClient
          /\ endpoints' = [endpoints EXCEPT ![e] = settings]
    /\ UNCHANGED <<clients, traffic, window, work, purged>>

CreateClient(c) ==
    /\ Idle
    /\ clients[c] = "absent"
    /\ clients' = [clients EXCEPT ![c] = "active"]
    /\ UNCHANGED <<endpoints, traffic, window, work, purged>>

SetKillSwitch(c, enabled) ==
    /\ Idle
    /\ clients[c] # "absent"
    /\ clients' = [clients EXCEPT ![c] = IF enabled THEN "killed" ELSE "active"]
    /\ UNCHANGED <<endpoints, traffic, window, work, purged>>

-----------------------------------------------------------------------------
(* assertRateLimit: a fixed window that opens with the first request after   *)
(* the last one ended.  Refused requests count too, to no effect: the count  *)
(* saturates.                                                                *)
WithinRate == window.left = 0 \/ window.count < Limit
Counted == IF window.left = 0 THEN [left |-> Window, count |-> 1]
           ELSE IF window.count <= Limit THEN [window EXCEPT !.count = @ + 1]
           ELSE window

(* assertCircuitClosed *)
Blocked == circuit.state = "OPEN" /\ circuit.cooling > 0
Probed == IF circuit.state = "OPEN" THEN [state |-> "HALF_OPEN", failures |-> 0, cooling |-> 0]
          ELSE circuit

Admit == /\ Idle /\ WithinRate /\ ~Blocked
         /\ window' = Counted
         /\ circuit' = Probed
         /\ UNCHANGED <<setup, deliveries, remembered, streak, received, purged>>

(* WEBHOOK_RATE_LIMITED or WEBHOOK_CIRCUIT_OPEN *)
Refuse == /\ Idle
          /\ ~WithinRate \/ Blocked
          /\ window' = Counted
          /\ UNCHANGED <<setup, traffic, work, purged>>

(* noteCircuitResult.  The count of failures saturates at the threshold.     *)
(* Mutant: a failed probe leaves the circuit half open.                      *)
NotedPatiently(success) ==
    LET failures == IF circuit.failures < Threshold THEN circuit.failures + 1 ELSE Threshold
    IN  IF success THEN Closed
        ELSE IF failures = Threshold
             THEN [state |-> "OPEN", failures |-> failures, cooling |-> Cooldown]
             ELSE [circuit EXCEPT !.failures = failures]
Noted(success) ==
    LET failures == IF circuit.failures < Threshold THEN circuit.failures + 1 ELSE Threshold
    IN  IF success THEN Closed
        ELSE IF failures = Threshold \/ circuit.state = "HALF_OPEN"
             THEN [state |-> "OPEN", failures |-> failures, cooling |-> Cooldown]
             ELSE [circuit EXCEPT !.failures = failures]

(* attemptDelivery, as the delivery it leaves.  A signature made with a      *)
(* secret the endpoint no longer has fails for good.                         *)
(* Mutants: the attempts are not counted; there is one attempt too many.     *)
AttemptedUncounted(d, simulate) ==
    LET endpoint == endpoints[d.endpoint]
    IN  IF d.signature # endpoint.secret THEN [d EXCEPT !.status = "FAILED"]
        ELSE IF simulate \/ endpoint.fails
             THEN [d EXCEPT !.status = "RETRYING", !.wait = RetryDelay]
             ELSE [d EXCEPT !.status = "DELIVERED", !.wait = 0]
AttemptedOnceMore(d, simulate) ==
    LET endpoint == endpoints[d.endpoint]
        n == d.attempts + 1
    IN  IF d.signature # endpoint.secret
        THEN [d EXCEPT !.status = "FAILED", !.attempts = n]
        ELSE IF ~simulate /\ ~endpoint.fails
             THEN [d EXCEPT !.status = "DELIVERED", !.attempts = n, !.wait = 0]
             ELSE IF n <= MaxAttempts
                  THEN [d EXCEPT !.status = "RETRYING", !.attempts = n, !.wait = RetryDelay]
                  ELSE [d EXCEPT !.status = "FAILED", !.attempts = n, !.wait = 0]
Attempted(d, simulate) ==
    LET endpoint == endpoints[d.endpoint]
        n == d.attempts + 1
    IN  IF d.signature # endpoint.secret
        THEN [d EXCEPT !.status = "FAILED", !.attempts = n]
        ELSE IF ~simulate /\ ~endpoint.fails
             THEN [d EXCEPT !.status = "DELIVERED", !.attempts = n, !.wait = 0]
             ELSE IF n < MaxAttempts
                  THEN [d EXCEPT !.status = "RETRYING", !.attempts = n, !.wait = RetryDelay]
                  ELSE [d EXCEPT !.status = "FAILED", !.attempts = n, !.wait = 0]

(* An attempt has ended with delivery d. *)
Note(d) ==
    LET success == d.status = "DELIVERED"
        target == <<d.endpoint, d.key>>
    IN  /\ circuit' = Noted(success)
        /\ streak' = IF success THEN 0 ELSE IF streak < Threshold THEN streak + 1 ELSE streak
        /\ received' = IF success /\ received[target] < 2
                       THEN [received EXCEPT ![target] = @ + 1] ELSE received

(* The running loop, called by, has come to i, and goes on behind it. *)
HeadOf(by, i) == /\ work.by = by
                 /\ i \in work.todo
                 /\ \A j \in work.todo : i <= j
PassOver(i) == work' = IF work.todo = {i} THEN NoWork ELSE [work EXCEPT !.todo = @ \ {i}]

-----------------------------------------------------------------------------
(* A client is never disabled but by its kill switch. *)
Eligible(e) == /\ endpoints[e].enabled
               /\ endpoints[e].client # NoClient => clients[endpoints[e].client] = "active"

(* Mutant of Dispatch: the kill switch is not looked at. *)
DispatchIfEnabled(k) ==
    /\ Admit
    /\ \E addressed \in SUBSET DOMAIN endpoints, simulate \in BOOLEAN :
          LET todo == {e \in addressed : endpoints[e].enabled}
          IN  work' = IF todo = {} THEN NoWork
                      ELSE [by |-> "dispatch", key |-> k, simulate |-> simulate, todo |-> todo]
(* The event type addresses the endpoints that list it, if their clients     *)
(* allow it.  If none is left the request is refused, but has been admitted. *)
Dispatch(k) ==
    /\ Admit
    /\ \E addressed \in SUBSET DOMAIN endpoints, simulate \in BOOLEAN :
          LET todo == {e \in addressed : Eligible(e)}
          IN  work' = IF todo = {} THEN NoWork
                      ELSE [by |-> "dispatch", key |-> k, simulate |-> simulate, todo |-> todo]

(* Mutant of Duplicate: only a delivery in retry is a duplicate. *)
DuplicateInRetry(e, k) ==
    \E i \in DOMAIN deliveries :
        deliveries[i].endpoint = e /\ deliveries[i].key = k /\ deliveries[i].status = "RETRYING"
(* The remembered key only counts as long as its delivery is kept. *)
Duplicate(e, k) ==
    /\ <<e, k>> \in remembered
    /\ \E i \in DOMAIN deliveries : deliveries[i].endpoint = e /\ deliveries[i].key = k

NewDelivery(e, k) == [endpoint |-> e, key |-> k, signature |-> endpoints[e].secret,
                      status |-> "PENDING", attempts |-> 0, wait |-> 0]

(* One pass of dispatch: dispatchSingle *)
DispatchSingle(e) ==
    /\ HeadOf("dispatch", e)
    /\ \/ Duplicate(e, work.key) /\ UNCHANGED traffic
       \/ /\ ~Duplicate(e, work.key)
          /\ LET d == Attempted(NewDelivery(e, work.key), work.simulate)
             IN  deliveries' = Append(deliveries, d) /\ Note(d)
          /\ remembered' = remembered \cup {<<e, work.key>>}
    /\ PassOver(e)
    /\ UNCHANGED <<setup, window, purged>>

(* Mutant of Due: what has failed is tried again. *)
DueAgain(d) == d.status \in {"RETRYING", "FAILED"} /\ d.wait = 0 /\ d.attempts < MaxAttempts
Due(d) == d.status = "RETRYING" /\ d.wait = 0

(* retryDue looks neither at the endpoint's enabled flag nor at its client. *)
RetryDue ==
    /\ Admit
    /\ LET todo == {i \in DOMAIN deliveries : Due(deliveries[i])}
       IN  work' = IF todo = {} THEN NoWork ELSE [by |-> "retry", todo |-> todo]

RetryOne(i) ==
    /\ HeadOf("retry", i)
    /\ LET d == Attempted(deliveries[i], FALSE)
       IN  deliveries' = [deliveries EXCEPT ![i] = d] /\ Note(d)
    /\ PassOver(i)
    /\ UNCHANGED <<setup, remembered, window, purged>>

(* purgeWebhookDeliveriesOlderThan: the first n deliveries are weeks old. *)
Purge(n) ==
    /\ Idle
    /\ \A i \in 1 .. n : deliveries[i].wait = 0
    /\ deliveries' = SubSeq(deliveries, n + 1, Len(deliveries))
    /\ purged' = purged \cup {<<deliveries[i].endpoint, deliveries[i].key>> : i \in 1 .. n}
    /\ UNCHANGED <<setup, remembered, circuit, streak, received, window, work>>

Less(t) == IF t > 0 THEN t - 1 ELSE 0
Tick ==
    /\ Idle
    /\ deliveries' = [i \in DOMAIN deliveries |-> [deliveries[i] EXCEPT !.wait = Less(@)]]
    /\ circuit' = [circuit EXCEPT !.cooling = Less(@)]
    /\ window' = [window EXCEPT !.left = Less(@)]
    /\ UNCHANGED <<setup, remembered, streak, received, work, purged>>

LoopStep == \/ \E e \in DOMAIN endpoints : DispatchSingle(e)
            \/ \E i \in DOMAIN deliveries : RetryOne(i)

Next ==
    \/ RegisterEndpoint
    \/ \E e \in DOMAIN endpoints : UpdateEndpoint(e)
    \/ \E c \in Clients : CreateClient(c) \/ \E enabled \in BOOLEAN : SetKillSwitch(c, enabled)
    \/ \E k \in Uuids : Dispatch(k)
    \/ LoopStep \/ RetryDue \/ Refuse \/ Tick
    \/ \E n \in DOMAIN deliveries : Purge(n)

Spec == Init /\ [][Next]_vars

(* Time passes, a loop runs to its end, and who keeps asking for the retries *)
(* is admitted in the end: requests are taken in the order they came, and    *)
(* the window and the circuit both reopen.                                   *)
FairSpec == Spec /\ WF_vars(Tick) /\ WF_vars(LoopStep) /\ SF_vars(RetryDue)

-----------------------------------------------------------------------------
(***************************************************************************)
(* Properties                                                              *)
(***************************************************************************)
TypeOK ==
    /\ endpoints \in Seq(Settings) /\ Len(endpoints) <= MaxEndpoints
    /\ clients \in [Clients -> {"absent", "active", "killed"}]
    /\ deliveries \in Seq(Deliveries)
    /\ remembered \subseteq Targets \X Uuids
    /\ circuit \in Circuits
    /\ window \in [left : 0 .. Window, count : 0 .. Limit + 1]
    /\ work \in Works
    /\ streak \in 0 .. Threshold
    /\ received \in [Targets \X Uuids -> 0 .. 2]
    /\ purged \subseteq Targets \X Uuids

(* The breaker tells the truth about the endpoints, whatever dispatches,     *)
(* retries and probes it judges: it is closed exactly as long as fewer than  *)
(* the threshold of attempts have failed in a row, over all endpoints and    *)
(* through every half-open probe, and only an untried one is half open.      *)
BreakerFollowsResults ==
    /\ circuit.state = "CLOSED" <=> streak < Threshold
    /\ circuit.state = "CLOSED" => circuit.failures = streak
    /\ circuit.state = "HALF_OPEN" <=> streak = Threshold /\ circuit.failures = 0

(* An endpoint receives a key at most once, by dispatch or by retry, as long *)
(* as the record of its delivery has not been purged.                        *)
ReceivedOnceWhileKept ==
    \A t \in Targets \X Uuids : received[t] > 1 => t \in purged

(* What was delivered or has failed is not attempted again. *)
SettledStays ==
    [][\A i \in DOMAIN deliveries :
          deliveries[i].status \in Settled =>
             \/ Len(deliveries') < Len(deliveries)
             \/ deliveries'[i] = deliveries[i]]_vars

(* Whichever of its endpoints was disabled or client was killed meanwhile,   *)
(* an event reaches an ineligible endpoint by a retry only.                  *)
OnlyRetriesEvadeControls ==
    [][\A i \in DOMAIN deliveries' :
          /\ Len(deliveries') >= Len(deliveries)
          /\ i \in DOMAIN deliveries => deliveries'[i].attempts # deliveries[i].attempts
          /\ ~Eligible(deliveries'[i].endpoint)
          => deliveries'[i].attempts > 1]_vars

(* A delivery does not stay in retry forever: it arrives, fails or expires.  *)
Retrying(t) == \E i \in DOMAIN deliveries :
                  /\ <<deliveries[i].endpoint, deliveries[i].key>> = t
                  /\ deliveries[i].status = "RETRYING"
EveryRetryEnds == \A t \in Targets \X Uuids : Retrying(t) ~> ~Retrying(t)
=============================================================================
