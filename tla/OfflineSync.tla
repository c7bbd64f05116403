----------------------------- MODULE OfflineSync -----------------------------
(***************************************************************************)
(* The offline queue of one tenant: how operations recorded by a branch    *)
(* while it has no connection are accepted under an idempotency key,       *)
(* replayed by syncQueue or by reconcile, disputed, adjudicated by a       *)
(* manager, and posted as transactions (services/posService.ts,            *)
(* modules/offline-enhancements, modules/loyalty-rewards).                 *)
(*                                                                         *)
(* The server is a single-threaded event loop over an in-memory store, so  *)
(* a request handler is one action.  The two handlers that loop over the   *)
(* queue are one action per item: "loop" holds the snapshot their filter   *)
(* took, and no other handler runs until it is worked off.  Only the clock *)
(* advances in between, as Date.now() does.                                *)
(*                                                                         *)
(* "local" and "replays" are history variables: no action reads them.      *)
(***************************************************************************)
EXTENDS Integers, Sequences, FiniteSets

CONSTANTS Branches, Customers, HomeBranch, Products, Prices, Uuids, Amounts,
          NoOne,              \* no customer
          NaN, NoBalance,     \* not a number; expectedBalanceBefore === undefined
          RawPayloads,        \* what clients send to POST sync/queue
          Endpoints,          \* the routes this instance exercises
          ReplayWindow,       \* maxReplayWindowHours
          InitialBackoff, MaxBackoff, MaxRetryAttempts,
          WarnAge,            \* prolongedOfflineWarnMinutes
          Minimums,           \* minRedeemPoints, as the tenant may set it
          InitialPoints,
          MaxQueue, MaxOnline, MaxPoints,   \* bounds on what requests add
          LastRequest, Horizon                    \* bounds on the clock

ASSUME PolicyAssumption ==
    /\ {ReplayWindow, InitialBackoff, MaxBackoff, MaxRetryAttempts, WarnAge,
        MaxPoints, LastRequest, Horizon} \cup Minimums \subseteq Nat
    /\ MaxRetryAttempts > 0
ASSUME DataAssumption ==
    /\ HomeBranch \in [Customers -> Branches]
    /\ InitialPoints \in [Customers -> 0 .. MaxPoints]
    /\ Amounts \subseteq Nat \ {0}     \* as the routes that check them demand
    /\ NoOne \notin Customers
    /\ NaN \notin Int /\ NoBalance \notin Int /\ NaN # NoBalance

VARIABLES
    now,            \* Date.now()
    queue,          \* store.queue
    keys,           \* store.idempotencyKeys
    transactions,   \* store.transactions
    conflicts,      \* store.conflicts
    alerts,         \* the kinds of unacknowledged store.offlineAlerts
    catalog,        \* price and updatedAt of each product
    points,         \* currentPoints of each customer
    rules,          \* [on, minRedeem]: the flag loyalty_rules and the tenant's rule
    loop,           \* the replay loop that is running
    local,          \* per key, the loyalty mutations recording it posted (0..2)
    replays         \* per key, the loyalty mutations replaying it posted (0..2)

vars == <<now, queue, keys, transactions, conflicts, alerts, catalog, points,
          rules, loop, local, replays>>

(***************************************************************************)
(* Data.  A payload keeps what the replay reads.                           *)
(***************************************************************************)
Replayable == {"PENDING", "FAILED"}
QueueStates == Replayable \cup {"CONFLICT", "CONFIRMED"}
EventTypes == {"SALE", "INVENTORY", "LOYALTY", "REPORT"}
Blank == [blank |-> TRUE]   \* a payload without the fields the replay reads

(* Arithmetic and comparison of balances, one of whose operands may be no    *)
(* number: a raw payload without points adds undefined to a balance.         *)
Number == Int \cup {NaN}
Plus(x, y) == IF x = NaN \/ y = NaN THEN NaN ELSE x + y
Below(x, y) == x # NaN /\ y # NaN /\ x < y
Same(x, y) == x = y /\ x # NaN         \* ===

SaleLines == [product : Products, price : Prices, seen : Nat]
SalePayloads == [lines : SUBSET SaleLines]
LoyaltyPayloads == [op : {"ACCRUE", "REDEEM"}, customer : Customers \cup {NoOne},
                    amount : Number, before : Number \cup {NoBalance}]
Payloads == SalePayloads \cup LoyaltyPayloads \cup {Blank}
ASSUME RawAssumption == RawPayloads \subseteq Payloads

(* Of an INVENTORY or a REPORT event nothing is read here. *)
Fits(type, payload) == /\ type = "SALE" => payload \in SalePayloads \cup {Blank}
                       /\ type = "LOYALTY" => payload \in LoyaltyPayloads
                       /\ type \in {"INVENTORY", "REPORT"} => payload = Blank
QueueItems ==
    {item \in [key : Uuids, branch : Branches, type : EventTypes, payload : Payloads,
               state : QueueStates, retries : 0 .. MaxRetryAttempts,
               deadline : Nat, nextRetry : Nat] : Fits(item.type, item.payload)}
Transactions == [key : Uuids, source : Nat]     \* source 0: posted online
ConflictRecords ==
    [item : Nat \ {0}, branch : Branches,
     kind : {"PRICE", "QUANTITY", "UNKNOWN"},
     status : {"OPEN", "RESOLVED", "ESCALATED"}]
Alerts == [branch : Branches, item : Nat,       \* item 0: the whole branch
           severity : {"WARN", "READ_ONLY", "BLOCK"}]
NoLoop == [by |-> "none"]
Loops == {NoLoop} \cup [by : {"sync", "reconcile"}, branch : Branches,
                        todo : SUBSET Nat]

Keyed(seq, k) == \E i \in DOMAIN seq : seq[i].key = k
Idle == loop = NoLoop

(* Mutants of Known: it forgets the queue; it looks only for operations that *)
(* are still in flight.                                                      *)
KnownOutsideQueue(k) == k \in keys \/ Keyed(transactions, k)
KnownInFlight(k) == \E i \in DOMAIN queue : queue[i].key = k /\ queue[i].state # "CONFIRMED"
(* isKnownIdempotencyKey, for a new request *)
Known(k) == k \in keys \/ Keyed(transactions, k) \/ Keyed(queue, k)

(* retryBackoffMs *)
Backoff(n) == LET due == InitialBackoff * 2^(n - 1)
              IN  IF due \in 0 .. MaxBackoff THEN due ELSE MaxBackoff
BackoffActive(item) == now < item.nextRetry
ReplayExpired(item) == now > item.deadline

(* retryCount only meets MaxRetryAttempts, so it may saturate there. *)
Bumped(n) == IF n < MaxRetryAttempts THEN n + 1 ELSE n

(* The alert maybeCreateProlongedOfflineAlert adds for branch b when the    *)
(* queue is q: the oldest replayable item has been waiting for WarnAge, and *)
(* the branch has no unacknowledged alert of source OFFLINE_SLA.            *)
ProlongedOffline(b, q) ==
    IF /\ \E i \in DOMAIN q : /\ q[i].branch = b
                              /\ q[i].state \in Replayable
                              /\ now - (q[i].deadline - ReplayWindow) >= WarnAge
       /\ \A a \in alerts : a.branch # b
    THEN {[branch |-> b, item |-> 0, severity |-> "WARN"]}
    ELSE {}

Init ==
    /\ now = 0
    /\ queue = <<>> /\ transactions = <<>> /\ conflicts = <<>>
    /\ keys = {} /\ alerts = {}
    /\ catalog \in [Products -> [price : Prices, updatedAt : {0}]]
    /\ points = InitialPoints
    /\ rules \in [on : {TRUE}, minRedeem : Minimums]
    /\ loop = NoLoop
    /\ local = [k \in Uuids |-> 0]
    /\ replays = [k \in Uuids |-> 0]

-----------------------------------------------------------------------------
(***************************************************************************)
(* Recording operations                                                    *)
(***************************************************************************)
Handler(endpoint) == Idle /\ endpoint \in Endpoints

NewItem(b, k, type, payload) ==
    [key |-> k, branch |-> b, type |-> type, payload |-> payload,
     state |-> "PENDING", retries |-> 0,
     deadline |-> now + ReplayWindow, nextRetry |-> now]

EnqueueEvent(b, k, type, payload) ==
    /\ ~Known(k)
    /\ Len(queue) < MaxQueue /\ now <= LastRequest
    /\ queue' = Append(queue, NewItem(b, k, type, payload))
    /\ alerts' = alerts \cup ProlongedOffline(b, queue')

Customer(b, c) == c # NoOne /\ HomeBranch[c] = b
Pay(c, amount) == points' = [points EXCEPT ![c] = Plus(@, amount)]
Room(c, amount) == ~Below(MaxPoints, Plus(points[c], amount))  \* bound on what requests add
(* recordMutation refuses a balance that would be below zero. *)
Records(c, amount) == ~Below(Plus(points[c], amount), 0) /\ Pay(c, amount)
Count(f, k) == [f EXCEPT ![k] = IF @ < 2 THEN @ + 1 ELSE 2]

(* POST sync/queue: the client supplies the payload, and nothing checks it:  *)
(* its points may be negative or missing, its customer nobody's.  An ADJUST  *)
(* is replayed like an ACCRUE.                                               *)
EnqueueRaw(b, k) ==
    /\ Handler("sync/queue")
    /\ \E type \in EventTypes, payload \in RawPayloads :
          Fits(type, payload) /\ EnqueueEvent(b, k, type, payload)
    /\ UNCHANGED <<now, keys, transactions, conflicts, catalog, points,
                   rules, loop, local, replays>>

(* offline/loyalty/queue: the balance is read, not changed. *)
QueueLoyalty(b, k) ==
    /\ Handler("offline/loyalty/queue")
    /\ \E op \in {"ACCRUE", "REDEEM"}, c \in Customers, amount \in Amounts :
          /\ Customer(b, c)
          /\ EnqueueEvent(b, k, "LOYALTY", [op |-> op, customer |-> c,
                                            amount |-> amount, before |-> points[c]])
    /\ UNCHANGED <<now, keys, transactions, conflicts, catalog, points,
                   rules, loop, local, replays>>

QueueReport(b, k) ==
    /\ Handler("offline/reports/queue")
    /\ EnqueueEvent(b, k, "REPORT", Blank)
    /\ UNCHANGED <<now, keys, transactions, conflicts, catalog, points,
                   rules, loop, local, replays>>

(* applyInventoryAction with offline set; the stock is StockLedger's. *)
InventoryOffline(b, k) ==
    /\ Handler("inventory/action")
    /\ EnqueueEvent(b, k, "INVENTORY", Blank)
    /\ UNCHANGED <<now, keys, transactions, conflicts, catalog, points,
                   rules, loop, local, replays>>

(* updateCustomerTotalsFromSale: the points a sale earns its customer *)
SaleAccrual(b, c) ==
    IF Customer(b, c) /\ rules.on
    THEN \/ \E amount \in Amounts : Room(c, amount) /\ Pay(c, amount)
         \/ UNCHANGED points        \* the total earns less than a point
    ELSE UNCHANGED points

CheckoutOffline(b, k) ==
    /\ Handler("sales/checkout")
    /\ \E basket \in (SUBSET Products) \ {{}} :
          EnqueueEvent(b, k, "SALE",
              [lines |-> {[product |-> p, price |-> catalog[p].price,
                           seen |-> catalog[p].updatedAt] : p \in basket}])
    /\ \E c \in Customers \cup {NoOne} : SaleAccrual(b, c)
    /\ UNCHANGED <<now, keys, transactions, conflicts, catalog, rules,
                   loop, local, replays>>

(* Without a client's key the transaction gets a random one, which is not   *)
(* remembered in idempotencyKeys.                                           *)
CheckoutOnline(b, k) ==
    /\ Handler("sales/checkout")
    /\ ~Known(k)
    /\ Cardinality({t \in DOMAIN transactions : transactions[t].source = 0}) < MaxOnline
    /\ transactions' = Append(transactions, [key |-> k, source |-> 0])
    /\ keys' \in {keys, keys \cup {k}}
    /\ \E c \in Customers \cup {NoOne} : SaleAccrual(b, c)
    /\ UNCHANGED <<now, queue, conflicts, alerts, catalog, rules, loop,
                   local, replays>>

(* LoyaltyRewardsService.accrue and redeem.  With offline set, the balance  *)
(* is changed first and the event enqueued after; a key that is known by    *)
(* then makes enqueueEvent throw, with the balance already changed.         *)
EnqueueApplied(b, k, payload) ==
    /\ local' = Count(local, k)
    /\ \/ EnqueueEvent(b, k, "LOYALTY", payload)
       \/ Known(k) /\ UNCHANGED <<queue, alerts>>

AccrueOffline(b, k) ==
    /\ Handler("rewards") /\ rules.on
    /\ \E c \in Customers, amount \in Amounts :
          /\ Customer(b, c) /\ Room(c, amount)
          /\ Records(c, amount)
          /\ EnqueueApplied(b, k, [op |-> "ACCRUE", customer |-> c, amount |-> amount,
                                   before |-> Plus(points'[c], -amount)])
    /\ UNCHANGED <<now, keys, transactions, conflicts, catalog, rules,
                   loop, replays>>

RedeemOffline(b, k) ==
    /\ Handler("rewards") /\ rules.on
    /\ \E c \in Customers, amount \in Amounts :
          /\ amount >= rules.minRedeem
          /\ Customer(b, c)
          /\ ~Below(points[c], amount)
          /\ Pay(c, -amount)
          /\ EnqueueApplied(b, k, [op |-> "REDEEM", customer |-> c,
                                   amount |-> amount, before |-> points[c]])
    /\ UNCHANGED <<now, keys, transactions, conflicts, catalog, rules,
                   loop, replays>>

(* accrue without offline: its idempotencyKey, if any, is not looked at. *)
AccrueOnline(b) ==
    /\ Handler("rewards") /\ rules.on
    /\ \E c \in Customers, amount \in Amounts :
          Customer(b, c) /\ Room(c, amount) /\ Records(c, amount)
    /\ UNCHANGED <<now, queue, keys, transactions, conflicts, alerts, catalog,
                   rules, loop, local, replays>>

(* redeem without offline, and PosService.loyaltyRedeem *)
RedeemOnline(b) ==
    /\ Handler("rewards") /\ rules.on
    /\ \E c \in Customers, amount \in Amounts :
          /\ amount >= rules.minRedeem
          /\ Customer(b, c)
          /\ ~Below(points[c], amount)
          /\ Pay(c, -amount)
    /\ UNCHANGED <<now, queue, keys, transactions, conflicts, alerts, catalog,
                   rules, loop, local, replays>>

UpdateProduct(p) ==
    /\ Handler("products")
    /\ \E x \in Prices : catalog' = [catalog EXCEPT ![p] = [price |-> x, updatedAt |-> now]]
    /\ UNCHANGED <<now, queue, keys, transactions, conflicts, alerts, points,
                   rules, loop, local, replays>>

(* LoyaltyRewardsService.updateRule.  What a rule makes of an amount of money *)
(* is any of Amounts, whatever the rates.                                    *)
UpdateRule ==
    /\ Handler("rewards/rules") /\ rules.on
    /\ \E minimum \in Minimums : rules' = [rules EXCEPT !.minRedeem = minimum]
    /\ UNCHANGED <<now, queue, keys, transactions, conflicts, alerts, catalog,
                   points, loop, local, replays>>

ToggleLoyaltyRules ==
    /\ Handler("feature-flags")
    /\ rules' = [rules EXCEPT !.on = ~@]
    /\ UNCHANGED <<now, queue, keys, transactions, conflicts, alerts, catalog,
                   points, loop, local, replays>>

-----------------------------------------------------------------------------
(***************************************************************************)
(* Replay                                                                  *)
(***************************************************************************)
(* Mutant of Waiting: the filter takes whatever is not confirmed.            *)
Unconfirmed(b) == {i \in DOMAIN queue : queue[i].branch = b /\ queue[i].state # "CONFIRMED"}
Waiting(b) == {i \in DOMAIN queue : queue[i].branch = b /\ queue[i].state \in Replayable}
Enhanced(b) == {i \in Waiting(b) : queue[i].type \in {"LOYALTY", "REPORT"}}

(* An empty snapshot changes nothing, so the loops start on the others. *)
StartLoop(by, b, snapshot) ==
    /\ Idle /\ snapshot # {}
    /\ loop' = [by |-> by, branch |-> b, todo |-> snapshot]
    /\ UNCHANGED <<now, queue, keys, transactions, conflicts, alerts, catalog,
                   points, rules, local, replays>>
StartSync(b) == StartLoop("sync", b, Waiting(b))
StartReconcile(b) == Handler("offline/reconcile") /\ StartLoop("reconcile", b, Enhanced(b))

(* The loops take the items in queue order. *)
HeadOf(by, i) == /\ loop.by = by
                 /\ i \in loop.todo
                 /\ \A j \in loop.todo : i <= j
Done(i) == loop' = [loop EXCEPT !.todo = @ \ {i}]
(* Mutant of Update: a failed item keeps the state SYNCING of its attempt.   *)
UpdateKeepingSyncing(i, state, retries, nextRetry) ==
    queue' = [queue EXCEPT ![i] = [@ EXCEPT !.state = IF state = "FAILED" THEN "SYNCING" ELSE state,
                                            !.retries = retries, !.nextRetry = nextRetry]]
Update(i, state, retries, nextRetry) ==
    queue' = [queue EXCEPT ![i] = [@ EXCEPT !.state = state, !.retries = retries,
                                            !.nextRetry = nextRetry]]

(* A redemption is subtracted, an accrual added. *)
Delta(p) == IF p.op = "ACCRUE" \/ p.amount = NaN THEN p.amount ELSE -p.amount

(* Posting the loyalty mutation of item i. *)
PostPoints(i) ==
    LET item == queue[i]
    IN  /\ Pay(item.payload.customer, Delta(item.payload))
        /\ replays' = Count(replays, item.key)

(* Mutant of Commit: the fingerprint is not remembered. *)
CommitWithoutKey(i) ==
    /\ transactions' = Append(transactions, [key |-> queue[i].key, source |-> i])
    /\ UNCHANGED <<keys, conflicts>>
(* The receipt of a replay that succeeded. *)
Commit(i) ==
    /\ keys' = keys \cup {queue[i].key}
    /\ transactions' = Append(transactions, [key |-> queue[i].key, source |-> i])
    /\ UNCHANGED conflicts

Dispute(i, kind) ==
    /\ conflicts' = Append(conflicts, [item |-> i, branch |-> loop.branch,
                                       kind |-> kind, status |-> "OPEN"])
    /\ UNCHANGED <<keys, transactions, points, replays>>

(* syncQueue, one item *)
Attempt(i) == HeadOf("sync", i) /\ ~BackoffActive(queue[i])
DueAtAnyAge(i) == Attempt(i)     \* mutant of Due: the window is not tested
Due(i) == Attempt(i) /\ ~ReplayExpired(queue[i])

AlreadySynced(i) ==
    \/ queue[i].key \in keys
    \/ \E t \in DOMAIN transactions : /\ transactions[t].key = queue[i].key
                                      /\ transactions[t].source # i

(* detectSaleConflict: some product was updated after the sale and has       *)
(* another price now.                                                        *)
SaleConflict(item) ==
    /\ item.type = "SALE" /\ item.payload # Blank
    /\ \E l \in item.payload.lines : /\ catalog[l.product].updatedAt > l.seen
                                     /\ catalog[l.product].price # l.price

(* detectLoyaltyConflict: the kinds of conflict it reports.  A balance the   *)
(* operation is expected to leave counts as acceptable.                      *)
LoyaltyConflict(item) ==
    IF item.type # "LOYALTY" THEN {}
    ELSE LET p == item.payload
         IN  IF ~Customer(item.branch, p.customer) THEN {"UNKNOWN"}
             ELSE IF /\ p.before # NoBalance
                     /\ \/ p.op = "REDEEM" /\ Below(p.before, p.amount)
                        \/ points[p.customer] \notin {p.before, Plus(p.before, Delta(p))}
                  THEN {"QUANTITY"} ELSE {}
SyncConflicts(item) ==
    (IF SaleConflict(item) THEN {"PRICE"} ELSE {}) \cup LoyaltyConflict(item)

(* What makes the try block throw: a sale without its fields, and the flag   *)
(* that applyQueuedLoyaltyMutation asserts.  Its other errors, an unknown    *)
(* customer and too few points, have been reported as conflicts before.      *)
SyncThrows(item) ==
    \/ item.type = "SALE" /\ item.payload = Blank
    \/ item.type = "LOYALTY" /\ ~rules.on

(* applyQueuedLoyaltyMutation posts only at the expected balance; of an      *)
(* accrual it does not test what the balance will be.                        *)
AppliesOnSync(item) ==
    /\ item.type = "LOYALTY"
    /\ item.payload.before # NoBalance
    /\ Same(points[item.payload.customer], item.payload.before)

SyncDefer(i) ==
    /\ HeadOf("sync", i) /\ BackoffActive(queue[i])
    /\ Done(i)
    /\ UNCHANGED <<now, queue, keys, transactions, conflicts, alerts, catalog,
                   points, rules, local, replays>>

(* Mutant of SyncExpire: nobody is alerted. *)
SyncExpireQuietly(i) ==
    /\ Attempt(i) /\ ReplayExpired(queue[i])
    /\ Update(i, "FAILED", queue[i].retries, 0)
    /\ Done(i)
    /\ UNCHANGED <<now, keys, transactions, conflicts, alerts, catalog, points,
                   rules, local, replays>>

SyncExpire(i) ==
    /\ Attempt(i) /\ ReplayExpired(queue[i])
    /\ Update(i, "FAILED", queue[i].retries, 0)
    /\ alerts' = alerts \cup
         {[branch |-> queue[i].branch, item |-> i, severity |-> "BLOCK"]}
    /\ Done(i)
    /\ UNCHANGED <<now, keys, transactions, conflicts, catalog, points,
                   rules, local, replays>>

(* The duplicate check and the catch block.  nextRetryAt is dropped, and     *)
(* staff alerted, at the last attempt of an operation that keeps throwing.   *)
SyncFail(i) ==
    /\ Due(i)
    /\ \/ AlreadySynced(i)
       \/ SyncConflicts(queue[i]) = {} /\ SyncThrows(queue[i])
    /\ LET retries   == Bumped(queue[i].retries)
           exhausted == ~AlreadySynced(i) /\ queue[i].retries + 1 >= MaxRetryAttempts
       IN  /\ Update(i, "FAILED", retries,
                     IF exhausted THEN 0 ELSE now + Backoff(retries))
           /\ alerts' = alerts \cup
                IF exhausted
                THEN {[branch |-> queue[i].branch, item |-> i, severity |-> "READ_ONLY"]}
                ELSE {}
    /\ Done(i)
    /\ UNCHANGED <<now, keys, transactions, conflicts, catalog, points,
                   rules, local, replays>>

SyncConflict(i) ==
    /\ Due(i) /\ ~AlreadySynced(i)
    /\ \E kind \in SyncConflicts(queue[i]) : Dispute(i, kind)
    /\ Update(i, "CONFLICT", queue[i].retries, queue[i].nextRetry)
    /\ Done(i)
    /\ UNCHANGED <<now, alerts, catalog, rules, local>>

SyncConfirm(i) ==
    /\ Due(i) /\ ~AlreadySynced(i)
    /\ SyncConflicts(queue[i]) = {} /\ ~SyncThrows(queue[i])
    /\ IF AppliesOnSync(queue[i]) THEN PostPoints(i)
                                  ELSE UNCHANGED <<points, replays>>
    /\ Commit(i)
    /\ Update(i, "CONFIRMED", queue[i].retries, 0)
    /\ Done(i)
    /\ UNCHANGED <<now, alerts, catalog, rules, local>>

SyncItem(i) == \/ SyncDefer(i) \/ SyncExpire(i) \/ SyncFail(i)
               \/ SyncConflict(i) \/ SyncConfirm(i)

EndSync ==
    /\ loop.by = "sync" /\ loop.todo = {}
    /\ loop' = NoLoop
    /\ alerts' = alerts \cup ProlongedOffline(loop.branch, queue)
    /\ UNCHANGED <<now, queue, keys, transactions, conflicts, catalog, points,
                   rules, local, replays>>

(* reconcile, one item: neither the retry fields nor the window is read.     *)
Duplicate(i) == queue[i].key \in keys \/ Keyed(transactions, queue[i].key)
ReconcileThrows(item) ==
    item.type = "LOYALTY" /\ (~rules.on \/ ~Customer(item.branch, item.payload.customer))
(* Mutant of BalanceConflict: the balance is compared, not checked to cover. *)
BalanceMoved(item) ==
    item.type = "LOYALTY" /\ item.payload.before # NoBalance
                          /\ ~Same(points[item.payload.customer], item.payload.before)
BalanceConflict(item) ==
    /\ item.type = "LOYALTY"
    /\ LET p == item.payload
       IN  \/ p.before # NoBalance /\ ~Same(points[p.customer], p.before)
           \/ Below(Plus(points[p.customer], Delta(p)), 0)

(* A report may also fail: its template may be closed to the caller's role.  *)
ReconcileFail(i) ==
    /\ HeadOf("reconcile", i)
    /\ Duplicate(i) \/ ReconcileThrows(queue[i]) \/ queue[i].type = "REPORT"
    /\ Update(i, "FAILED", queue[i].retries, queue[i].nextRetry)
    /\ Done(i)
    /\ UNCHANGED <<now, keys, transactions, conflicts, alerts, catalog, points,
                   rules, local, replays>>

ReconcileConflict(i) ==
    /\ HeadOf("reconcile", i)
    /\ ~Duplicate(i) /\ ~ReconcileThrows(queue[i]) /\ BalanceConflict(queue[i])
    /\ Dispute(i, "QUANTITY")
    /\ Update(i, "CONFLICT", queue[i].retries, queue[i].nextRetry)
    /\ Done(i)
    /\ UNCHANGED <<now, alerts, catalog, rules, local>>

(* Mutant of ReconcileConfirm: what follows the mutation fails. *)
ReconcilePostedOnly(i) ==
    /\ HeadOf("reconcile", i)
    /\ ~Duplicate(i) /\ ~ReconcileThrows(queue[i]) /\ ~BalanceConflict(queue[i])
    /\ IF queue[i].type = "LOYALTY" THEN PostPoints(i)
                                    ELSE UNCHANGED <<points, replays>>
    /\ Update(i, "FAILED", queue[i].retries, queue[i].nextRetry)
    /\ Done(i)
    /\ UNCHANGED <<now, keys, transactions, conflicts, alerts, catalog, rules, local>>

ReconcileConfirm(i) ==
    /\ HeadOf("reconcile", i)
    /\ ~Duplicate(i) /\ ~ReconcileThrows(queue[i]) /\ ~BalanceConflict(queue[i])
    /\ IF queue[i].type = "LOYALTY" THEN PostPoints(i)
                                    ELSE UNCHANGED <<points, replays>>
    /\ Commit(i)
    /\ Update(i, "CONFIRMED", queue[i].retries, queue[i].nextRetry)
    /\ Done(i)
    /\ UNCHANGED <<now, alerts, catalog, rules, local>>

ReconcileItem(i) ==
    ReconcileFail(i) \/ ReconcileConflict(i) \/ ReconcileConfirm(i)

EndReconcile ==
    /\ loop.by = "reconcile" /\ loop.todo = {}
    /\ loop' = NoLoop
    /\ UNCHANGED <<now, queue, keys, transactions, conflicts, alerts, catalog,
                   points, rules, local, replays>>

-----------------------------------------------------------------------------
(***************************************************************************)
(* Staff and time                                                          *)
(***************************************************************************)
(* Mutant of ResolveConflict: the queue is left alone. *)
ResolveRecordOnly(n) ==
    /\ Handler("conflicts")
    /\ conflicts' = [conflicts EXCEPT ![n].status = "RESOLVED"]
    /\ UNCHANGED <<now, queue, keys, transactions, alerts, catalog, points,
                   rules, loop, local, replays>>

(* The record is found by id alone: its status is not checked. *)
ResolveConflict(n) ==
    /\ Handler("conflicts")
    /\ conflicts' = [conflicts EXCEPT ![n].status = "RESOLVED"]
    /\ LET i == conflicts[n].item
       IN  /\ queue' = [queue EXCEPT ![i] = [@ EXCEPT !.state = "CONFIRMED"]]
           /\ keys' = keys \cup {queue[i].key}
    /\ UNCHANGED <<now, transactions, alerts, catalog, points, rules, loop,
                   local, replays>>

EscalateConflict(n) ==
    /\ Handler("conflicts")
    /\ conflicts' = [conflicts EXCEPT ![n].status = "ESCALATED"]
    /\ UNCHANGED <<now, queue, keys, transactions, alerts, catalog, points,
                   rules, loop, local, replays>>

AcknowledgeAlert(a) ==
    /\ Handler("offline/alerts")
    /\ alerts' = alerts \ {a}
    /\ UNCHANGED <<now, queue, keys, transactions, conflicts, catalog, points,
                   rules, loop, local, replays>>

Tick ==
    /\ now < Horizon
    /\ now' = now + 1
    /\ UNCHANGED <<queue, keys, transactions, conflicts, alerts, catalog,
                   points, rules, loop, local, replays>>

Request(b, k) ==
    \/ EnqueueRaw(b, k) \/ QueueLoyalty(b, k) \/ QueueReport(b, k)
    \/ InventoryOffline(b, k) \/ CheckoutOffline(b, k) \/ CheckoutOnline(b, k)
    \/ AccrueOffline(b, k) \/ RedeemOffline(b, k)

Next ==
    \/ \E b \in Branches : \/ \E k \in Uuids : Request(b, k)
                           \/ AccrueOnline(b) \/ RedeemOnline(b)
                           \/ StartSync(b) \/ StartReconcile(b)
    \/ \E p \in Products : UpdateProduct(p)
    \/ ToggleLoyaltyRules \/ UpdateRule
    \/ \E i \in DOMAIN queue : SyncItem(i) \/ ReconcileItem(i)
    \/ EndSync \/ EndReconcile
    \/ \E n \in DOMAIN conflicts : ResolveConflict(n) \/ EscalateConflict(n)
    \/ \E a \in alerts : AcknowledgeAlert(a)
    \/ Tick

Spec == Init /\ [][Next]_vars

(* Fairness.  The clock advances; a loop that has begun runs to its end (it  *)
(* is synchronous code); and a branch that keeps asking for a sync is served *)
(* eventually, since the event loop takes requests in the order they came.   *)
LoopStep == (\E i \in DOMAIN queue : SyncItem(i) \/ ReconcileItem(i)) \/ EndSync \/ EndReconcile
FairSpec == /\ Spec
            /\ WF_vars(Tick)
            /\ WF_vars(LoopStep)
            /\ \A b \in Branches : SF_vars(StartSync(b))

-----------------------------------------------------------------------------
(***************************************************************************)
(* Properties                                                              *)
(***************************************************************************)
TypeOK ==
    /\ now \in Nat
    /\ queue \in Seq(QueueItems)
    /\ keys \subseteq Uuids
    /\ transactions \in Seq(Transactions)
    /\ conflicts \in Seq(ConflictRecords)
    /\ alerts \subseteq Alerts
    /\ catalog \in [Products -> [price : Prices, updatedAt : Nat]]
    /\ points \in [Customers -> Number]
    /\ rules \in [on : BOOLEAN, minRedeem : Nat]
    /\ loop \in Loops
    /\ local \in [Uuids -> 0 .. 2]
    /\ replays \in [Uuids -> 0 .. 2]

(* However checkouts, replays, retries and resolutions interleave, a key     *)
(* never gets a second transaction.                                          *)
AtMostOneTransactionPerKey ==
    \A s, t \in DOMAIN transactions :
        transactions[s].key = transactions[t].key => s = t

(* An operation that is not confirmed has left nothing behind: its key is    *)
(* neither remembered as used nor on a transaction.  So the duplicate branch *)
(* of the two loops never hits an operation accepted by this server.         *)
UnconfirmedIsUncommitted ==
    \A i \in DOMAIN queue : queue[i].state # "CONFIRMED" =>
        queue[i].key \notin keys /\ ~Keyed(transactions, queue[i].key)

(* A confirmed operation can be accounted for: its key is remembered, and    *)
(* either a transaction names it as its source or a conflict record, once    *)
(* adjudicated, does.                                                        *)
ConfirmedIsAccountedFor ==
    \A i \in DOMAIN queue : queue[i].state = "CONFIRMED" =>
        /\ queue[i].key \in keys
        /\ \/ \E t \in DOMAIN transactions : transactions[t].source = i
           \/ \E n \in DOMAIN conflicts : conflicts[n].item = i /\ conflicts[n].status # "OPEN"

(* The queue and the conflict list agree, although resolve and escalate can  *)
(* be called on a record any number of times in any order.                   *)
ConflictsMatchQueue ==
    /\ \A n \in DOMAIN conflicts :
          /\ conflicts[n].item \in DOMAIN queue
          /\ conflicts[n].branch = queue[conflicts[n].item].branch
          /\ queue[conflicts[n].item].state \notin Replayable
          /\ conflicts[n].status = "OPEN" => queue[conflicts[n].item].state = "CONFLICT"
          /\ conflicts[n].status = "RESOLVED" => queue[conflicts[n].item].state = "CONFIRMED"
    /\ \A i \in DOMAIN queue : queue[i].state = "CONFLICT" =>
          \E n \in DOMAIN conflicts : conflicts[n].item = i
    /\ \A m, n \in DOMAIN conflicts : conflicts[m].item = conflicts[n].item => m = n

(* A balance is spoilt, below zero or no number at all, only by a payload    *)
(* that a client sent as it is to POST sync/queue and that was posted since: *)
(* one without points, or an accrual of a negative number of them, and then  *)
(* the balance is never lower than what that client foresaw.  Whatever else  *)
(* is requested, replayed twice over or retried, nothing is overdrawn.       *)
Spoilt(c) == points[c] = NaN \/ points[c] < 0
Explains(i, c) ==
    LET p == queue[i].payload
    IN  /\ queue[i].type = "LOYALTY" /\ p \in RawPayloads /\ p.customer = c
        /\ queue[i].state = "CONFIRMED" /\ replays[queue[i].key] > 0
        /\ IF points[c] = NaN THEN p.amount = NaN
           ELSE /\ p.op = "ACCRUE" /\ Below(p.amount, 0)
                /\ p.before \in Int /\ p.before + p.amount <= points[c]
OverdrawnByRawPayloadOnly ==
    \A c \in Customers : Spoilt(c) => \E i \in DOMAIN queue : Explains(i, c)

(* Retries never post the same queued loyalty mutation twice. *)
ReplayPostsOnce == \A k \in Uuids : replays[k] <= 1

(* A confirmed operation is not touched again, and a disputed one leaves     *)
(* dispute only by a manager's resolution, never by a retry.                 *)
SettledForever ==
    [][\A i \in DOMAIN queue :
          /\ queue[i].state = "CONFIRMED" => queue'[i] = queue[i]
          /\ queue[i].state = "CONFLICT" /\ queue'[i].state # "CONFLICT" =>
                \E n \in DOMAIN conflicts :
                    conflicts[n].item = i /\ conflicts'[n].status = "RESOLVED"]_vars

(* Past its replay window a sale or a stock movement is never posted.        *)
StaleSalesNotReplayed ==
    [][\A i \in DOMAIN queue :
          /\ queue[i].type \in {"SALE", "INVENTORY"}
          /\ queue[i].state \in Replayable
          /\ ReplayExpired(queue[i])
          => queue'[i].state \in Replayable]_vars

(* Every accepted operation is eventually confirmed, disputed before staff,  *)
(* or brought to their attention by an alert: none is silently stuck.        *)
NoSilentStall ==
    \A i \in 1 .. MaxQueue :
        (i \in DOMAIN queue /\ queue[i].state \in Replayable)
          ~> \/ i \in DOMAIN queue /\ queue[i].state \notin Replayable
             \/ \E a \in alerts : a.item = i

(* The queue implements OperationLedger: seen from outside, each request,    *)
(* replay, retry and resolution is one lifecycle step of one key, or none.   *)
Phase(k) ==
    IF Keyed(queue, k)
    THEN LET item == queue[CHOOSE i \in DOMAIN queue : queue[i].key = k]
         IN  CASE item.state \in Replayable -> "accepted"
               [] item.state = "CONFLICT"   -> "disputed"
               [] item.state = "CONFIRMED"  ->
                    IF Keyed(transactions, k) THEN "posted" ELSE "adjudicated"
    ELSE IF Keyed(transactions, k) THEN "posted" ELSE "unknown"
Receipts(k) == Cardinality({t \in DOMAIN transactions : transactions[t].key = k})

Ledger == INSTANCE OperationLedger WITH
              phase    <- [k \in Uuids |-> Phase(k)],
              receipts <- [k \in Uuids |-> Receipts(k)]
ImplementsLedger == Ledger!Spec

-----------------------------------------------------------------------------
(***************************************************************************)
(* What the documents say and the code does not do                         *)
(***************************************************************************)
(* "Replayed events are idempotent on server" (docs/FRD-v1.1.md): replaying  *)
(* a mutation that was posted when it was recorded posts nothing.            *)
ReplayIsIdempotent == \A k \in Uuids : local[k] > 0 => replays[k] = 0
=============================================================================
