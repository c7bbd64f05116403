-------------------------- MODULE OfflineSync_proofs --------------------------
(***************************************************************************)
(* Theorems about OfflineSync, for every value of its constants.           *)
(***************************************************************************)
EXTENDS OfflineSync, SequenceTheorems, FiniteSetTheorems, TLAPS

-----------------------------------------------------------------------------
(* Sequences that grow at the end or change in one place. *)

LEMMA Appended ==
    ASSUME NEW S, NEW s \in Seq(S), NEW e \in S
    PROVE  /\ Append(s, e) \in Seq(S)
           /\ DOMAIN s = 1 .. Len(s) /\ Len(s) \in Nat
           /\ DOMAIN Append(s, e) = DOMAIN s \cup {Len(s) + 1}
           /\ Len(s) + 1 \notin DOMAIN s
           /\ \A i \in DOMAIN s : Append(s, e)[i] = s[i]
           /\ Append(s, e)[Len(s) + 1] = e
<1>1. /\ Append(s, e) \in Seq(S)
      /\ Len(Append(s, e)) = Len(s) + 1
      /\ \A i \in 1 .. Len(s) : Append(s, e)[i] = s[i]
      /\ Append(s, e)[Len(s) + 1] = e
  OBVIOUS
<1>2. /\ DOMAIN s = 1 .. Len(s) /\ Len(s) \in Nat
      /\ DOMAIN Append(s, e) = 1 .. Len(s) + 1
  BY <1>1
<1>3. 1 .. Len(s) + 1 = (1 .. Len(s)) \cup {Len(s) + 1}
  BY <1>2
<1> QED
  BY <1>1, <1>2, <1>3

LEMMA Updated ==
    ASSUME NEW S, NEW s \in Seq(S), NEW i \in DOMAIN s, NEW e \in S
    PROVE  /\ [s EXCEPT ![i] = e] \in Seq(S)
           /\ DOMAIN [s EXCEPT ![i] = e] = DOMAIN s
           /\ [s EXCEPT ![i] = e][i] = e
           /\ \A j \in DOMAIN s : j # i => [s EXCEPT ![i] = e][j] = s[j]
<1>1. DOMAIN s = 1 .. Len(s)
  BY LenProperties
<1> QED
  BY <1>1, ExceptSeq

LEMMA Element ==
    ASSUME NEW S, NEW s \in Seq(S), NEW i \in DOMAIN s
    PROVE  s[i] \in S
  BY LenProperties, ElementOfSeq

LEMMA BackoffType ==
    ASSUME NEW n
    PROVE  Backoff(n) \in Nat
  BY PolicyAssumption DEF Backoff

-----------------------------------------------------------------------------
(* Type correctness *)

(* Balances *)

LEMMA PlusType ==
    ASSUME NEW x \in Number, NEW y \in Number
    PROVE  Plus(x, y) \in Number
  BY DEF Plus, Number

LEMMA InitType == Init => TypeOK
<1> SUFFICES ASSUME Init PROVE TypeOK
  OBVIOUS
<1>1. points \in [Customers -> Number]
  BY PolicyAssumption, DataAssumption DEF Init, Number
<1>2. queue \in Seq(QueueItems) /\ transactions \in Seq(Transactions)
      /\ conflicts \in Seq(ConflictRecords)
  BY EmptySeq DEF Init
<1>3. catalog \in [Products -> [price : Prices, updatedAt : Nat]]
  BY DEF Init
<1>4. rules \in [on : BOOLEAN, minRedeem : Nat]
  BY PolicyAssumption DEF Init
<1> QED
  BY <1>1, <1>2, <1>3, <1>4 DEF Init, TypeOK, NoLoop, Loops

LEMMA NewItemType ==
    ASSUME now \in Nat, NEW b \in Branches, NEW k \in Uuids, NEW type \in EventTypes,
           NEW payload \in Payloads, Fits(type, payload)
    PROVE  NewItem(b, k, type, payload) \in QueueItems
  BY PolicyAssumption DEF NewItem, QueueItems, QueueStates, Replayable

LEMMA EnqueueType ==
    ASSUME TypeOK, NEW b \in Branches, NEW k \in Uuids, NEW type \in EventTypes,
           NEW payload \in Payloads, Fits(type, payload),
           EnqueueEvent(b, k, type, payload)
    PROVE  queue' \in Seq(QueueItems) /\ alerts' \subseteq Alerts
<1>1. queue' \in Seq(QueueItems)
  BY NewItemType, Appended DEF EnqueueEvent, TypeOK
<1>2. ProlongedOffline(b, queue') \subseteq Alerts
  BY DEF ProlongedOffline, Alerts
<1> QED
  BY <1>1, <1>2 DEF EnqueueEvent, TypeOK

LEMMA BlankFits ==
    ASSUME NEW type \in EventTypes \ {"LOYALTY"}
    PROVE  Blank \in Payloads /\ Fits(type, Blank)
  BY DEF Payloads, Fits

LEMMA LoyaltyFits ==
    ASSUME NEW payload \in LoyaltyPayloads
    PROVE  "LOYALTY" \in EventTypes /\ payload \in Payloads /\ Fits("LOYALTY", payload)
  BY DEF Payloads, Fits, EventTypes

LEMMA PayType ==
    ASSUME TypeOK, NEW c \in Customers, NEW amount \in Number, Pay(c, amount)
    PROVE  points' \in [Customers -> Number]
<1>1. Plus(points[c], amount) \in Number
  BY PlusType DEF TypeOK
<1> QED
  BY <1>1 DEF TypeOK, Pay

(* The amounts that the routes check are numbers, and so are their negatives. *)
LEMMA AmountType ==
    ASSUME NEW amount \in Amounts
    PROVE  amount \in Nat \ {0} /\ amount \in Number /\ -amount \in Number
  BY DataAssumption DEF Number

LEMMA RoutePayload ==
    ASSUME TypeOK, NEW op \in {"ACCRUE", "REDEEM"}, NEW c \in Customers,
           NEW amount \in Amounts, NEW before \in Number
    PROVE  [op |-> op, customer |-> c, amount |-> amount, before |-> before]
             \in LoyaltyPayloads
  BY AmountType DEF LoyaltyPayloads

LEMMA CountType ==
    ASSUME NEW f \in [Uuids -> 0 .. 2], NEW k \in Uuids
    PROVE  Count(f, k) \in [Uuids -> 0 .. 2]
  BY DEF Count

LEMMA UpdateType ==
    ASSUME TypeOK, NEW i \in DOMAIN queue, NEW state \in QueueStates,
           NEW retries \in 0 .. MaxRetryAttempts, NEW nextRetry \in Nat,
           Update(i, state, retries, nextRetry)
    PROVE  queue' \in Seq(QueueItems)
<1>1. queue[i] \in QueueItems
  BY Element DEF TypeOK
<1>2. [queue[i] EXCEPT !.state = state, !.retries = retries, !.nextRetry = nextRetry]
        \in QueueItems
  BY <1>1 DEF QueueItems
<1> QED
  BY <1>2, Updated DEF Update, TypeOK

LEMMA SaleAccrualType ==
    ASSUME TypeOK, NEW b, NEW c \in Customers \cup {NoOne}, SaleAccrual(b, c)
    PROVE  points' \in [Customers -> Number]
<1>1. CASE c \in Customers
  <2>1. CASE \E amount \in Amounts : Room(c, amount) /\ Pay(c, amount)
    BY <1>1, <2>1, AmountType, PayType
  <2>2. CASE UNCHANGED points
    BY <2>2 DEF TypeOK
  <2> QED
    BY <2>1, <2>2 DEF SaleAccrual
<1>2. CASE c = NoOne
  BY <1>2 DEF SaleAccrual, Customer, TypeOK
<1> QED
  BY <1>1, <1>2

LEMMA EnqueueAppliedType ==
    ASSUME TypeOK, NEW b \in Branches, NEW k \in Uuids, NEW payload \in LoyaltyPayloads,
           EnqueueApplied(b, k, payload)
    PROVE  /\ queue' \in Seq(QueueItems) /\ alerts' \subseteq Alerts
           /\ local' \in [Uuids -> 0 .. 2]
<1>1. local' \in [Uuids -> 0 .. 2]
  BY CountType DEF EnqueueApplied, TypeOK
<1>2. CASE EnqueueEvent(b, k, "LOYALTY", payload)
  BY <1>1, <1>2, LoyaltyFits, EnqueueType
<1>3. CASE UNCHANGED <<queue, alerts>>
  BY <1>1, <1>3 DEF TypeOK
<1> QED
  BY <1>2, <1>3 DEF EnqueueApplied

LEMMA RequestType ==
    ASSUME TypeOK, NEW b \in Branches, NEW k \in Uuids, Request(b, k)
    PROVE  TypeOK'
<1>1. CASE EnqueueRaw(b, k)
  <2>1. queue' \in Seq(QueueItems) /\ alerts' \subseteq Alerts
    BY <1>1, RawAssumption, EnqueueType DEF EnqueueRaw
  <2> QED
    BY <1>1, <2>1 DEF EnqueueRaw, TypeOK
<1>2. CASE QueueLoyalty(b, k)
  <2>1. PICK op \in {"ACCRUE", "REDEEM"}, c \in Customers, amount \in Amounts :
             EnqueueEvent(b, k, "LOYALTY", [op |-> op, customer |-> c,
                                            amount |-> amount, before |-> points[c]])
    BY <1>2 DEF QueueLoyalty
  <2>2. [op |-> op, customer |-> c, amount |-> amount, before |-> points[c]]
          \in LoyaltyPayloads
    BY RoutePayload DEF TypeOK
  <2> QED
    BY <1>2, <2>1, <2>2, LoyaltyFits, EnqueueType DEF QueueLoyalty, TypeOK
<1>3. CASE QueueReport(b, k)
  <2>1. queue' \in Seq(QueueItems) /\ alerts' \subseteq Alerts
    BY <1>3, BlankFits, EnqueueType DEF QueueReport, EventTypes
  <2> QED
    BY <1>3, <2>1 DEF QueueReport, TypeOK
<1>4. CASE InventoryOffline(b, k)
  <2>1. queue' \in Seq(QueueItems) /\ alerts' \subseteq Alerts
    BY <1>4, BlankFits, EnqueueType DEF InventoryOffline, EventTypes
  <2> QED
    BY <1>4, <2>1 DEF InventoryOffline, TypeOK
<1>5. CASE CheckoutOffline(b, k)
  <2>1. PICK basket \in (SUBSET Products) \ {{}} :
             EnqueueEvent(b, k, "SALE",
                 [lines |-> {[product |-> p, price |-> catalog[p].price,
                              seen |-> catalog[p].updatedAt] : p \in basket}])
    BY <1>5 DEF CheckoutOffline
  <2>2. [lines |-> {[product |-> p, price |-> catalog[p].price,
                     seen |-> catalog[p].updatedAt] : p \in basket}] \in SalePayloads
    BY DEF SalePayloads, SaleLines, TypeOK
  <2>3. queue' \in Seq(QueueItems) /\ alerts' \subseteq Alerts
    BY <2>1, <2>2, EnqueueType DEF Fits, Payloads, EventTypes
  <2>4. points' \in [Customers -> Number]
    BY <1>5, SaleAccrualType DEF CheckoutOffline
  <2> QED
    BY <1>5, <2>3, <2>4 DEF CheckoutOffline, TypeOK
<1>6. CASE CheckoutOnline(b, k)
  <2>1. transactions' \in Seq(Transactions)
    <3>1. [key |-> k, source |-> 0] \in Transactions
      BY DEF Transactions
    <3> QED
      BY <1>6, <3>1, Appended DEF CheckoutOnline, TypeOK
  <2>2. points' \in [Customers -> Number]
    BY <1>6, SaleAccrualType DEF CheckoutOnline
  <2>3. keys' \subseteq Uuids
    BY <1>6 DEF CheckoutOnline, TypeOK
  <2> QED
    BY <1>6, <2>1, <2>2, <2>3 DEF CheckoutOnline, TypeOK
<1>7. CASE AccrueOffline(b, k)
  <2>1. PICK c \in Customers, amount \in Amounts :
             /\ Pay(c, amount)
             /\ EnqueueApplied(b, k, [op |-> "ACCRUE", customer |-> c, amount |-> amount,
                                      before |-> Plus(points'[c], -amount)])
    BY <1>7 DEF AccrueOffline, Records
  <2>2. points' \in [Customers -> Number]
    BY <2>1, PayType, AmountType
  <2>3. [op |-> "ACCRUE", customer |-> c, amount |-> amount,
         before |-> Plus(points'[c], -amount)] \in LoyaltyPayloads
    BY <2>2, AmountType, PlusType, RoutePayload
  <2>4. /\ queue' \in Seq(QueueItems) /\ alerts' \subseteq Alerts
        /\ local' \in [Uuids -> 0 .. 2]
    BY <2>1, <2>3, EnqueueAppliedType
  <2> QED
    BY <1>7, <2>2, <2>4 DEF AccrueOffline, TypeOK
<1>8. CASE RedeemOffline(b, k)
  <2>1. PICK c \in Customers, amount \in Amounts :
             /\ Pay(c, -amount)
             /\ EnqueueApplied(b, k, [op |-> "REDEEM", customer |-> c,
                                      amount |-> amount, before |-> points[c]])
    BY <1>8 DEF RedeemOffline
  <2>2. points' \in [Customers -> Number]
    BY <2>1, PayType, AmountType
  <2>3. [op |-> "REDEEM", customer |-> c, amount |-> amount, before |-> points[c]]
          \in LoyaltyPayloads
    BY RoutePayload DEF TypeOK
  <2>4. /\ queue' \in Seq(QueueItems) /\ alerts' \subseteq Alerts
        /\ local' \in [Uuids -> 0 .. 2]
    BY <2>1, <2>3, EnqueueAppliedType
  <2> QED
    BY <1>8, <2>2, <2>4 DEF RedeemOffline, TypeOK
<1> QED
  BY <1>1, <1>2, <1>3, <1>4, <1>5, <1>6, <1>7, <1>8 DEF Request

LEMMA StartLoopType ==
    ASSUME TypeOK, NEW by \in {"sync", "reconcile"}, NEW b \in Branches,
           NEW snapshot \in SUBSET DOMAIN queue, StartLoop(by, b, snapshot)
    PROVE  TypeOK'
<1>1. DOMAIN queue \subseteq Nat
  BY LenProperties DEF TypeOK
<1>2. loop' \in Loops
  BY <1>1 DEF StartLoop, Loops
<1> QED
  BY <1>2 DEF StartLoop, TypeOK

(* What a loop step leaves typed, whatever becomes of the item. *)
LEMMA HeadType ==
    ASSUME TypeOK, NEW by \in {"sync", "reconcile"}, NEW i \in DOMAIN queue,
           HeadOf(by, i), Done(i)
    PROVE  /\ loop' \in Loops /\ loop.branch \in Branches
           /\ queue[i] \in QueueItems
           /\ queue[i].retries \in 0 .. MaxRetryAttempts
           /\ queue[i].nextRetry \in Nat
           /\ i \in Nat \ {0}
<1>1. loop \in [by : {"sync", "reconcile"}, branch : Branches, todo : SUBSET Nat]
  BY DEF TypeOK, Loops, NoLoop, HeadOf
<1>2. loop' \in Loops
  BY <1>1 DEF Done, Loops
<1>3. queue[i] \in QueueItems
  BY Element DEF TypeOK
<1>4. i \in Nat \ {0}
  BY LenProperties DEF TypeOK
<1> QED
  BY <1>1, <1>2, <1>3, <1>4 DEF QueueItems

LEMMA CommitType ==
    ASSUME TypeOK, NEW i \in DOMAIN queue, i \in Nat, queue[i] \in QueueItems, Commit(i)
    PROVE  /\ keys' \subseteq Uuids /\ transactions' \in Seq(Transactions)
           /\ conflicts' \in Seq(ConflictRecords)
<1>1. [key |-> queue[i].key, source |-> i] \in Transactions /\ queue[i].key \in Uuids
  BY DEF QueueItems, Transactions
<1>2. transactions' \in Seq(Transactions)
  BY <1>1, Appended DEF Commit, TypeOK
<1> QED
  BY <1>1, <1>2 DEF Commit, TypeOK

LEMMA DisputeType ==
    ASSUME TypeOK, NEW i \in Nat \ {0}, NEW kind \in {"PRICE", "QUANTITY", "UNKNOWN"},
           loop.branch \in Branches, Dispute(i, kind)
    PROVE  /\ conflicts' \in Seq(ConflictRecords)
           /\ UNCHANGED <<keys, transactions, points, replays>>
<1>1. [item |-> i, branch |-> loop.branch, kind |-> kind, status |-> "OPEN"]
        \in ConflictRecords
  BY DEF ConflictRecords
<1> QED
  BY <1>1, Appended DEF Dispute, TypeOK

LEMMA DeltaType ==
    ASSUME NEW payload \in LoyaltyPayloads
    PROVE  payload.amount \in Number /\ Delta(payload) \in Number
  BY DEF LoyaltyPayloads, Delta, Number

(* A mutation is posted for a customer of the branch that recorded it. *)
LEMMA PostedPayload ==
    ASSUME NEW item \in QueueItems, item.type = "LOYALTY",
           Customer(item.branch, item.payload.customer)
    PROVE  item.payload \in LoyaltyPayloads /\ item.payload.customer \in Customers
<1>1. item.payload \in LoyaltyPayloads
  BY DEF QueueItems, Fits
<1> QED
  BY <1>1 DEF LoyaltyPayloads, Customer

LEMMA SyncedCustomer ==
    ASSUME NEW item, item.type = "LOYALTY", SyncConflicts(item) = {}
    PROVE  Customer(item.branch, item.payload.customer)
  BY DEF SyncConflicts, LoyaltyConflict

LEMMA PostPointsType ==
    ASSUME TypeOK, NEW i \in DOMAIN queue, queue[i] \in QueueItems,
           queue[i].type = "LOYALTY", Customer(queue[i].branch, queue[i].payload.customer),
           PostPoints(i)
    PROVE  points' \in [Customers -> Number] /\ replays' \in [Uuids -> 0 .. 2]
<1>1. /\ queue[i].payload \in LoyaltyPayloads /\ queue[i].payload.customer \in Customers
      /\ queue[i].key \in Uuids
  BY PostedPayload DEF QueueItems
<1>2. Delta(queue[i].payload) \in Number
  BY <1>1, DeltaType
<1>3. points' \in [Customers -> Number]
  BY <1>1, <1>2, PayType DEF PostPoints
<1>4. replays' \in [Uuids -> 0 .. 2]
  BY <1>1, CountType DEF PostPoints, TypeOK
<1> QED
  BY <1>3, <1>4
LEMMA ConflictKinds ==
    ASSUME NEW item, NEW kind \in SyncConflicts(item)
    PROVE  kind \in {"PRICE", "QUANTITY", "UNKNOWN"}
<1>1. (IF SaleConflict(item) THEN {"PRICE"} ELSE {}) \subseteq {"PRICE"}
  OBVIOUS
<1>2. LoyaltyConflict(item) \subseteq {"QUANTITY", "UNKNOWN"}
  BY DEF LoyaltyConflict
<1> QED
  BY <1>1, <1>2 DEF SyncConflicts

LEMMA SyncItemType ==
    ASSUME TypeOK, NEW i \in DOMAIN queue, SyncItem(i)
    PROVE  TypeOK'
<1>1. HeadOf("sync", i) /\ Done(i)
  BY DEF SyncItem, SyncDefer, SyncExpire, SyncFail, SyncConflict, SyncConfirm, Due, Attempt
<1>2. /\ loop' \in Loops /\ loop.branch \in Branches
      /\ queue[i] \in QueueItems
      /\ queue[i].retries \in 0 .. MaxRetryAttempts
      /\ queue[i].nextRetry \in Nat
      /\ i \in Nat \ {0}
  BY <1>1, HeadType
<1>3. CASE SyncDefer(i)
  BY <1>2, <1>3 DEF SyncDefer, TypeOK
<1>4. CASE SyncExpire(i)
  <2>1. queue' \in Seq(QueueItems)
    BY <1>2, <1>4, UpdateType DEF SyncExpire, QueueStates, Replayable
  <2>2. [branch |-> queue[i].branch, item |-> i, severity |-> "BLOCK"] \in Alerts
    BY <1>2 DEF Alerts, QueueItems
  <2> QED
    BY <1>2, <1>4, <2>1, <2>2 DEF SyncExpire, TypeOK
<1>5. CASE SyncFail(i)
  <2> DEFINE retries   == Bumped(queue[i].retries)
             exhausted == ~AlreadySynced(i) /\ queue[i].retries + 1 >= MaxRetryAttempts
             next      == IF exhausted THEN 0 ELSE now + Backoff(retries)
  <2>1. retries \in 0 .. MaxRetryAttempts
    BY <1>2, PolicyAssumption DEF Bumped
  <2>2. next \in Nat
    BY BackoffType DEF TypeOK
  <2>3. Update(i, "FAILED", retries, next)
    BY <1>5 DEF SyncFail
  <2> HIDE DEF retries, next
  <2>4. queue' \in Seq(QueueItems)
    BY <2>1, <2>2, <2>3, UpdateType DEF QueueStates, Replayable
  <2>5. [branch |-> queue[i].branch, item |-> i, severity |-> "READ_ONLY"] \in Alerts
    BY <1>2 DEF Alerts, QueueItems
  <2>6. alerts' \subseteq Alerts
    BY <1>5, <2>5 DEF SyncFail, TypeOK
  <2> QED
    BY <1>2, <1>5, <2>4, <2>6 DEF SyncFail, TypeOK
<1>6. CASE SyncConflict(i)
  <2>1. PICK kind \in SyncConflicts(queue[i]) : Dispute(i, kind)
    BY <1>6 DEF SyncConflict
  <2>2. /\ conflicts' \in Seq(ConflictRecords)
        /\ UNCHANGED <<keys, transactions, points, replays>>
    BY <1>2, <2>1, ConflictKinds, DisputeType
  <2>3. queue' \in Seq(QueueItems)
    BY <1>2, <1>6, UpdateType DEF SyncConflict, QueueStates
  <2> QED
    BY <1>2, <1>6, <2>2, <2>3 DEF SyncConflict, TypeOK
<1>7. CASE SyncConfirm(i)
  <2>1. /\ keys' \subseteq Uuids /\ transactions' \in Seq(Transactions)
        /\ conflicts' \in Seq(ConflictRecords)
    BY <1>2, <1>7, CommitType DEF SyncConfirm
  <2>2. queue' \in Seq(QueueItems)
    BY <1>2, <1>7, UpdateType DEF SyncConfirm, QueueStates
  <2>3. points' \in [Customers -> Number] /\ replays' \in [Uuids -> 0 .. 2]
    <3>1. CASE AppliesOnSync(queue[i])
      BY <1>2, <1>7, <3>1, SyncedCustomer, PostPointsType DEF SyncConfirm, AppliesOnSync
    <3>2. CASE ~AppliesOnSync(queue[i])
      BY <1>7, <3>2 DEF SyncConfirm, TypeOK
    <3> QED
      BY <3>1, <3>2
  <2> QED
    BY <1>2, <1>7, <2>1, <2>2, <2>3 DEF SyncConfirm, TypeOK
<1> QED
  BY <1>3, <1>4, <1>5, <1>6, <1>7 DEF SyncItem

LEMMA ReconcileItemType ==
    ASSUME TypeOK, NEW i \in DOMAIN queue, ReconcileItem(i)
    PROVE  TypeOK'
<1>1. HeadOf("reconcile", i) /\ Done(i)
  BY DEF ReconcileItem, ReconcileFail, ReconcileConflict, ReconcileConfirm
<1>2. /\ loop' \in Loops /\ loop.branch \in Branches
      /\ queue[i] \in QueueItems
      /\ queue[i].retries \in 0 .. MaxRetryAttempts
      /\ queue[i].nextRetry \in Nat
      /\ i \in Nat \ {0}
  BY <1>1, HeadType
<1>3. CASE ReconcileFail(i)
  <2>1. queue' \in Seq(QueueItems)
    BY <1>2, <1>3, UpdateType DEF ReconcileFail, QueueStates, Replayable
  <2> QED
    BY <1>2, <1>3, <2>1 DEF ReconcileFail, TypeOK
<1>4. CASE ReconcileConflict(i)
  <2>1. /\ conflicts' \in Seq(ConflictRecords)
        /\ UNCHANGED <<keys, transactions, points, replays>>
    BY <1>2, <1>4, DisputeType DEF ReconcileConflict
  <2>2. queue' \in Seq(QueueItems)
    BY <1>2, <1>4, UpdateType DEF ReconcileConflict, QueueStates
  <2> QED
    BY <1>2, <1>4, <2>1, <2>2 DEF ReconcileConflict, TypeOK
<1>5. CASE ReconcileConfirm(i)
  <2>1. /\ keys' \subseteq Uuids /\ transactions' \in Seq(Transactions)
        /\ conflicts' \in Seq(ConflictRecords)
    BY <1>2, <1>5, CommitType DEF ReconcileConfirm
  <2>2. queue' \in Seq(QueueItems)
    BY <1>2, <1>5, UpdateType DEF ReconcileConfirm, QueueStates
  <2>3. points' \in [Customers -> Number] /\ replays' \in [Uuids -> 0 .. 2]
    <3>1. CASE queue[i].type = "LOYALTY"
      BY <1>2, <1>5, <3>1, PostPointsType DEF ReconcileConfirm, ReconcileThrows
    <3>2. CASE queue[i].type # "LOYALTY"
      BY <1>5, <3>2 DEF ReconcileConfirm, TypeOK
    <3> QED
      BY <3>1, <3>2
  <2> QED
    BY <1>2, <1>5, <2>1, <2>2, <2>3 DEF ReconcileConfirm, TypeOK
<1> QED
  BY <1>3, <1>4, <1>5 DEF ReconcileItem
(* Staff settle the item a record names, so the records must name items. *)
RecordsNameItems == \A n \in DOMAIN conflicts : conflicts[n].item \in DOMAIN queue

LEMMA NextType ==
    ASSUME TypeOK, RecordsNameItems, [Next]_vars
    PROVE  TypeOK'
<1>1. ASSUME NEW b \in Branches, NEW k \in Uuids, Request(b, k)
      PROVE  TypeOK'
  BY <1>1, RequestType
<1>2. ASSUME NEW b \in Branches, AccrueOnline(b) \/ RedeemOnline(b)
      PROVE  TypeOK'
  <2>1. PICK c \in Customers, amount \in Number : Pay(c, amount)
    BY <1>2, AmountType DEF AccrueOnline, RedeemOnline, Records
  <2>2. points' \in [Customers -> Number]
    BY <2>1, PayType
  <2> QED
    BY <1>2, <2>2 DEF AccrueOnline, RedeemOnline, TypeOK
<1>3. ASSUME NEW b \in Branches, StartSync(b) \/ StartReconcile(b)
      PROVE  TypeOK'
  <2>1. Waiting(b) \in SUBSET DOMAIN queue /\ Enhanced(b) \in SUBSET DOMAIN queue
    BY DEF Waiting, Enhanced
  <2> QED
    BY <1>3, <2>1, StartLoopType DEF StartSync, StartReconcile
<1>4. ASSUME NEW p \in Products, UpdateProduct(p)
      PROVE  TypeOK'
  BY <1>4 DEF UpdateProduct, TypeOK
<1>5. CASE ToggleLoyaltyRules \/ UpdateRule
  BY <1>5, PolicyAssumption DEF ToggleLoyaltyRules, UpdateRule, TypeOK
<1>6. ASSUME NEW i \in DOMAIN queue, SyncItem(i) \/ ReconcileItem(i)
      PROVE  TypeOK'
  BY <1>6, SyncItemType, ReconcileItemType
<1>7. CASE EndSync
  <2>1. loop.branch \in Branches
    BY <1>7 DEF EndSync, TypeOK, Loops, NoLoop
  <2>2. ProlongedOffline(loop.branch, queue) \subseteq Alerts
    BY <2>1 DEF ProlongedOffline, Alerts
  <2> QED
    BY <1>7, <2>2 DEF EndSync, TypeOK, Loops
<1>8. CASE EndReconcile
  BY <1>8 DEF EndReconcile, TypeOK, Loops
<1>9. ASSUME NEW n \in DOMAIN conflicts, ResolveConflict(n)
      PROVE  TypeOK'
  <2> DEFINE i == conflicts[n].item
             e == [queue[i] EXCEPT !.state = "CONFIRMED"]
             r == [conflicts[n] EXCEPT !.status = "RESOLVED"]
  <2>1. i \in DOMAIN queue /\ queue[i] \in QueueItems /\ conflicts[n] \in ConflictRecords
    BY Element DEF TypeOK, RecordsNameItems
  <2>2. e \in QueueItems /\ r \in ConflictRecords /\ queue[i].key \in Uuids
    BY <2>1 DEF QueueItems, QueueStates, ConflictRecords
  <2>3. queue' = [queue EXCEPT ![i] = e] /\ conflicts' = [conflicts EXCEPT ![n] = r]
    BY <1>9 DEF ResolveConflict
  <2> HIDE DEF i, e, r
  <2>4. queue' \in Seq(QueueItems) /\ conflicts' \in Seq(ConflictRecords)
    BY <2>1, <2>2, <2>3, Updated DEF TypeOK
  <2> QED
    BY <1>9, <2>2, <2>4 DEF ResolveConflict, TypeOK, i
<1>10. ASSUME NEW n \in DOMAIN conflicts, EscalateConflict(n)
       PROVE  TypeOK'
  <2> DEFINE r == [conflicts[n] EXCEPT !.status = "ESCALATED"]
  <2>1. conflicts[n] \in ConflictRecords
    BY Element DEF TypeOK
  <2>2. r \in ConflictRecords
    BY <2>1 DEF ConflictRecords
  <2>3. conflicts' = [conflicts EXCEPT ![n] = r]
    BY <1>10 DEF EscalateConflict
  <2> HIDE DEF r
  <2>4. conflicts' \in Seq(ConflictRecords)
    BY <2>2, <2>3, Updated DEF TypeOK
  <2> QED
    BY <1>10, <2>4 DEF EscalateConflict, TypeOK
<1>11. ASSUME NEW a \in alerts, AcknowledgeAlert(a)
       PROVE  TypeOK'
  BY <1>11 DEF AcknowledgeAlert, TypeOK
<1>12. CASE Tick
  BY <1>12 DEF Tick, TypeOK
<1>13. CASE UNCHANGED vars
  BY <1>13 DEF vars, TypeOK
<1> QED
  BY <1>1, <1>2, <1>3, <1>4, <1>5, <1>6, <1>7, <1>8, <1>9, <1>10, <1>11, <1>12, <1>13 DEF Next

-----------------------------------------------------------------------------
(* The shapes of a step.  Of all that a step may do, the lifecycle of the    *)
(* operations is touched in seven ways; the invariants are proved once per   *)
(* shape instead of once per action.                                         *)

Todo == IF Idle THEN {} ELSE loop.todo

(* The running loop has only replayable items of its branch before it.       *)
LoopWaits == \A i \in Todo : /\ i \in DOMAIN queue
                             /\ queue[i].state \in Replayable
                             /\ queue[i].branch = loop.branch

(* Item i moves to another state and is otherwise the operation it was. *)
Becomes(i, state) ==
    /\ i \in DOMAIN queue
    /\ \E e \in QueueItems : /\ queue' = [queue EXCEPT ![i] = e]
                             /\ e.key = queue[i].key /\ e.branch = queue[i].branch
                             /\ e.type = queue[i].type /\ e.payload = queue[i].payload
                             /\ e.state = state
Handled(i) == i \in Todo /\ Todo' = Todo \ {i} /\ loop'.branch = loop.branch

(* Points come from a route that checks them or from POST sync/queue. *)
Sourced(item) ==
    item.type = "LOYALTY" =>
        item.payload \in RawPayloads \/ item.payload.amount \in Amounts

Aside == UNCHANGED <<queue, keys, transactions, conflicts, replays>> /\ LoopWaits'
Recorded ==
    /\ \E b \in Branches, k \in Uuids : \E e \in QueueItems :
          /\ e.key = k /\ e.state = "PENDING" /\ Sourced(e)
          /\ ~Known(k)
          /\ queue' = Append(queue, e)
    /\ Idle
    /\ UNCHANGED <<keys, transactions, conflicts, replays, loop>>
PostedOnline ==
    /\ \E k \in Uuids :
          /\ ~Known(k)
          /\ transactions' = Append(transactions, [key |-> k, source |-> 0])
          /\ keys' \in {keys, keys \cup {k}}
    /\ Idle
    /\ UNCHANGED <<queue, conflicts, replays, loop>>
Retried(i) ==
    /\ Handled(i) /\ \E state \in Replayable : Becomes(i, state)
    /\ UNCHANGED <<keys, transactions, conflicts, replays>>
Disputed(i) ==
    /\ Handled(i) /\ Becomes(i, "CONFLICT")
    /\ \E kind \in {"PRICE", "QUANTITY", "UNKNOWN"} :
          conflicts' = Append(conflicts, [item |-> i, branch |-> loop.branch,
                                          kind |-> kind, status |-> "OPEN"])
    /\ UNCHANGED <<keys, transactions, replays>>
Posted(i) ==
    /\ Handled(i) /\ Becomes(i, "CONFIRMED")
    /\ keys' = keys \cup {queue[i].key}
    /\ transactions' = Append(transactions, [key |-> queue[i].key, source |-> i])
    /\ replays' \in {replays, Count(replays, queue[i].key)}
    /\ UNCHANGED conflicts
Resolved(n) ==
    /\ Becomes(conflicts[n].item, "CONFIRMED")
    /\ queue[conflicts[n].item].state = "CONFIRMED" => UNCHANGED queue
    /\ keys' = keys \cup {queue[conflicts[n].item].key}
    /\ conflicts' = [conflicts EXCEPT ![n].status = "RESOLVED"]
    /\ Idle
    /\ UNCHANGED <<transactions, replays, loop>>
Escalated(n) ==
    /\ conflicts' = [conflicts EXCEPT ![n].status = "ESCALATED"]
    /\ Idle
    /\ UNCHANGED <<queue, keys, transactions, replays, loop>>

Shape ==
    \/ Aside \/ Recorded \/ PostedOnline
    \/ \E i \in DOMAIN queue : /\ SyncItem(i) \/ ReconcileItem(i)
                               /\ Retried(i) \/ Disputed(i) \/ Posted(i)
    \/ \E n \in DOMAIN conflicts : Resolved(n) \/ Escalated(n)

LEMMA EnqueueShape ==
    ASSUME TypeOK, NEW b \in Branches, NEW k \in Uuids, NEW type \in EventTypes,
           NEW payload \in Payloads, Fits(type, payload), EnqueueEvent(b, k, type, payload),
           type = "LOYALTY" => payload \in RawPayloads \/ payload.amount \in Amounts,
           Idle, UNCHANGED <<keys, transactions, conflicts, replays, loop>>
    PROVE  Recorded
<1>1. NewItem(b, k, type, payload) \in QueueItems
  BY NewItemType DEF TypeOK
<1>2. /\ NewItem(b, k, type, payload).key = k
      /\ NewItem(b, k, type, payload).state = "PENDING"
      /\ Sourced(NewItem(b, k, type, payload))
  BY DEF NewItem, Sourced
<1> QED
  BY <1>1, <1>2 DEF Recorded, EnqueueEvent

LEMMA AsideWhenIdle ==
    ASSUME Idle, UNCHANGED <<queue, keys, transactions, conflicts, replays, loop>>
    PROVE  Aside
  BY DEF Aside, LoopWaits, Todo, Idle

LEMMA EnqueueAppliedShape ==
    ASSUME TypeOK, NEW b \in Branches, NEW k \in Uuids, NEW payload \in LoyaltyPayloads,
           EnqueueApplied(b, k, payload), payload.amount \in Amounts,
           Idle, UNCHANGED <<keys, transactions, conflicts, replays, loop>>
    PROVE  Aside \/ Recorded
  BY LoyaltyFits, EnqueueShape, AsideWhenIdle DEF EnqueueApplied
LEMMA RequestShape ==
    ASSUME TypeOK, NEW b \in Branches, NEW k \in Uuids, Request(b, k)
    PROVE  Aside \/ Recorded \/ PostedOnline
<1>1. CASE EnqueueRaw(b, k)
  <2>1. Idle /\ UNCHANGED <<keys, transactions, conflicts, replays, loop>>
    BY <1>1 DEF EnqueueRaw, Handler
  <2>2. PICK type \in EventTypes, payload \in RawPayloads :
             Fits(type, payload) /\ EnqueueEvent(b, k, type, payload)
    BY <1>1 DEF EnqueueRaw
  <2> QED
    BY <2>1, <2>2, RawAssumption, EnqueueShape
<1>2. CASE QueueLoyalty(b, k)
  <2>1. PICK op \in {"ACCRUE", "REDEEM"}, c \in Customers, amount \in Amounts :
             EnqueueEvent(b, k, "LOYALTY", [op |-> op, customer |-> c,
                                            amount |-> amount, before |-> points[c]])
    BY <1>2 DEF QueueLoyalty
  <2>2. [op |-> op, customer |-> c, amount |-> amount, before |-> points[c]]
          \in LoyaltyPayloads
    BY RoutePayload DEF TypeOK
  <2>3. Idle /\ UNCHANGED <<keys, transactions, conflicts, replays, loop>>
    BY <1>2 DEF QueueLoyalty, Handler
  <2> QED
    BY <2>1, <2>2, <2>3, LoyaltyFits, EnqueueShape
<1>3. CASE QueueReport(b, k)
  BY <1>3, BlankFits, EnqueueShape DEF QueueReport, Handler, EventTypes
<1>4. CASE InventoryOffline(b, k)
  BY <1>4, BlankFits, EnqueueShape DEF InventoryOffline, Handler, EventTypes
<1>5. CASE CheckoutOffline(b, k)
  <2>1. PICK basket \in (SUBSET Products) \ {{}} :
             EnqueueEvent(b, k, "SALE",
                 [lines |-> {[product |-> p, price |-> catalog[p].price,
                              seen |-> catalog[p].updatedAt] : p \in basket}])
    BY <1>5 DEF CheckoutOffline
  <2>2. [lines |-> {[product |-> p, price |-> catalog[p].price,
                     seen |-> catalog[p].updatedAt] : p \in basket}] \in SalePayloads
    BY DEF SalePayloads, SaleLines, TypeOK
  <2>3. Idle /\ UNCHANGED <<keys, transactions, conflicts, replays, loop>>
    BY <1>5 DEF CheckoutOffline, Handler
  <2> QED
    BY <2>1, <2>2, <2>3, EnqueueShape DEF Fits, Payloads, EventTypes
<1>6. CASE CheckoutOnline(b, k)
  BY <1>6 DEF CheckoutOnline, Handler, PostedOnline
<1>7. CASE AccrueOffline(b, k)
  <2>1. PICK c \in Customers, amount \in Amounts :
             /\ Pay(c, amount)
             /\ EnqueueApplied(b, k, [op |-> "ACCRUE", customer |-> c, amount |-> amount,
                                      before |-> Plus(points'[c], -amount)])
    BY <1>7 DEF AccrueOffline, Records
  <2>2. points' \in [Customers -> Number]
    BY <2>1, PayType, AmountType
  <2>3. [op |-> "ACCRUE", customer |-> c, amount |-> amount,
         before |-> Plus(points'[c], -amount)] \in LoyaltyPayloads
    BY <2>2, AmountType, PlusType, RoutePayload
  <2>4. Idle /\ UNCHANGED <<keys, transactions, conflicts, replays, loop>>
    BY <1>7 DEF AccrueOffline, Handler
  <2> QED
    BY <2>1, <2>3, <2>4, EnqueueAppliedShape
<1>8. CASE RedeemOffline(b, k)
  <2>1. PICK c \in Customers, amount \in Amounts :
             EnqueueApplied(b, k, [op |-> "REDEEM", customer |-> c,
                                   amount |-> amount, before |-> points[c]])
    BY <1>8 DEF RedeemOffline
  <2>2. [op |-> "REDEEM", customer |-> c, amount |-> amount, before |-> points[c]]
          \in LoyaltyPayloads
    BY RoutePayload DEF TypeOK
  <2>3. Idle /\ UNCHANGED <<keys, transactions, conflicts, replays, loop>>
    BY <1>8 DEF RedeemOffline, Handler
  <2> QED
    BY <2>1, <2>2, <2>3, EnqueueAppliedShape
<1> QED
  BY <1>1, <1>2, <1>3, <1>4, <1>5, <1>6, <1>7, <1>8 DEF Request

LEMMA HeadHandled ==
    ASSUME NEW by \in {"sync", "reconcile"}, NEW i \in DOMAIN queue, TypeOK,
           HeadOf(by, i), Done(i)
    PROVE  Handled(i)
<1>1. ~Idle /\ i \in loop.todo
  BY DEF HeadOf, Idle, NoLoop
<1>2. loop' = [loop EXCEPT !.todo = loop.todo \ {i}]
      /\ loop \in [by : {"sync", "reconcile"}, branch : Branches, todo : SUBSET Nat]
  BY <1>1 DEF Done, TypeOK, Loops, Idle
<1>3. loop'.todo = loop.todo \ {i} /\ loop'.branch = loop.branch /\ loop'.by = loop.by
  BY <1>2
<1>4. ~Idle'
  BY <1>2, <1>3 DEF Idle, NoLoop
<1> QED
  BY <1>1, <1>3, <1>4 DEF Handled, Todo

LEMMA UpdateBecomes ==
    ASSUME TypeOK, NEW i \in DOMAIN queue, NEW state \in QueueStates,
           NEW retries \in 0 .. MaxRetryAttempts, NEW nextRetry \in Nat,
           Update(i, state, retries, nextRetry)
    PROVE  Becomes(i, state)
<1> DEFINE e == [queue[i] EXCEPT !.state = state, !.retries = retries,
                                 !.nextRetry = nextRetry]
<1>1. queue[i] \in QueueItems
  BY Element DEF TypeOK
<1>2. /\ e \in QueueItems /\ e.key = queue[i].key /\ e.branch = queue[i].branch
      /\ e.type = queue[i].type /\ e.payload = queue[i].payload /\ e.state = state
  BY <1>1 DEF QueueItems
<1> QED
  BY <1>2 DEF Becomes, Update

LEMMA SyncItemShape ==
    ASSUME TypeOK, LoopWaits, NEW i \in DOMAIN queue, SyncItem(i)
    PROVE  Retried(i) \/ Disputed(i) \/ Posted(i)
<1>1. HeadOf("sync", i) /\ Done(i)
  BY DEF SyncItem, SyncDefer, SyncExpire, SyncFail, SyncConflict, SyncConfirm, Due, Attempt
<1>2. /\ Handled(i) /\ queue[i] \in QueueItems
      /\ queue[i].retries \in 0 .. MaxRetryAttempts /\ queue[i].nextRetry \in Nat
  BY <1>1, HeadHandled, HeadType
<1>3. CASE SyncDefer(i)
  <2>1. queue[i].state \in Replayable
    BY <1>2 DEF LoopWaits, Handled
  <2>2. queue' = [queue EXCEPT ![i] = queue[i]]
    BY <1>3 DEF SyncDefer, TypeOK
  <2>3. Becomes(i, queue[i].state)
    BY <1>2, <2>2 DEF Becomes
  <2> QED
    BY <1>2, <1>3, <2>1, <2>3 DEF SyncDefer, Retried
<1>4. CASE SyncExpire(i)
  <2>1. Becomes(i, "FAILED")
    BY <1>2, <1>4, UpdateBecomes DEF SyncExpire, QueueStates, Replayable
  <2> QED
    BY <1>2, <1>4, <2>1 DEF SyncExpire, Retried, Replayable
<1>5. CASE SyncFail(i)
  <2> DEFINE retries   == Bumped(queue[i].retries)
             exhausted == ~AlreadySynced(i) /\ queue[i].retries + 1 >= MaxRetryAttempts
             next      == IF exhausted THEN 0 ELSE now + Backoff(retries)
  <2>1. retries \in 0 .. MaxRetryAttempts
    BY <1>2, PolicyAssumption DEF Bumped
  <2>2. next \in Nat
    BY BackoffType DEF TypeOK
  <2>3. Update(i, "FAILED", retries, next)
    BY <1>5 DEF SyncFail
  <2> HIDE DEF retries, next
  <2>4. Becomes(i, "FAILED")
    BY <2>1, <2>2, <2>3, UpdateBecomes DEF QueueStates, Replayable
  <2> QED
    BY <1>2, <1>5, <2>4 DEF SyncFail, Retried, Replayable
<1>6. CASE SyncConflict(i)
  <2>1. Becomes(i, "CONFLICT")
    BY <1>2, <1>6, UpdateBecomes DEF SyncConflict, QueueStates
  <2>2. PICK kind \in SyncConflicts(queue[i]) : Dispute(i, kind)
    BY <1>6 DEF SyncConflict
  <2>3. kind \in {"PRICE", "QUANTITY", "UNKNOWN"}
    BY <2>2, ConflictKinds
  <2> QED
    BY <1>2, <2>1, <2>2, <2>3 DEF Dispute, Disputed
<1>7. CASE SyncConfirm(i)
  <2>1. Becomes(i, "CONFIRMED")
    BY <1>2, <1>7, UpdateBecomes DEF SyncConfirm, QueueStates
  <2>2. replays' \in {replays, Count(replays, queue[i].key)}
    BY <1>7 DEF SyncConfirm, PostPoints
  <2> QED
    BY <1>2, <1>7, <2>1, <2>2 DEF SyncConfirm, Commit, Posted
<1> QED
  BY <1>3, <1>4, <1>5, <1>6, <1>7 DEF SyncItem

LEMMA ReconcileItemShape ==
    ASSUME TypeOK, LoopWaits, NEW i \in DOMAIN queue, ReconcileItem(i)
    PROVE  Retried(i) \/ Disputed(i) \/ Posted(i)
<1>1. HeadOf("reconcile", i) /\ Done(i)
  BY DEF ReconcileItem, ReconcileFail, ReconcileConflict, ReconcileConfirm
<1>2. /\ Handled(i) /\ queue[i] \in QueueItems
      /\ queue[i].retries \in 0 .. MaxRetryAttempts /\ queue[i].nextRetry \in Nat
  BY <1>1, HeadHandled, HeadType
<1>3. CASE ReconcileFail(i)
  <2>1. Becomes(i, "FAILED")
    BY <1>2, <1>3, UpdateBecomes DEF ReconcileFail, QueueStates, Replayable
  <2> QED
    BY <1>2, <1>3, <2>1 DEF ReconcileFail, Retried, Replayable
<1>4. CASE ReconcileConflict(i)
  <2>1. Becomes(i, "CONFLICT")
    BY <1>2, <1>4, UpdateBecomes DEF ReconcileConflict, QueueStates
  <2> QED
    BY <1>2, <1>4, <2>1 DEF ReconcileConflict, Dispute, Disputed
<1>5. CASE ReconcileConfirm(i)
  <2>1. Becomes(i, "CONFIRMED")
    BY <1>2, <1>5, UpdateBecomes DEF ReconcileConfirm, QueueStates
  <2>2. replays' \in {replays, Count(replays, queue[i].key)}
    BY <1>5 DEF ReconcileConfirm, PostPoints
  <2> QED
    BY <1>2, <1>5, <2>1, <2>2 DEF ReconcileConfirm, Commit, Posted
<1> QED
  BY <1>3, <1>4, <1>5 DEF ReconcileItem
LEMMA StepShape ==
    ASSUME TypeOK, LoopWaits, RecordsNameItems, [Next]_vars
    PROVE  Shape
<1>1. ASSUME NEW b \in Branches, NEW k \in Uuids, Request(b, k)
      PROVE  Shape
  BY <1>1, RequestShape DEF Shape
<1>2. ASSUME NEW b \in Branches, AccrueOnline(b) \/ RedeemOnline(b)
      PROVE  Shape
  BY <1>2, AsideWhenIdle DEF AccrueOnline, RedeemOnline, Handler, Shape
<1>3. ASSUME NEW b \in Branches, StartSync(b) \/ StartReconcile(b)
      PROVE  Shape
  <2>1. PICK by \in {"sync", "reconcile"}, snapshot \in SUBSET Waiting(b) :
             StartLoop(by, b, snapshot)
    BY <1>3 DEF StartSync, StartReconcile, Enhanced
  <2>2. loop'.todo = snapshot /\ loop'.branch = b
    BY <2>1 DEF StartLoop
  <2>3. \A i \in Todo' : i \in Waiting(b) /\ loop'.branch = b
    BY <2>2 DEF Todo
  <2>4. LoopWaits'
    BY <2>1, <2>3 DEF LoopWaits, Waiting, StartLoop
  <2> QED
    BY <2>1, <2>4 DEF StartLoop, Aside, Shape
<1>4. ASSUME NEW p \in Products, UpdateProduct(p)
      PROVE  Shape
  BY <1>4, AsideWhenIdle DEF UpdateProduct, Handler, Shape
<1>5. CASE ToggleLoyaltyRules \/ UpdateRule
  BY <1>5, AsideWhenIdle DEF ToggleLoyaltyRules, UpdateRule, Handler, Shape
<1>6. ASSUME NEW i \in DOMAIN queue, SyncItem(i) \/ ReconcileItem(i)
      PROVE  Shape
  BY <1>6, SyncItemShape, ReconcileItemShape DEF Shape
<1>7. CASE EndSync \/ EndReconcile
  <2>1. Todo' = {}
    BY <1>7 DEF EndSync, EndReconcile, Todo, Idle
  <2> QED
    BY <1>7, <2>1 DEF EndSync, EndReconcile, Aside, LoopWaits, Shape
<1>8. ASSUME NEW n \in DOMAIN conflicts, ResolveConflict(n)
      PROVE  Shape
  <2> DEFINE i == conflicts[n].item
             e == [queue[i] EXCEPT !.state = "CONFIRMED"]
  <2>1. i \in DOMAIN queue /\ queue[i] \in QueueItems
    BY Element DEF TypeOK, RecordsNameItems
  <2>2. /\ e \in QueueItems /\ e.key = queue[i].key /\ e.branch = queue[i].branch
        /\ e.type = queue[i].type /\ e.payload = queue[i].payload /\ e.state = "CONFIRMED"
    BY <2>1 DEF QueueItems, QueueStates
  <2>3. queue' = [queue EXCEPT ![i] = e]
    BY <1>8 DEF ResolveConflict
  <2>4. Becomes(i, "CONFIRMED")
    BY <2>1, <2>2, <2>3 DEF Becomes
  <2>5. ASSUME queue[i].state = "CONFIRMED" PROVE UNCHANGED queue
    <3>1. e = queue[i]
      BY <2>1, <2>5 DEF QueueItems
    <3> QED
      BY <2>1, <2>3, <3>1 DEF TypeOK
  <2>6. Resolved(n)
    BY <1>8, <2>4, <2>5 DEF Resolved, ResolveConflict, Handler
  <2> QED
    BY <2>6 DEF Shape
<1>9. ASSUME NEW n \in DOMAIN conflicts, EscalateConflict(n)
      PROVE  Shape
  BY <1>9 DEF EscalateConflict, Handler, Escalated, Shape
<1>10. ASSUME NEW a \in alerts, AcknowledgeAlert(a)
       PROVE  Shape
  BY <1>10, AsideWhenIdle DEF AcknowledgeAlert, Handler, Shape
<1>11. CASE Tick \/ UNCHANGED vars
  BY <1>11 DEF Tick, vars, Aside, LoopWaits, Todo, Idle, Shape
<1> QED
  BY <1>1, <1>2, <1>3, <1>4, <1>5, <1>6, <1>7, <1>8, <1>9, <1>10, <1>11 DEF Next

-----------------------------------------------------------------------------
(* The inductive invariant *)

KeysUnique == \A i, j \in DOMAIN queue : queue[i].key = queue[j].key => i = j
PostedKeysKnown == \A k \in Uuids : replays[k] <= 1 /\ (replays[k] > 0 => k \in keys)

IInv ==
    /\ TypeOK
    /\ LoopWaits
    /\ KeysUnique
    /\ AtMostOneTransactionPerKey
    /\ UnconfirmedIsUncommitted
    /\ ConfirmedIsAccountedFor
    /\ ConflictsMatchQueue
    /\ PostedKeysKnown

LEMMA InitInvariant == Init => IInv
<1> SUFFICES ASSUME Init PROVE IInv
  OBVIOUS
<1>1. DOMAIN queue = {} /\ DOMAIN transactions = {} /\ DOMAIN conflicts = {}
  BY DEF Init
<1>2. PostedKeysKnown
  BY DEF Init, PostedKeysKnown
<1>3. LoopWaits
  BY DEF Init, LoopWaits, Todo, Idle
<1> QED
  BY <1>1, <1>2, <1>3, InitType DEF IInv, KeysUnique, AtMostOneTransactionPerKey,
     UnconfirmedIsUncommitted, ConfirmedIsAccountedFor, ConflictsMatchQueue

(* An item that changes state, and the others. *)
LEMMA BecomesEffect ==
    ASSUME TypeOK, NEW i, NEW state, Becomes(i, state)
    PROVE  /\ DOMAIN queue' = DOMAIN queue
           /\ queue'[i].key = queue[i].key /\ queue'[i].branch = queue[i].branch
           /\ queue'[i].type = queue[i].type /\ queue'[i].state = state
           /\ \A j \in DOMAIN queue : j # i => queue'[j] = queue[j]
           /\ \A j \in DOMAIN queue : /\ queue'[j].key = queue[j].key
                                      /\ queue'[j].branch = queue[j].branch
                                      /\ queue'[j].type = queue[j].type
                                      /\ queue'[j].payload = queue[j].payload
<1>1. PICK e \in QueueItems : /\ queue' = [queue EXCEPT ![i] = e]
                              /\ e.key = queue[i].key /\ e.branch = queue[i].branch
                              /\ e.type = queue[i].type /\ e.payload = queue[i].payload
                              /\ e.state = state
  BY DEF Becomes
<1>2. i \in DOMAIN queue
  BY DEF Becomes
<1> HIDE DEF Becomes
<1>3. /\ DOMAIN queue' = DOMAIN queue /\ queue'[i] = e
      /\ \A j \in DOMAIN queue : j # i => queue'[j] = queue[j]
  BY <1>1, <1>2, Updated DEF TypeOK
<1> QED
  BY <1>1, <1>3

(* The ledger after a transaction for key k. *)
LEMMA AppendTransaction ==
    ASSUME TypeOK, NEW k \in Uuids, NEW source \in Nat,
           transactions' = Append(transactions, [key |-> k, source |-> source])
    PROVE  /\ \A j : Keyed(transactions, j)' <=> Keyed(transactions, j) \/ j = k
           /\ \A t \in DOMAIN transactions :
                 t \in DOMAIN transactions' /\ transactions'[t] = transactions[t]
           /\ \E t \in DOMAIN transactions' :
                 transactions'[t].source = source /\ transactions'[t].key = k
           /\ (AtMostOneTransactionPerKey /\ ~Keyed(transactions, k))
                => AtMostOneTransactionPerKey'
<1> DEFINE e == [key |-> k, source |-> source]
           n == Len(transactions) + 1
<1>1. e \in Transactions /\ e.key = k /\ e.source = source
  BY DEF Transactions
<1> HIDE DEF e
<1>2. transactions' = Append(transactions, e)
  BY DEF e
<1>3. /\ DOMAIN transactions' = DOMAIN transactions \cup {n}
      /\ n \notin DOMAIN transactions
      /\ \A t \in DOMAIN transactions : transactions'[t] = transactions[t]
      /\ transactions'[n] = e
  BY <1>1, <1>2, Appended DEF TypeOK
<1> HIDE DEF n
<1> QED
  BY <1>1, <1>3 DEF Keyed, AtMostOneTransactionPerKey
LEMMA AsideKeeps == ASSUME IInv, TypeOK', Aside PROVE IInv'
  BY DEF Aside, IInv, KeysUnique, AtMostOneTransactionPerKey, UnconfirmedIsUncommitted,
     ConfirmedIsAccountedFor, ConflictsMatchQueue, PostedKeysKnown, Keyed

LEMMA RecordedKeeps == ASSUME IInv, TypeOK', Recorded PROVE IInv'
<1>1. PICK k \in Uuids, e \in QueueItems :
           /\ e.key = k /\ e.state = "PENDING" /\ ~Known(k)
           /\ queue' = Append(queue, e)
  BY DEF Recorded
<1> DEFINE n == Len(queue) + 1
<1>2. /\ DOMAIN queue' = DOMAIN queue \cup {n}
      /\ n \notin DOMAIN queue
      /\ \A i \in DOMAIN queue : queue'[i] = queue[i]
      /\ queue'[n] = e
  BY <1>1, Appended DEF IInv, TypeOK
<1> HIDE DEF n
<1>3. UNCHANGED <<keys, transactions, conflicts, replays, loop>> /\ Idle
  BY DEF Recorded
<1>4. KeysUnique'
  BY <1>1, <1>2 DEF IInv, KeysUnique, Known, Keyed
<1>5. UnconfirmedIsUncommitted'
  <2> SUFFICES ASSUME NEW i \in DOMAIN queue', queue'[i].state # "CONFIRMED"
               PROVE  queue'[i].key \notin keys /\ ~Keyed(transactions, queue'[i].key)
    BY <1>3 DEF UnconfirmedIsUncommitted, Keyed
  <2>1. CASE i = n
    BY <1>1, <1>2, <2>1 DEF Known
  <2>2. CASE i \in DOMAIN queue
    BY <1>2, <2>2 DEF IInv, UnconfirmedIsUncommitted
  <2> QED
    BY <1>2, <2>1, <2>2
<1>6. ConfirmedIsAccountedFor'
  BY <1>1, <1>2, <1>3 DEF IInv, ConfirmedIsAccountedFor
<1>7. ConflictsMatchQueue'
  BY <1>1, <1>2, <1>3 DEF IInv, ConflictsMatchQueue
<1>8. LoopWaits'
  BY <1>3 DEF LoopWaits, Todo, Idle
<1> QED
  BY <1>3, <1>4, <1>5, <1>6, <1>7, <1>8 DEF IInv, AtMostOneTransactionPerKey, PostedKeysKnown

LEMMA PostedOnlineKeeps == ASSUME IInv, TypeOK', PostedOnline PROVE IInv'
<1>1. PICK k \in Uuids :
           /\ ~Known(k)
           /\ transactions' = Append(transactions, [key |-> k, source |-> 0])
           /\ keys' \in {keys, keys \cup {k}}
  BY DEF PostedOnline
<1>2. UNCHANGED <<queue, conflicts, replays, loop>> /\ Idle
  BY DEF PostedOnline
<1>3. /\ \A j : Keyed(transactions, j)' <=> Keyed(transactions, j) \/ j = k
      /\ \A t \in DOMAIN transactions :
            t \in DOMAIN transactions' /\ transactions'[t] = transactions[t]
      /\ AtMostOneTransactionPerKey'
  BY <1>1, AppendTransaction DEF IInv, Known
<1>4. UnconfirmedIsUncommitted'
  <2> SUFFICES ASSUME NEW i \in DOMAIN queue, queue[i].state # "CONFIRMED"
               PROVE  queue[i].key \notin keys' /\ ~Keyed(transactions, queue[i].key)'
    BY <1>2 DEF UnconfirmedIsUncommitted, Keyed
  <2>1. queue[i].key # k
    BY <1>1 DEF Known, Keyed
  <2> QED
    BY <1>1, <1>2, <1>3, <2>1 DEF IInv, UnconfirmedIsUncommitted
<1>5. ConfirmedIsAccountedFor'
  BY <1>1, <1>2, <1>3 DEF IInv, ConfirmedIsAccountedFor
<1>6. LoopWaits' /\ KeysUnique' /\ ConflictsMatchQueue'
  BY <1>2 DEF IInv, LoopWaits, Todo, Idle, KeysUnique, ConflictsMatchQueue
<1>7. PostedKeysKnown'
  BY <1>1, <1>2 DEF IInv, PostedKeysKnown
<1> QED
  BY <1>3, <1>4, <1>5, <1>6, <1>7 DEF IInv

(* A loop step changes the state of item i only. *)
LEMMA HandledKeeps ==
    ASSUME IInv, NEW i, NEW state, Handled(i), Becomes(i, state)
    PROVE  /\ LoopWaits' /\ KeysUnique'
           /\ i \in DOMAIN queue /\ queue[i].state \in Replayable
           /\ queue[i].branch = loop.branch
           /\ queue[i].key \in Uuids
<1>1. /\ DOMAIN queue' = DOMAIN queue
      /\ \A j \in DOMAIN queue : j # i => queue'[j] = queue[j]
      /\ \A j \in DOMAIN queue : /\ queue'[j].key = queue[j].key
                                 /\ queue'[j].branch = queue[j].branch
  BY BecomesEffect DEF IInv
<1>2. i \in Todo /\ Todo' = Todo \ {i} /\ loop'.branch = loop.branch
  BY DEF Handled
<1>3. LoopWaits'
  BY <1>1, <1>2 DEF IInv, LoopWaits
<1>4. KeysUnique'
  BY <1>1 DEF IInv, KeysUnique
<1>5. i \in DOMAIN queue /\ queue[i].state \in Replayable /\ queue[i].branch = loop.branch
  BY <1>2 DEF IInv, LoopWaits
<1>6. queue[i].key \in Uuids
  BY <1>5, Element DEF IInv, TypeOK, QueueItems
<1> QED
  BY <1>3, <1>4, <1>5, <1>6

LEMMA RetriedKeeps == ASSUME IInv, TypeOK', NEW i, Retried(i) PROVE IInv'
<1>1. PICK state \in Replayable : Becomes(i, state)
  BY DEF Retried
<1>2. Handled(i) /\ UNCHANGED <<keys, transactions, conflicts, replays>>
  BY DEF Retried
<1>3. /\ LoopWaits' /\ KeysUnique'
      /\ i \in DOMAIN queue /\ queue[i].state \in Replayable
  BY <1>1, <1>2, HandledKeeps
<1>4. /\ DOMAIN queue' = DOMAIN queue
      /\ queue'[i].state = state
      /\ \A j \in DOMAIN queue : j # i => queue'[j] = queue[j]
      /\ \A j \in DOMAIN queue : /\ queue'[j].key = queue[j].key
                                 /\ queue'[j].branch = queue[j].branch
  BY <1>1, BecomesEffect DEF IInv
<1>5. UnconfirmedIsUncommitted'
  BY <1>2, <1>3, <1>4 DEF IInv, UnconfirmedIsUncommitted, Keyed, Replayable
<1>6. ConfirmedIsAccountedFor'
  BY <1>2, <1>3, <1>4 DEF IInv, ConfirmedIsAccountedFor, Replayable
<1>7. ConflictsMatchQueue'
  BY <1>2, <1>3, <1>4 DEF IInv, ConflictsMatchQueue, Replayable
<1> QED
  BY <1>2, <1>3, <1>5, <1>6, <1>7 DEF IInv, AtMostOneTransactionPerKey, PostedKeysKnown
LEMMA DisputedKeeps == ASSUME IInv, TypeOK', NEW i, Disputed(i) PROVE IInv'
<1>1. Handled(i) /\ Becomes(i, "CONFLICT") /\ UNCHANGED <<keys, transactions, replays>>
  BY DEF Disputed
<1>2. /\ LoopWaits' /\ KeysUnique'
      /\ i \in DOMAIN queue /\ queue[i].state \in Replayable
      /\ queue[i].branch = loop.branch
  BY <1>1, HandledKeeps
<1>3. /\ DOMAIN queue' = DOMAIN queue
      /\ queue'[i].state = "CONFLICT"
      /\ \A j \in DOMAIN queue : j # i => queue'[j] = queue[j]
      /\ \A j \in DOMAIN queue : /\ queue'[j].key = queue[j].key
                                 /\ queue'[j].branch = queue[j].branch
  BY <1>1, BecomesEffect DEF IInv
<1>4. UnconfirmedIsUncommitted'
  BY <1>1, <1>2, <1>3 DEF IInv, UnconfirmedIsUncommitted, Keyed, Replayable
<1> DEFINE n == Len(conflicts) + 1
<1>5. PICK r \in ConflictRecords :
           /\ r.item = i /\ r.branch = loop.branch /\ r.status = "OPEN"
           /\ conflicts' = Append(conflicts, r)
  <2>1. PICK kind \in {"PRICE", "QUANTITY", "UNKNOWN"} :
             conflicts' = Append(conflicts, [item |-> i, branch |-> loop.branch,
                                             kind |-> kind, status |-> "OPEN"])
    BY DEF Disputed
  <2>2. i \in Nat \ {0} /\ loop.branch \in Branches
    <3>1. queue \in Seq(QueueItems)
      BY DEF IInv, TypeOK
    <3>2. queue[i] \in QueueItems
      BY <1>2, <3>1, Element
    <3>3. loop.branch \in Branches
      BY <1>2, <3>2 DEF QueueItems
    <3>4. i \in Nat \ {0}
      BY <1>2, <3>1, LenProperties
    <3> QED
      BY <3>3, <3>4
  <2>3. [item |-> i, branch |-> loop.branch, kind |-> kind, status |-> "OPEN"]
          \in ConflictRecords
    BY <2>2 DEF ConflictRecords
  <2> QED
    BY <2>1, <2>3
<1>6. /\ DOMAIN conflicts' = DOMAIN conflicts \cup {n} /\ n \notin DOMAIN conflicts
      /\ \A m \in DOMAIN conflicts : conflicts'[m] = conflicts[m]
      /\ conflicts'[n] = r
  BY <1>5, Appended DEF IInv, TypeOK
<1> HIDE DEF n
<1>7. \A m \in DOMAIN conflicts : conflicts[m].item # i
  BY <1>2 DEF IInv, ConflictsMatchQueue
<1>8. ConflictsMatchQueue'
  <2>1. ASSUME NEW m \in DOMAIN conflicts'
        PROVE  /\ conflicts'[m].item \in DOMAIN queue'
               /\ conflicts'[m].branch = queue'[conflicts'[m].item].branch
               /\ queue'[conflicts'[m].item].state \notin Replayable
               /\ conflicts'[m].status = "OPEN" => queue'[conflicts'[m].item].state = "CONFLICT"
               /\ conflicts'[m].status = "RESOLVED" => queue'[conflicts'[m].item].state = "CONFIRMED"
    <3>1. CASE m = n
      BY <1>2, <1>3, <1>5, <1>6, <3>1 DEF Replayable
    <3>2. CASE m \in DOMAIN conflicts
      BY <1>3, <1>6, <1>7, <3>2 DEF IInv, ConflictsMatchQueue
    <3> QED
      BY <1>6, <3>1, <3>2
  <2>2. ASSUME NEW j \in DOMAIN queue', queue'[j].state = "CONFLICT"
        PROVE  \E m \in DOMAIN conflicts' : conflicts'[m].item = j
    BY <1>3, <1>5, <1>6, <2>2 DEF IInv, ConflictsMatchQueue
  <2>3. \A l, m \in DOMAIN conflicts' : conflicts'[l].item = conflicts'[m].item => l = m
    BY <1>5, <1>6, <1>7 DEF IInv, ConflictsMatchQueue
  <2> QED
    BY <2>1, <2>2, <2>3 DEF ConflictsMatchQueue
<1>9. ConfirmedIsAccountedFor'
  <2> SUFFICES ASSUME NEW j \in DOMAIN queue', queue'[j].state = "CONFIRMED"
               PROVE  /\ queue'[j].key \in keys'
                      /\ \/ \E t \in DOMAIN transactions' : transactions'[t].source = j
                         \/ \E m \in DOMAIN conflicts' :
                               conflicts'[m].item = j /\ conflicts'[m].status # "OPEN"
    BY DEF ConfirmedIsAccountedFor
  <2>1. j \in DOMAIN queue /\ queue'[j] = queue[j]
    BY <1>3
  <2> QED
    BY <1>1, <1>6, <2>1 DEF IInv, ConfirmedIsAccountedFor
<1> QED
  BY <1>1, <1>2, <1>4, <1>8, <1>9 DEF IInv, AtMostOneTransactionPerKey, PostedKeysKnown

LEMMA PostedKeeps == ASSUME IInv, TypeOK', NEW i, Posted(i) PROVE IInv'
<1>1. /\ Handled(i) /\ Becomes(i, "CONFIRMED") /\ UNCHANGED conflicts
      /\ keys' = keys \cup {queue[i].key}
      /\ transactions' = Append(transactions, [key |-> queue[i].key, source |-> i])
      /\ replays' \in {replays, Count(replays, queue[i].key)}
  BY DEF Posted
<1>2. /\ LoopWaits' /\ KeysUnique'
      /\ i \in DOMAIN queue /\ queue[i].state \in Replayable
      /\ queue[i].key \in Uuids
  BY <1>1, HandledKeeps
<1>3. /\ DOMAIN queue' = DOMAIN queue
      /\ queue'[i].state = "CONFIRMED"
      /\ \A j \in DOMAIN queue : j # i => queue'[j] = queue[j]
      /\ \A j \in DOMAIN queue : /\ queue'[j].key = queue[j].key
                                 /\ queue'[j].branch = queue[j].branch
  BY <1>1, BecomesEffect DEF IInv
<1>4. queue[i].key \notin keys /\ ~Keyed(transactions, queue[i].key)
  BY <1>2 DEF IInv, UnconfirmedIsUncommitted, Replayable
<1>5. i \in Nat
  BY <1>2, LenProperties DEF IInv, TypeOK
<1>6. /\ \A k : Keyed(transactions, k)' <=> Keyed(transactions, k) \/ k = queue[i].key
      /\ \A t \in DOMAIN transactions :
            t \in DOMAIN transactions' /\ transactions'[t] = transactions[t]
      /\ \E t \in DOMAIN transactions' : transactions'[t].source = i
      /\ AtMostOneTransactionPerKey'
  BY <1>1, <1>2, <1>4, <1>5, AppendTransaction DEF IInv
<1>7. UnconfirmedIsUncommitted'
  <2> SUFFICES ASSUME NEW j \in DOMAIN queue', queue'[j].state # "CONFIRMED"
               PROVE  /\ queue'[j].key \notin keys'
                      /\ ~Keyed(transactions', queue'[j].key)
    BY DEF UnconfirmedIsUncommitted, Keyed
  <2>1. j # i /\ j \in DOMAIN queue /\ queue'[j] = queue[j]
    BY <1>3
  <2>2. queue[j].key # queue[i].key
    BY <1>2, <2>1 DEF IInv, KeysUnique
  <2> QED
    BY <1>1, <1>6, <2>1, <2>2 DEF IInv, UnconfirmedIsUncommitted, Keyed
<1>8. ConfirmedIsAccountedFor'
  <2> SUFFICES ASSUME NEW j \in DOMAIN queue', queue'[j].state = "CONFIRMED"
               PROVE  /\ queue'[j].key \in keys'
                      /\ \/ \E t \in DOMAIN transactions' : transactions'[t].source = j
                         \/ \E m \in DOMAIN conflicts' :
                               conflicts'[m].item = j /\ conflicts'[m].status # "OPEN"
    BY DEF ConfirmedIsAccountedFor
  <2>1. CASE j = i
    BY <1>1, <1>3, <1>6, <2>1
  <2>2. CASE j # i
    BY <1>1, <1>3, <1>6, <2>2 DEF IInv, ConfirmedIsAccountedFor
  <2> QED
    BY <2>1, <2>2
<1>9. ConflictsMatchQueue'
  BY <1>1, <1>2, <1>3 DEF IInv, ConflictsMatchQueue, Replayable
<1>10. PostedKeysKnown'
  <2>1. replays[queue[i].key] = 0 /\ replays \in [Uuids -> 0 .. 2]
    <3>1. replays \in [Uuids -> 0 .. 2] /\ ~(replays[queue[i].key] > 0)
      BY <1>2, <1>4 DEF IInv, PostedKeysKnown, TypeOK
    <3>2. replays[queue[i].key] \in 0 .. 2
      BY <1>2, <3>1
    <3> QED
      BY <3>1, <3>2
  <2>2. \A k \in Uuids : replays'[k] = replays[k]
                         \/ (k = queue[i].key /\ replays'[k] = 1)
    BY <1>1, <2>1 DEF Count
  <2> QED
    BY <1>1, <2>1, <2>2 DEF IInv, PostedKeysKnown
<1> QED
  BY <1>2, <1>6, <1>7, <1>8, <1>9, <1>10 DEF IInv

(* A record of which only the status changes. *)
LEMMA MarkEffect ==
    ASSUME TypeOK, NEW n \in DOMAIN conflicts, NEW status \in {"RESOLVED", "ESCALATED"},
           conflicts' = [conflicts EXCEPT ![n].status = status]
    PROVE  /\ DOMAIN conflicts' = DOMAIN conflicts
           /\ conflicts'[n].status = status
           /\ \A m \in DOMAIN conflicts : /\ conflicts'[m].item = conflicts[m].item
                                          /\ conflicts'[m].branch = conflicts[m].branch
                                          /\ m # n => conflicts'[m] = conflicts[m]
<1> DEFINE r == [conflicts[n] EXCEPT !.status = status]
<1>1. conflicts[n] \in ConflictRecords
  BY Element DEF TypeOK
<1>2. /\ r \in ConflictRecords /\ r.item = conflicts[n].item /\ r.status = status
      /\ r.branch = conflicts[n].branch
  BY <1>1 DEF ConflictRecords
<1>3. conflicts' = [conflicts EXCEPT ![n] = r]
  OBVIOUS
<1> HIDE DEF r
<1> QED
  BY <1>2, <1>3, Updated DEF TypeOK

LEMMA ResolvedKeeps ==
    ASSUME IInv, TypeOK', NEW n \in DOMAIN conflicts, Resolved(n) PROVE IInv'
<1> DEFINE i == conflicts[n].item
<1>1. /\ Becomes(i, "CONFIRMED") /\ keys' = keys \cup {queue[i].key}
      /\ UNCHANGED <<transactions, replays, loop>> /\ Idle
  BY DEF Resolved
<1>2. /\ DOMAIN queue' = DOMAIN queue
      /\ queue'[i].state = "CONFIRMED"
      /\ \A j \in DOMAIN queue : j # i => queue'[j] = queue[j]
      /\ \A j \in DOMAIN queue : /\ queue'[j].key = queue[j].key
                                 /\ queue'[j].branch = queue[j].branch
  BY <1>1, BecomesEffect DEF IInv
<1>3. /\ DOMAIN conflicts' = DOMAIN conflicts
      /\ conflicts'[n].status = "RESOLVED"
      /\ \A m \in DOMAIN conflicts : /\ conflicts'[m].item = conflicts[m].item
                                     /\ conflicts'[m].branch = conflicts[m].branch
                                     /\ m # n => conflicts'[m] = conflicts[m]
  BY MarkEffect DEF IInv, Resolved
<1>4. i \in DOMAIN queue
  BY DEF IInv, ConflictsMatchQueue
<1>5. LoopWaits' /\ KeysUnique'
  BY <1>1, <1>2 DEF IInv, KeysUnique, LoopWaits, Todo, Idle
<1>6. UnconfirmedIsUncommitted'
  <2> SUFFICES ASSUME NEW j \in DOMAIN queue', queue'[j].state # "CONFIRMED"
               PROVE  queue'[j].key \notin keys' /\ ~Keyed(transactions, queue'[j].key)
    BY <1>1 DEF UnconfirmedIsUncommitted, Keyed
  <2>1. j # i /\ j \in DOMAIN queue /\ queue'[j] = queue[j]
    BY <1>2
  <2>2. queue[j].key # queue[i].key
    BY <1>4, <2>1 DEF IInv, KeysUnique
  <2> QED
    BY <1>1, <2>1, <2>2 DEF IInv, UnconfirmedIsUncommitted
<1>7. ConfirmedIsAccountedFor'
  <2> SUFFICES ASSUME NEW j \in DOMAIN queue', queue'[j].state = "CONFIRMED"
               PROVE  /\ queue'[j].key \in keys'
                      /\ \/ \E t \in DOMAIN transactions' : transactions'[t].source = j
                         \/ \E m \in DOMAIN conflicts' :
                               conflicts'[m].item = j /\ conflicts'[m].status # "OPEN"
    BY DEF ConfirmedIsAccountedFor
  <2>1. CASE j = i
    BY <1>1, <1>2, <1>3, <2>1
  <2>2. CASE j # i
    BY <1>1, <1>2, <1>3, <2>2 DEF IInv, ConfirmedIsAccountedFor
  <2> QED
    BY <2>1, <2>2
<1>8. ConflictsMatchQueue'
  <2>1. ASSUME NEW m \in DOMAIN conflicts
        PROVE  /\ conflicts'[m].item \in DOMAIN queue'
               /\ conflicts'[m].branch = queue'[conflicts'[m].item].branch
               /\ queue'[conflicts'[m].item].state \notin Replayable
               /\ conflicts'[m].status = "OPEN" => queue'[conflicts'[m].item].state = "CONFLICT"
               /\ conflicts'[m].status = "RESOLVED" => queue'[conflicts'[m].item].state = "CONFIRMED"
    <3>1. CASE m = n
      BY <1>2, <1>3, <1>4, <3>1 DEF IInv, ConflictsMatchQueue, Replayable
    <3>2. CASE m # n
      <4>1. conflicts[m].item # i
        BY <3>2 DEF IInv, ConflictsMatchQueue
      <4> QED
        BY <1>2, <1>3, <3>2, <4>1 DEF IInv, ConflictsMatchQueue
    <3> QED
      BY <3>1, <3>2
  <2>2. ASSUME NEW j \in DOMAIN queue', queue'[j].state = "CONFLICT"
        PROVE  \E m \in DOMAIN conflicts' : conflicts'[m].item = j
    <3>1. j # i /\ j \in DOMAIN queue /\ queue[j].state = "CONFLICT"
      BY <1>2, <2>2
    <3> QED
      BY <1>3, <3>1 DEF IInv, ConflictsMatchQueue
  <2> QED
    BY <1>3, <2>1, <2>2 DEF IInv, ConflictsMatchQueue
<1>9. PostedKeysKnown'
  BY <1>1 DEF IInv, PostedKeysKnown
<1> QED
  BY <1>1, <1>5, <1>6, <1>7, <1>8, <1>9 DEF IInv, AtMostOneTransactionPerKey

LEMMA EscalatedKeeps ==
    ASSUME IInv, TypeOK', NEW n \in DOMAIN conflicts, Escalated(n) PROVE IInv'
<1>1. UNCHANGED <<queue, keys, transactions, replays, loop>> /\ Idle
  BY DEF Escalated
<1>2. /\ DOMAIN conflicts' = DOMAIN conflicts
      /\ conflicts'[n].status = "ESCALATED"
      /\ \A m \in DOMAIN conflicts : /\ conflicts'[m].item = conflicts[m].item
                                     /\ conflicts'[m].branch = conflicts[m].branch
                                     /\ m # n => conflicts'[m] = conflicts[m]
  BY MarkEffect DEF IInv, Escalated
<1>3. ConfirmedIsAccountedFor'
  <2> SUFFICES ASSUME NEW j \in DOMAIN queue, queue[j].state = "CONFIRMED"
               PROVE  /\ queue[j].key \in keys
                      /\ \/ \E t \in DOMAIN transactions : transactions[t].source = j
                         \/ \E m \in DOMAIN conflicts' :
                               conflicts'[m].item = j /\ conflicts'[m].status # "OPEN"
    BY <1>1 DEF ConfirmedIsAccountedFor
  <2> QED
    BY <1>2 DEF IInv, ConfirmedIsAccountedFor
<1>4. ConflictsMatchQueue'
  BY <1>1, <1>2 DEF IInv, ConflictsMatchQueue
<1> QED
  BY <1>1, <1>3, <1>4 DEF IInv, LoopWaits, Todo, Idle, KeysUnique,
     AtMostOneTransactionPerKey, UnconfirmedIsUncommitted, Keyed, PostedKeysKnown

LEMMA StepKeeps == IInv /\ [Next]_vars => IInv'
<1> SUFFICES ASSUME IInv, [Next]_vars PROVE IInv'
  OBVIOUS
<1>1. RecordsNameItems
  BY DEF IInv, ConflictsMatchQueue, RecordsNameItems
<1>2. TypeOK'
  BY <1>1, NextType DEF IInv
<1>3. Shape
  BY <1>1, StepShape DEF IInv
<1>4. CASE Aside
  BY <1>2, <1>4, AsideKeeps
<1>5. CASE Recorded
  BY <1>2, <1>5, RecordedKeeps
<1>6. CASE PostedOnline
  BY <1>2, <1>6, PostedOnlineKeeps
<1>7. ASSUME NEW i \in DOMAIN queue, Retried(i) \/ Disputed(i) \/ Posted(i)
      PROVE  IInv'
  BY <1>2, <1>7, RetriedKeeps, DisputedKeeps, PostedKeeps
<1>8. ASSUME NEW n \in DOMAIN conflicts, Resolved(n) \/ Escalated(n)
      PROVE  IInv'
  BY <1>2, <1>8, ResolvedKeeps, EscalatedKeeps
<1> QED
  BY <1>3, <1>4, <1>5, <1>6, <1>7, <1>8 DEF Shape

(* The invariant that the theorems below rest on. *)
THEOREM InductiveInvariant == Spec => []IInv
<1>1. Init => IInv
  BY InitInvariant
<1>2. IInv /\ [Next]_vars => IInv'
  BY StepKeeps
<1> QED
  BY <1>1, <1>2, PTL DEF Spec

(* Every variable keeps its type: items, records and transactions are        *)
(* well-formed after any interleaving of requests, replays and resolutions.  *)
THEOREM TypeCorrectness == Spec => []TypeOK
<1>1. IInv => TypeOK
  BY DEF IInv
<1> QED
  BY <1>1, InductiveInvariant, PTL

(* checkout, syncQueue and reconcile never post a second transaction under   *)
(* an idempotency key.                                                       *)
THEOREM AtMostOnce == Spec => []AtMostOneTransactionPerKey
<1>1. IInv => AtMostOneTransactionPerKey
  BY DEF IInv
<1> QED
  BY <1>1, InductiveInvariant, PTL

(* An operation that is still in the queue has left no trace under its key,  *)
(* so the duplicate branches of syncQueue and reconcile are never taken.     *)
THEOREM NothingBeforeConfirmation == Spec => []UnconfirmedIsUncommitted
<1>1. IInv => UnconfirmedIsUncommitted
  BY DEF IInv
<1> QED
  BY <1>1, InductiveInvariant, PTL

(* Every confirmed operation has a transaction or an adjudicated conflict.   *)
THEOREM Accountability == Spec => []ConfirmedIsAccountedFor
<1>1. IInv => ConfirmedIsAccountedFor
  BY DEF IInv
<1> QED
  BY <1>1, InductiveInvariant, PTL

(* The conflict list and the queue agree whatever staff do to the records.   *)
THEOREM ConflictConsistency == Spec => []ConflictsMatchQueue
<1>1. IInv => ConflictsMatchQueue
  BY DEF IInv
<1> QED
  BY <1>1, InductiveInvariant, PTL

(* syncQueue and reconcile together post a queued loyalty mutation once.     *)
THEOREM SinglePosting == Spec => []ReplayPostsOnce
<1>1. IInv => ReplayPostsOnce
  BY DEF IInv, PostedKeysKnown, ReplayPostsOnce
<1> QED
  BY <1>1, InductiveInvariant, PTL

-----------------------------------------------------------------------------
(* Steps that settle *)

(* No step touches a confirmed operation, and only resolveConflict takes an  *)
(* operation out of dispute.                                                 *)
LEMMA StepSettles ==
    ASSUME IInv, IInv', [Next]_vars, NEW i \in DOMAIN queue
    PROVE  /\ queue[i].state = "CONFIRMED" => queue'[i] = queue[i]
           /\ queue[i].state = "CONFLICT" /\ queue'[i].state # "CONFLICT" =>
                 \E n \in DOMAIN conflicts :
                     conflicts[n].item = i /\ conflicts'[n].status = "RESOLVED"
<1>1. RecordsNameItems
  BY DEF IInv, ConflictsMatchQueue, RecordsNameItems
<1>2. Shape
  BY <1>1, StepShape DEF IInv
<1>3. CASE Aside \/ PostedOnline \/ \E n \in DOMAIN conflicts : Escalated(n)
  BY <1>3 DEF Aside, PostedOnline, Escalated
<1>4. CASE Recorded
  <2>1. PICK e \in QueueItems : queue' = Append(queue, e)
    BY <1>4 DEF Recorded
  <2>2. queue'[i] = queue[i]
    BY <2>1, Appended DEF IInv, TypeOK
  <2> QED
    BY <2>2
<1>5. ASSUME NEW j \in DOMAIN queue, Retried(j) \/ Disputed(j) \/ Posted(j)
      PROVE  /\ queue[i].state = "CONFIRMED" => queue'[i] = queue[i]
             /\ queue[i].state = "CONFLICT" => queue'[i] = queue[i]
  <2>1. PICK state : Handled(j) /\ Becomes(j, state)
    BY <1>5 DEF Retried, Disputed, Posted
  <2>2. queue[j].state \in Replayable
    BY <2>1, HandledKeeps
  <2>3. j # i => queue'[i] = queue[i]
    BY <2>1, BecomesEffect DEF IInv
  <2> QED
    BY <2>2, <2>3 DEF Replayable
<1>6. ASSUME NEW n \in DOMAIN conflicts, Resolved(n)
      PROVE  /\ queue[i].state = "CONFIRMED" => queue'[i] = queue[i]
             /\ queue[i].state = "CONFLICT" /\ queue'[i].state # "CONFLICT" =>
                   conflicts[n].item = i /\ conflicts'[n].status = "RESOLVED"
  <2>1. CASE conflicts[n].item = i
    <3>1. conflicts'[n].status = "RESOLVED"
      BY <1>6, MarkEffect DEF IInv, Resolved
    <3> QED
      BY <1>6, <2>1, <3>1 DEF Resolved
  <2>2. CASE conflicts[n].item # i
    BY <1>6, <2>2, BecomesEffect DEF IInv, Resolved
  <2> QED
    BY <2>1, <2>2
<1> QED
  BY <1>2, <1>3, <1>4, <1>5, <1>6 DEF Shape

(* What is settled stays settled, through every retry and resolution. *)
THEOREM Settlement == Spec => SettledForever
<1>1. IInv /\ IInv' /\ [Next]_vars =>
        [\A i \in DOMAIN queue :
            /\ queue[i].state = "CONFIRMED" => queue'[i] = queue[i]
            /\ queue[i].state = "CONFLICT" /\ queue'[i].state # "CONFLICT" =>
                  \E n \in DOMAIN conflicts :
                      conflicts[n].item = i /\ conflicts'[n].status = "RESOLVED"]_vars
  BY StepSettles
<1> QED
  BY <1>1, InductiveInvariant, PTL DEF Spec, SettledForever

-----------------------------------------------------------------------------
(* Balances.  A step that pays leaves no balance lower than it was, or it    *)
(* leaves one that is not below zero: online because the balance is tested,  *)
(* in a sync because the balance is the expected one and that one covers the *)
(* redemption, in a reconcile because the sum is tested.  There are two      *)
(* exceptions, a payload without points and, in a sync, an accrual of a      *)
(* negative number of them.  No route that checks its points queues either,  *)
(* so the operation that has just been posted explains the balance.  From    *)
(* then on it stays confirmed, and explains what only gets better.           *)

AllSourced == \A i \in DOMAIN queue : Sourced(queue[i])

NotWorse(c) == \/ points'[c] = points[c]
               \/ /\ points[c] \in Int /\ points'[c] \in Int
                  /\ points[c] <= points'[c]
Better(c) == NotWorse(c) \/ ~Spoilt(c)'

(* Operations stay in the queue as they were recorded; what was counted      *)
(* stays counted.                                                            *)
LEMMA QueueGrows ==
    ASSUME IInv, [Next]_vars
    PROVE  /\ \A i \in DOMAIN queue : /\ i \in DOMAIN queue'
                                      /\ queue'[i].type = queue[i].type
                                      /\ queue'[i].payload = queue[i].payload
           /\ \A i \in DOMAIN queue' \ DOMAIN queue : Sourced(queue'[i])
           /\ \A k \in Uuids : replays[k] > 0 => replays'[k] > 0
<1> DEFINE Stays(i) == /\ i \in DOMAIN queue'
                       /\ queue'[i].type = queue[i].type
                       /\ queue'[i].payload = queue[i].payload
<1>1. RecordsNameItems
  BY DEF IInv, ConflictsMatchQueue, RecordsNameItems
<1>2. Shape
  BY <1>1, StepShape DEF IInv
<1>3. CASE Aside \/ PostedOnline \/ \E n \in DOMAIN conflicts : Escalated(n)
  BY <1>3 DEF Aside, PostedOnline, Escalated
<1>4. CASE Recorded
  <2>1. PICK e \in QueueItems : Sourced(e) /\ queue' = Append(queue, e)
    BY <1>4 DEF Recorded
  <2>2. /\ DOMAIN queue' = DOMAIN queue \cup {Len(queue) + 1}
        /\ \A i \in DOMAIN queue : queue'[i] = queue[i]
        /\ queue'[Len(queue) + 1] = e
    BY <2>1, Appended DEF IInv, TypeOK
  <2>3. UNCHANGED replays
    BY <1>4 DEF Recorded
  <2> QED
    BY <2>1, <2>2, <2>3
<1>5. ASSUME NEW j, NEW state, Becomes(j, state)
      PROVE  DOMAIN queue' = DOMAIN queue /\ \A i \in DOMAIN queue : Stays(i)
  BY <1>5, BecomesEffect DEF IInv
<1>6. ASSUME NEW j \in DOMAIN queue, Posted(j)
      PROVE  \A k \in Uuids : replays[k] > 0 => replays'[k] > 0
  <2>1. replays \in [Uuids -> 0 .. 2]
    BY DEF IInv, TypeOK
  <2>2. replays' \in {replays, Count(replays, queue[j].key)}
    BY <1>6 DEF Posted
  <2> QED
    BY <2>1, <2>2 DEF Count
<1> QED
  BY <1>2, <1>3, <1>4, <1>5, <1>6 DEF Shape, Retried, Disputed, Posted, Resolved

LEMMA StepKeepsSourced ==
    ASSUME IInv, AllSourced, [Next]_vars
    PROVE  AllSourced'
<1>1. ASSUME NEW i \in DOMAIN queue'
      PROVE  Sourced(queue'[i])
  <2>1. CASE i \in DOMAIN queue
    BY <2>1, QueueGrows DEF AllSourced, Sourced
  <2>2. CASE i \notin DOMAIN queue
    BY <2>2, QueueGrows
  <2> QED
    BY <2>1, <2>2
<1> QED
  BY <1>1 DEF AllSourced, Sourced

LEMMA UnpaidBetter ==
    ASSUME UNCHANGED points
    PROVE  \A c \in Customers : Better(c)
  BY DEF Better, NotWorse

LEMMA PayBetter ==
    ASSUME TypeOK, NEW c \in Customers, NEW amount \in Int, Pay(c, amount),
           points[c] = NaN \/ amount >= 0 \/ points[c] + amount >= 0
    PROVE  \A d \in Customers : Better(d)
<1>1. points \in [Customers -> Number] /\ NaN \notin Int
  BY DataAssumption DEF TypeOK
<1>2. /\ points'[c] = Plus(points[c], amount)
      /\ \A d \in Customers : d # c => points'[d] = points[d]
  BY <1>1 DEF Pay
<1>3. CASE points[c] = NaN
  <2>1. points'[c] = NaN
    BY <1>2, <1>3 DEF Plus
  <2> QED
    BY <1>2, <1>3, <2>1 DEF Better, NotWorse
<1>4. CASE points[c] # NaN
  <2>1. points[c] \in Int /\ points'[c] = points[c] + amount
    BY <1>1, <1>2, <1>4 DEF Number, Plus
  <2>2. points[c] <= points'[c] \/ points'[c] >= 0
    BY <1>4, <2>1
  <2>3. points'[c] \in Int /\ points'[c] # NaN
    BY <1>1, <2>1
  <2>4. Better(c)
    BY <2>1, <2>2, <2>3 DEF Better, NotWorse, Spoilt
  <2> QED
    BY <1>2, <2>4 DEF Better, NotWorse
<1> QED
  BY <1>3, <1>4

LEMMA Accrual ==
    ASSUME TypeOK, NEW c \in Customers, NEW amount \in Amounts, Pay(c, amount)
    PROVE  \A d \in Customers : Better(d)
<1>1. amount \in Int /\ amount >= 0
  BY AmountType
<1> QED
  BY <1>1, PayBetter

LEMMA Redemption ==
    ASSUME TypeOK, NEW c \in Customers, NEW amount \in Amounts,
           ~Below(points[c], amount), Pay(c, -amount)
    PROVE  \A d \in Customers : Better(d)
<1>1. amount \in Nat /\ -amount \in Int /\ amount # NaN /\ points[c] \in Number
  BY AmountType, DataAssumption DEF TypeOK
<1>2. points[c] = NaN \/ points[c] + (-amount) >= 0
  BY <1>1 DEF Below, Number
<1> QED
  BY <1>1, <1>2, PayBetter

LEMMA RequestBetter ==
    ASSUME TypeOK, NEW b \in Branches, NEW k \in Uuids, Request(b, k)
    PROVE  \A d \in Customers : Better(d)
<1>1. ASSUME NEW c \in Customers \cup {NoOne}, SaleAccrual(b, c)
      PROVE  \A d \in Customers : Better(d)
  <2>1. CASE UNCHANGED points
    BY <2>1, UnpaidBetter
  <2>2. CASE c \in Customers /\ \E amount \in Amounts : Pay(c, amount)
    BY <2>2, Accrual
  <2> QED
    BY <1>1, <2>1, <2>2 DEF SaleAccrual, Customer
<1>2. CASE CheckoutOffline(b, k) \/ CheckoutOnline(b, k)
  BY <1>1, <1>2 DEF CheckoutOffline, CheckoutOnline
<1>3. CASE AccrueOffline(b, k)
  BY <1>3, Accrual DEF AccrueOffline, Records
<1>4. CASE RedeemOffline(b, k)
  BY <1>4, Redemption DEF RedeemOffline
<1>5. CASE EnqueueRaw(b, k) \/ QueueLoyalty(b, k) \/ QueueReport(b, k) \/ InventoryOffline(b, k)
  BY <1>5, UnpaidBetter DEF EnqueueRaw, QueueLoyalty, QueueReport, InventoryOffline
<1> QED
  BY <1>2, <1>3, <1>4, <1>5 DEF Request

(* An operation that a loop posts, and that its customer's balance is worse  *)
(* for, explains it.                                                         *)
LEMMA PostedExplains ==
    ASSUME TypeOK, NEW i \in DOMAIN queue, Sourced(queue[i]), queue[i].type = "LOYALTY",
           Customer(queue[i].branch, queue[i].payload.customer),
           NEW c \in Customers, c = queue[i].payload.customer,
           PostPoints(i), Becomes(i, "CONFIRMED"),
           LET p == queue[i].payload
           IN  \/ p.amount = NaN
               \/ /\ p.op = "ACCRUE" /\ Below(p.amount, 0)
                  /\ p.before \in Int /\ points[p.customer] = p.before
    PROVE  Explains(i, c)'
<1> DEFINE p == queue[i].payload
           k == queue[i].key
<1>1. queue[i] \in QueueItems
  BY Element DEF TypeOK
<1>2. p \in LoyaltyPayloads /\ c \in Customers
  BY <1>1, PostedPayload
<1>3. k \in Uuids /\ p.amount \in Number
  BY <1>1, <1>2 DEF QueueItems, LoyaltyPayloads
<1>4. p.amount \notin Amounts
  BY AmountType, DataAssumption DEF Below
<1>5. p \in RawPayloads
  BY <1>4 DEF Sourced
<1>6. /\ queue'[i].type = "LOYALTY" /\ queue'[i].payload = p
      /\ queue'[i].key = k /\ queue'[i].state = "CONFIRMED"
  BY BecomesEffect
<1>7. replays'[k] > 0
  <2>1. replays \in [Uuids -> 0 .. 2] /\ replays' = Count(replays, k)
    BY DEF TypeOK, PostPoints
  <2> QED
    BY <1>3, <2>1 DEF Count
<1>8. points'[c] = Plus(points[c], Delta(p))
  BY <1>2 DEF PostPoints, Pay, TypeOK
<1>9. CASE p.amount = NaN
  <2>1. points'[c] = NaN
    BY <1>8, <1>9 DEF Delta, Plus
  <2> QED
    BY <1>5, <1>6, <1>7, <1>9, <2>1 DEF Explains
<1>10. CASE p.amount # NaN
  <2>1. /\ p.op = "ACCRUE" /\ Below(p.amount, 0)
        /\ p.before \in Int /\ points[c] = p.before
    BY <1>10
  <2>2. p.amount \in Int /\ NaN \notin Int
    BY <1>3, <1>10, DataAssumption DEF Number
  <2>3. points'[c] = p.before + p.amount
    BY <1>8, <2>1, <2>2 DEF Delta, Plus
  <2>4. points'[c] # NaN /\ p.before + p.amount <= points'[c]
    BY <2>1, <2>2, <2>3
  <2> QED
    BY <1>5, <1>6, <1>7, <2>1, <2>4 DEF Explains
<1> QED
  BY <1>9, <1>10

LEMMA SyncPays ==
    ASSUME TypeOK, NEW i \in DOMAIN queue, Sourced(queue[i]), SyncConfirm(i),
           AppliesOnSync(queue[i]), Becomes(i, "CONFIRMED"),
           NEW c \in Customers, c = queue[i].payload.customer
    PROVE  \/ \A d \in Customers : Better(d)
           \/ Explains(i, c)'
<1> DEFINE p == queue[i].payload
<1>1. queue[i] \in QueueItems
  BY Element DEF TypeOK
<1>2. /\ queue[i].type = "LOYALTY" /\ p.before # NoBalance
      /\ points[c] = p.before /\ points[c] # NaN
  BY DEF AppliesOnSync, Same
<1>3. PostPoints(i) /\ SyncConflicts(queue[i]) = {}
  BY DEF SyncConfirm
<1>4. Customer(queue[i].branch, c)
  BY <1>2, <1>3, SyncedCustomer
<1>5. p \in LoyaltyPayloads /\ c \in Customers
  BY <1>1, <1>2, <1>4, PostedPayload
<1>6. p.before \in Int /\ points[c] \in Int /\ p.amount \in Number
  BY <1>2, <1>5 DEF TypeOK, Number, LoyaltyPayloads
<1>7. ~(p.op = "REDEEM" /\ Below(p.before, p.amount))
  BY <1>2, <1>3, <1>4 DEF SyncConflicts, LoyaltyConflict
<1>8. CASE p.amount = NaN \/ (p.op = "ACCRUE" /\ Below(p.amount, 0))
  BY <1>2, <1>3, <1>4, <1>6, <1>8, PostedExplains
<1>9. CASE ~(p.amount = NaN \/ (p.op = "ACCRUE" /\ Below(p.amount, 0)))
  <2>1. p.amount \in Int /\ NaN \notin Int
    BY <1>6, <1>9, DataAssumption DEF Number
  <2>2. Delta(p) \in Int /\ (Delta(p) >= 0 \/ points[c] + Delta(p) >= 0)
    <3>1. CASE p.op = "ACCRUE"
      BY <1>9, <2>1, <3>1 DEF Delta, Below
    <3>2. CASE p.op = "REDEEM"
      <4>1. Delta(p) = -p.amount
        BY <1>9, <3>2 DEF Delta
      <4>2. p.before >= p.amount
        BY <1>6, <1>7, <2>1, <3>2 DEF Below
      <4> QED
        BY <1>2, <1>6, <2>1, <4>1, <4>2
    <3> QED
      BY <1>5, <3>1, <3>2 DEF LoyaltyPayloads
  <2>3. Pay(c, Delta(p))
    BY <1>3 DEF PostPoints
  <2> QED
    BY <1>5, <2>2, <2>3, PayBetter
<1> QED
  BY <1>8, <1>9

LEMMA ReconcilePays ==
    ASSUME TypeOK, NEW i \in DOMAIN queue, Sourced(queue[i]), ReconcileConfirm(i),
           queue[i].type = "LOYALTY", Becomes(i, "CONFIRMED"),
           NEW c \in Customers, c = queue[i].payload.customer
    PROVE  \/ \A d \in Customers : Better(d)
           \/ Explains(i, c)'
<1> DEFINE p == queue[i].payload
<1>1. queue[i] \in QueueItems
  BY Element DEF TypeOK
<1>2. /\ PostPoints(i) /\ Customer(queue[i].branch, c)
      /\ ~Below(Plus(points[c], Delta(p)), 0)
  BY DEF ReconcileConfirm, ReconcileThrows, BalanceConflict
<1>3. p \in LoyaltyPayloads /\ c \in Customers
  BY <1>1, <1>2, PostedPayload
<1>4. p.amount \in Number /\ points[c] \in Number /\ NaN \notin Int
  BY <1>3, DataAssumption DEF LoyaltyPayloads, TypeOK
<1>5. CASE p.amount = NaN
  BY <1>2, <1>5, PostedExplains
<1>6. CASE p.amount # NaN
  <2>1. Delta(p) \in Int
    BY <1>4, <1>6 DEF Delta, Number
  <2>2. points[c] = NaN \/ points[c] + Delta(p) >= 0
    BY <1>2, <1>4, <2>1 DEF Below, Plus, Number
  <2>3. Pay(c, Delta(p))
    BY <1>2 DEF PostPoints
  <2> QED
    BY <1>3, <2>1, <2>2, <2>3, PayBetter
<1> QED
  BY <1>5, <1>6

LEMMA ReplayBetter ==
    ASSUME TypeOK, AllSourced, NEW i \in DOMAIN queue,
           SyncItem(i) \/ ReconcileItem(i)
    PROVE  \A c \in Customers : Better(c) \/ Explains(i, c)'
<1> DEFINE item == queue[i]
<1>1. Sourced(item)
  BY DEF AllSourced
<1>2. item.retries \in 0 .. MaxRetryAttempts /\ item.nextRetry \in Nat
  <2>1. item \in QueueItems
    BY Element DEF TypeOK
  <2> QED
    BY <2>1 DEF QueueItems
<1>3. ASSUME UNCHANGED points
      PROVE  \A c \in Customers : Better(c)
  BY <1>3, UnpaidBetter
<1>4. ASSUME PostPoints(i), item.type = "LOYALTY", Customer(item.branch, item.payload.customer)
      PROVE  \A c \in Customers : c # item.payload.customer => Better(c)
  <2>1. \A c \in Customers : c # item.payload.customer => points'[c] = points[c]
    BY <1>4 DEF PostPoints, Pay, TypeOK
  <2> QED
    BY <2>1 DEF Better, NotWorse
<1>5. CASE SyncConfirm(i) /\ AppliesOnSync(item)
  <2>1. Update(i, "CONFIRMED", item.retries, 0)
    BY <1>5 DEF SyncConfirm
  <2>2. Becomes(i, "CONFIRMED")
    BY <2>1, <1>2, UpdateBecomes DEF QueueStates
  <2>3. item.type = "LOYALTY" /\ PostPoints(i) /\ SyncConflicts(item) = {}
    BY <1>5 DEF SyncConfirm, AppliesOnSync
  <2>4. Customer(item.branch, item.payload.customer)
    BY <2>3, SyncedCustomer
  <2> QED
    BY <1>1, <1>4, <1>5, <2>2, <2>3, <2>4, SyncPays
<1>6. CASE SyncConfirm(i) /\ ~AppliesOnSync(item)
  BY <1>3, <1>6 DEF SyncConfirm
<1>7. CASE ReconcileConfirm(i) /\ item.type = "LOYALTY"
  <2>1. Update(i, "CONFIRMED", item.retries, item.nextRetry)
    BY <1>7 DEF ReconcileConfirm
  <2>2. Becomes(i, "CONFIRMED")
    BY <2>1, <1>2, UpdateBecomes DEF QueueStates
  <2>3. PostPoints(i) /\ Customer(item.branch, item.payload.customer)
    BY <1>7 DEF ReconcileConfirm, ReconcileThrows
  <2> QED
    BY <1>1, <1>4, <1>7, <2>2, <2>3, ReconcilePays
<1>8. CASE ReconcileConfirm(i) /\ item.type # "LOYALTY"
  BY <1>3, <1>8 DEF ReconcileConfirm
<1>9. CASE \/ SyncDefer(i) \/ SyncExpire(i) \/ SyncFail(i) \/ SyncConflict(i)
           \/ ReconcileFail(i) \/ ReconcileConflict(i)
  BY <1>3, <1>9 DEF SyncDefer, SyncExpire, SyncFail, SyncConflict, ReconcileFail,
     ReconcileConflict, Dispute
<1> QED
  BY <1>5, <1>6, <1>7, <1>8, <1>9 DEF SyncItem, ReconcileItem

LEMMA StepBetter ==
    ASSUME TypeOK, AllSourced, [Next]_vars
    PROVE  \A c \in Customers : Better(c) \/ \E i \in DOMAIN queue : Explains(i, c)'
<1>1. ASSUME NEW b \in Branches, NEW k \in Uuids, Request(b, k)
      PROVE  \A c \in Customers : Better(c)
  BY <1>1, RequestBetter
<1>2. ASSUME NEW b \in Branches, AccrueOnline(b)
      PROVE  \A c \in Customers : Better(c)
  BY <1>2, Accrual DEF AccrueOnline, Records
<1>3. ASSUME NEW b \in Branches, RedeemOnline(b)
      PROVE  \A c \in Customers : Better(c)
  BY <1>3, Redemption DEF RedeemOnline
<1>4. ASSUME NEW i \in DOMAIN queue, SyncItem(i) \/ ReconcileItem(i)
      PROVE  \A c \in Customers : Better(c) \/ Explains(i, c)'
  BY <1>4, ReplayBetter
<1>5. ASSUME \/ \E b \in Branches : StartSync(b) \/ StartReconcile(b)
             \/ \E p \in Products : UpdateProduct(p)
             \/ ToggleLoyaltyRules \/ UpdateRule \/ EndSync \/ EndReconcile \/ Tick
             \/ \E n \in DOMAIN conflicts : ResolveConflict(n) \/ EscalateConflict(n)
             \/ \E a \in alerts : AcknowledgeAlert(a)
             \/ UNCHANGED vars
      PROVE  \A c \in Customers : Better(c)
  BY <1>5, UnpaidBetter DEF StartSync, StartReconcile, StartLoop, UpdateProduct,
     ToggleLoyaltyRules, UpdateRule, EndSync, EndReconcile, Tick, ResolveConflict, EscalateConflict,
     AcknowledgeAlert, vars
<1> QED
  BY <1>1, <1>2, <1>3, <1>4, <1>5 DEF Next

(* What explains a balance explains it while it gets no worse. *)
LEMMA StillExplains ==
    ASSUME IInv, IInv', [Next]_vars, NEW c \in Customers, NEW i \in DOMAIN queue,
           Explains(i, c), NotWorse(c)
    PROVE  Explains(i, c)'
<1> DEFINE p == queue[i].payload
<1>1. queue[i] \in QueueItems /\ queue[i].type = "LOYALTY"
  BY Element DEF Explains, IInv, TypeOK
<1>2. queue[i].key \in Uuids /\ p \in LoyaltyPayloads
  BY <1>1 DEF QueueItems, Fits
<1>3. queue'[i] = queue[i]
  BY StepSettles DEF Explains
<1>4. replays'[queue[i].key] > 0
  BY <1>2, QueueGrows DEF Explains
<1>5. CASE points[c] = NaN
  <2>1. points'[c] = NaN
    BY <1>5, DataAssumption DEF NotWorse
  <2> QED
    BY <1>3, <1>4, <1>5, <2>1 DEF Explains
<1>6. CASE points[c] # NaN
  <2>1. /\ p.op = "ACCRUE" /\ Below(p.amount, 0)
        /\ p.before \in Int /\ p.before + p.amount <= points[c]
    BY <1>6 DEF Explains
  <2>2. p.amount \in Int /\ points[c] \in Int
    BY <1>2, <1>6, <2>1 DEF LoyaltyPayloads, Number, Below, IInv, TypeOK
  <2>3. points'[c] \in Int /\ points[c] <= points'[c]
    BY <2>2 DEF NotWorse
  <2>4. points'[c] # NaN /\ p.before + p.amount <= points'[c]
    BY <2>1, <2>2, <2>3, DataAssumption
  <2> QED
    BY <1>3, <1>4, <2>1, <2>4 DEF Explains
<1> QED
  BY <1>5, <1>6

LEMMA StepKeepsExplained ==
    ASSUME IInv, IInv', AllSourced, OverdrawnByRawPayloadOnly, [Next]_vars
    PROVE  OverdrawnByRawPayloadOnly'
<1>1. ASSUME NEW c \in Customers, Spoilt(c)'
      PROVE  \E i \in DOMAIN queue' : Explains(i, c)'
  <2>1. \A i \in DOMAIN queue : i \in DOMAIN queue'
    BY QueueGrows
  <2>2. Better(c) \/ \E i \in DOMAIN queue : Explains(i, c)'
    BY StepBetter DEF IInv
  <2>3. CASE NotWorse(c)
    <3>1. points[c] \in Number /\ points'[c] \in Number
      BY DEF IInv, TypeOK
    <3>2. Spoilt(c)
      BY <1>1, <2>3, <3>1, DataAssumption DEF NotWorse, Spoilt, Number
    <3>3. PICK i \in DOMAIN queue : Explains(i, c)
      BY <3>2 DEF OverdrawnByRawPayloadOnly
    <3> QED
      BY <2>1, <2>3, <3>3, StillExplains
  <2> QED
    BY <1>1, <2>1, <2>2, <2>3 DEF Better
<1> QED
  BY <1>1 DEF OverdrawnByRawPayloadOnly

(* Whatever POST sync/queue is sent, of either sign or without points, and   *)
(* whatever is checked out, rewarded, queued and replayed besides: a balance *)
(* below zero is owed to a raw payload that a replay has posted.             *)
THEOREM OverdraftsAreRaw == Spec => []OverdrawnByRawPayloadOnly
<1>1. Init => AllSourced /\ OverdrawnByRawPayloadOnly
  <2> SUFFICES ASSUME Init PROVE AllSourced /\ OverdrawnByRawPayloadOnly
    OBVIOUS
  <2>1. points \in [Customers -> Nat] /\ NaN \notin Int
    BY PolicyAssumption, DataAssumption DEF Init
  <2>2. ASSUME NEW c \in Customers PROVE ~Spoilt(c)
    BY <2>1 DEF Spoilt
  <2>3. DOMAIN queue = {}
    BY DEF Init
  <2> QED
    BY <2>2, <2>3 DEF AllSourced, OverdrawnByRawPayloadOnly
<1>2. IInv /\ IInv' /\ AllSourced /\ OverdrawnByRawPayloadOnly /\ [Next]_vars
        => AllSourced' /\ OverdrawnByRawPayloadOnly'
  BY StepKeepsSourced, StepKeepsExplained
<1> QED
  BY <1>1, <1>2, InductiveInvariant, PTL DEF Spec

-----------------------------------------------------------------------------
(* Operations past their window.  The sync tests the window; reconcile does  *)
(* not, so the proof needs that it never comes upon a sale or a stock        *)
(* movement.                                                                 *)

ReconcileEnhancedOnly ==
    loop.by = "reconcile" => \A i \in Todo : queue[i].type \in {"LOYALTY", "REPORT"}

(* The type of an operation never changes. *)
LEMMA TypesStay ==
    ASSUME IInv, [Next]_vars, NEW i \in DOMAIN queue
    PROVE  queue'[i].type = queue[i].type
<1>1. RecordsNameItems
  BY DEF IInv, ConflictsMatchQueue, RecordsNameItems
<1>2. Shape
  BY <1>1, StepShape DEF IInv
<1>3. CASE Aside \/ PostedOnline \/ \E n \in DOMAIN conflicts : Escalated(n)
  BY <1>3 DEF Aside, PostedOnline, Escalated
<1>4. CASE Recorded
  BY <1>4, Appended DEF Recorded, IInv, TypeOK
<1>5. ASSUME NEW j, NEW state, Becomes(j, state)
      PROVE  queue'[i].type = queue[i].type
  BY <1>5, BecomesEffect DEF IInv
<1> QED
  BY <1>2, <1>3, <1>4, <1>5 DEF Shape, Retried, Disputed, Posted, Resolved

(* A loop is started, takes an item off its snapshot, ends or stays.         *)
LEMMA LoopSteps ==
    ASSUME TypeOK, [Next]_vars
    PROVE  \/ UNCHANGED loop
           \/ loop'.by # "reconcile"
           \/ \E b \in Branches : StartReconcile(b)
           \/ loop'.by = loop.by /\ Todo' \subseteq Todo
<1>1. ASSUME NEW i \in DOMAIN queue, SyncItem(i) \/ ReconcileItem(i)
      PROVE  loop'.by = loop.by /\ Todo' \subseteq Todo
  <2>1. PICK by \in {"sync", "reconcile"} : HeadOf(by, i) /\ Done(i)
    BY <1>1 DEF SyncItem, SyncDefer, SyncExpire, SyncFail, SyncConflict, SyncConfirm, Due,
       Attempt, ReconcileItem, ReconcileFail, ReconcileConflict, ReconcileConfirm
  <2>2. Todo' = Todo \ {i}
    BY <2>1, HeadHandled DEF Handled
  <2>3. loop \in [by : {"sync", "reconcile"}, branch : Branches, todo : SUBSET Nat]
    BY <2>1 DEF TypeOK, Loops, NoLoop, HeadOf
  <2>4. loop'.by = loop.by
    BY <2>1, <2>3 DEF Done
  <2> QED
    BY <2>2, <2>4
<1>2. CASE EndSync \/ EndReconcile
  BY <1>2 DEF EndSync, EndReconcile, NoLoop
<1>3. ASSUME NEW b \in Branches, StartSync(b)
      PROVE  loop'.by # "reconcile"
  BY <1>3 DEF StartSync, StartLoop
<1>4. ASSUME NEW b \in Branches, NEW k \in Uuids, Request(b, k)
      PROVE  UNCHANGED loop
  BY <1>4 DEF Request, EnqueueRaw, QueueLoyalty, QueueReport, InventoryOffline,
     CheckoutOffline, CheckoutOnline, AccrueOffline, RedeemOffline
<1>5. ASSUME \/ \E b \in Branches : AccrueOnline(b) \/ RedeemOnline(b)
             \/ \E p \in Products : UpdateProduct(p)
             \/ ToggleLoyaltyRules \/ UpdateRule \/ Tick
             \/ \E n \in DOMAIN conflicts : ResolveConflict(n) \/ EscalateConflict(n)
             \/ \E a \in alerts : AcknowledgeAlert(a)
             \/ UNCHANGED vars
      PROVE  UNCHANGED loop
  BY <1>5 DEF AccrueOnline, RedeemOnline, UpdateProduct, ToggleLoyaltyRules, UpdateRule,
     Tick, ResolveConflict, EscalateConflict, AcknowledgeAlert, vars
<1> QED
  BY <1>1, <1>2, <1>3, <1>4, <1>5 DEF Next

LEMMA StepKeepsEnhanced ==
    ASSUME IInv, ReconcileEnhancedOnly, [Next]_vars
    PROVE  ReconcileEnhancedOnly'
<1>1. ASSUME loop'.by = loop.by, Todo' \subseteq Todo
      PROVE  ReconcileEnhancedOnly'
  BY <1>1, TypesStay DEF ReconcileEnhancedOnly, IInv, LoopWaits
<1>2. ASSUME NEW b \in Branches, StartReconcile(b)
      PROVE  ReconcileEnhancedOnly'
  <2>1. loop'.todo = Enhanced(b) /\ queue' = queue
    BY <1>2 DEF StartReconcile, StartLoop
  <2>2. \A i \in Enhanced(b) : queue[i].type \in {"LOYALTY", "REPORT"}
    BY DEF Enhanced
  <2> QED
    BY <2>1, <2>2 DEF ReconcileEnhancedOnly, Todo
<1>3. CASE loop'.by # "reconcile"
  BY <1>3 DEF ReconcileEnhancedOnly
<1>4. CASE UNCHANGED loop
  BY <1>1, <1>4 DEF Todo, Idle
<1> QED
  BY <1>1, <1>2, <1>3, <1>4, LoopSteps DEF IInv

(* What a sync does with an item that is past its window. *)
LEMMA ExpiredWaits ==
    ASSUME IInv, NEW i \in DOMAIN queue, SyncItem(i), ReplayExpired(queue[i])
    PROVE  queue'[i].state \in Replayable
<1>1. HeadOf("sync", i) /\ Done(i)
  BY DEF SyncItem, SyncDefer, SyncExpire, SyncFail, SyncConflict, SyncConfirm, Due, Attempt
<1>2. queue[i] \in QueueItems /\ queue[i].retries \in 0 .. MaxRetryAttempts
  BY <1>1, HeadType DEF IInv
<1>3. SyncDefer(i) \/ SyncExpire(i)
  BY DEF SyncItem, SyncFail, SyncConflict, SyncConfirm, Due
<1>4. CASE SyncDefer(i)
  <2>1. queue[i].state \in Replayable
    BY <1>1, HeadHandled DEF IInv, LoopWaits, Handled
  <2> QED
    BY <1>4, <2>1 DEF SyncDefer
<1>5. CASE SyncExpire(i)
  <2>1. Becomes(i, "FAILED")
    BY <1>2, <1>5, UpdateBecomes DEF SyncExpire, QueueStates, Replayable, IInv
  <2> QED
    BY <2>1, BecomesEffect DEF IInv, Replayable
<1> QED
  BY <1>3, <1>4, <1>5

LEMMA StepKeepsStale ==
    ASSUME IInv, ReconcileEnhancedOnly, [Next]_vars, NEW i \in DOMAIN queue,
           queue[i].type \in {"SALE", "INVENTORY"}, queue[i].state \in Replayable,
           ReplayExpired(queue[i])
    PROVE  queue'[i].state \in Replayable
<1>1. RecordsNameItems
  BY DEF IInv, ConflictsMatchQueue, RecordsNameItems
<1>2. Shape
  BY <1>1, StepShape DEF IInv
<1>3. CASE Aside \/ PostedOnline \/ \E n \in DOMAIN conflicts : Escalated(n)
  BY <1>3 DEF Aside, PostedOnline, Escalated
<1>4. CASE Recorded
  BY <1>4, Appended DEF Recorded, IInv, TypeOK
<1>5. ASSUME NEW j, NEW state, Becomes(j, state), j # i
      PROVE  queue'[i].state \in Replayable
  BY <1>5, BecomesEffect DEF IInv
<1>6. ASSUME NEW n \in DOMAIN conflicts, Resolved(n)
      PROVE  queue'[i].state \in Replayable
  <2>1. conflicts[n].item # i
    BY DEF IInv, ConflictsMatchQueue
  <2> QED
    BY <1>5, <1>6, <2>1 DEF Resolved
<1>7. ASSUME NEW j \in DOMAIN queue, SyncItem(j) \/ ReconcileItem(j),
             Retried(j) \/ Disputed(j) \/ Posted(j)
      PROVE  queue'[i].state \in Replayable
  <2>1. CASE j # i
    BY <1>5, <1>7, <2>1 DEF Retried, Disputed, Posted
  <2>2. CASE j = i /\ SyncItem(j)
    BY <2>2, ExpiredWaits
  <2>3. CASE j = i /\ ReconcileItem(j)
    <3>1. loop.by = "reconcile" /\ i \in Todo
      BY <1>7, <2>3 DEF ReconcileItem, ReconcileFail, ReconcileConflict, ReconcileConfirm,
         HeadOf, Retried, Disputed, Posted, Handled
    <3> QED
      BY <3>1 DEF ReconcileEnhancedOnly
  <2> QED
    BY <1>7, <2>1, <2>2, <2>3
<1> QED
  BY <1>2, <1>3, <1>4, <1>6, <1>7 DEF Shape

(* Past its replay window a sale or a stock movement is never posted nor     *)
(* disputed, by whichever of the two replays.                                *)
THEOREM StaleSalesWait == Spec => StaleSalesNotReplayed
<1>1. Init => ReconcileEnhancedOnly
  BY DEF Init, ReconcileEnhancedOnly, NoLoop
<1>2. IInv /\ ReconcileEnhancedOnly /\ [Next]_vars => ReconcileEnhancedOnly'
  BY StepKeepsEnhanced
<1>3. IInv /\ ReconcileEnhancedOnly /\ [Next]_vars =>
        [\A i \in DOMAIN queue :
            /\ queue[i].type \in {"SALE", "INVENTORY"}
            /\ queue[i].state \in Replayable
            /\ ReplayExpired(queue[i])
            => queue'[i].state \in Replayable]_vars
  BY StepKeepsStale
<1> QED
  BY <1>1, <1>2, <1>3, InductiveInvariant, PTL DEF Spec, StaleSalesNotReplayed

-----------------------------------------------------------------------------
(* The refinement of OperationLedger.  The mapping, as a function of the     *)
(* queue q and the ledger t, so that its lemmas hold before and after a step.*)

ItemPhase(state, posted) ==
    CASE state \in Replayable -> "accepted"
      [] state = "CONFLICT"   -> "disputed"
      [] state = "CONFIRMED"  -> IF posted THEN "posted" ELSE "adjudicated"
PhaseIn(q, t, k) ==
    IF Keyed(q, k)
    THEN ItemPhase(q[CHOOSE i \in DOMAIN q : q[i].key = k].state, Keyed(t, k))
    ELSE IF Keyed(t, k) THEN "posted" ELSE "unknown"
ReceiptsIn(t, k) == Cardinality({s \in DOMAIN t : t[s].key = k})

LEMMA MappingBefore ==
    \A k : Phase(k) = PhaseIn(queue, transactions, k)
           /\ Receipts(k) = ReceiptsIn(transactions, k)
  BY DEF Phase, PhaseIn, ItemPhase, Receipts, ReceiptsIn

LEMMA MappingAfter ==
    \A k : Phase(k)' = PhaseIn(queue', transactions', k)
           /\ Receipts(k)' = ReceiptsIn(transactions', k)
  BY DEF Phase, PhaseIn, ItemPhase, Receipts, ReceiptsIn, Keyed

(* The phase of an operation that is in the queue is that of its one item. *)
LEMMA PhaseOfItem ==
    ASSUME NEW q, NEW t, NEW i \in DOMAIN q, NEW k, q[i].key = k,
           \A j \in DOMAIN q : q[j].key = k => j = i
    PROVE  /\ q[i].state \in Replayable => PhaseIn(q, t, k) = "accepted"
           /\ q[i].state = "CONFLICT" => PhaseIn(q, t, k) = "disputed"
           /\ q[i].state = "CONFIRMED" =>
                 PhaseIn(q, t, k) = IF Keyed(t, k) THEN "posted" ELSE "adjudicated"
<1>1. Keyed(q, k)
  BY DEF Keyed
<1>2. (CHOOSE j \in DOMAIN q : q[j].key = k) = i
  OBVIOUS
<1>3. PhaseIn(q, t, k) = ItemPhase(q[i].state, Keyed(t, k))
  BY <1>1, <1>2 DEF PhaseIn
<1>4. \A state, posted :
        /\ state \in Replayable => ItemPhase(state, posted) = "accepted"
        /\ state = "CONFLICT" => ItemPhase(state, posted) = "disputed"
        /\ state = "CONFIRMED" =>
              ItemPhase(state, posted) = IF posted THEN "posted" ELSE "adjudicated"
  BY DEF ItemPhase, Replayable
<1> QED
  BY <1>3, <1>4

LEMMA PhaseElsewhere ==
    ASSUME NEW q, NEW t, NEW k, ~Keyed(q, k)
    PROVE  PhaseIn(q, t, k) = IF Keyed(t, k) THEN "posted" ELSE "unknown"
  BY DEF PhaseIn

(* An operation whose item keeps its state keeps its phase. *)
LEMMA SamePhase ==
    ASSUME NEW q, NEW r, NEW t, NEW u, NEW i \in DOMAIN q, NEW k, i \in DOMAIN r,
           q[i].key = k, r[i].key = k,
           \A j \in DOMAIN q : q[j].key = k => j = i,
           \A j \in DOMAIN r : r[j].key = k => j = i,
           r[i].state = q[i].state, Keyed(t, k) <=> Keyed(u, k)
    PROVE  PhaseIn(r, u, k) = PhaseIn(q, t, k)
<1>1. Keyed(q, k) /\ Keyed(r, k)
  BY DEF Keyed
<1>2. /\ (CHOOSE j \in DOMAIN q : q[j].key = k) = i
      /\ (CHOOSE j \in DOMAIN r : r[j].key = k) = i
  OBVIOUS
<1>3. /\ PhaseIn(q, t, k) = ItemPhase(q[i].state, Keyed(t, k))
      /\ PhaseIn(r, u, k) = ItemPhase(q[i].state, Keyed(u, k))
  BY <1>1, <1>2 DEF PhaseIn
<1>4. CASE Keyed(t, k)
  BY <1>3, <1>4 DEF ItemPhase
<1>5. CASE ~Keyed(t, k)
  BY <1>3, <1>5 DEF ItemPhase
<1> QED
  BY <1>4, <1>5

(* A transaction is a receipt of its own key and of no other. *)
LEMMA ReceiptsGrow ==
    ASSUME TypeOK, NEW k \in Uuids, NEW source \in Nat,
           transactions' = Append(transactions, [key |-> k, source |-> source]),
           ~Keyed(transactions, k), NEW j \in Uuids
    PROVE  ReceiptsIn(transactions', j)
             = IF j = k THEN ReceiptsIn(transactions, j) + 1 ELSE ReceiptsIn(transactions, j)
<1> DEFINE e == [key |-> k, source |-> source]
           n == Len(transactions) + 1
           old == {s \in DOMAIN transactions : transactions[s].key = j}
           new == {s \in DOMAIN transactions' : transactions'[s].key = j}
<1>1. e \in Transactions /\ e.key = k
  BY DEF Transactions
<1> HIDE DEF e
<1>2. transactions' = Append(transactions, e)
  BY DEF e
<1>3. /\ DOMAIN transactions' = DOMAIN transactions \cup {n}
      /\ n \notin DOMAIN transactions
      /\ \A t \in DOMAIN transactions : transactions'[t] = transactions[t]
      /\ transactions'[n] = e
  BY <1>1, <1>2, Appended DEF TypeOK
<1> HIDE DEF n
<1>4. /\ ReceiptsIn(transactions, j) = Cardinality(old)
      /\ ReceiptsIn(transactions', j) = Cardinality(new)
  BY DEF ReceiptsIn
<1>5. CASE j = k
  <2>1. old = {} /\ new = {n}
    BY <1>1, <1>3, <1>5 DEF Keyed
  <2>2. Cardinality(old) = 0 /\ Cardinality(new) = 1
    BY <2>1, FS_EmptySet, FS_Singleton
  <2> HIDE DEF old, new
  <2> QED
    BY <1>5, <1>4, <2>2
<1>6. CASE j # k
  <2>1. old = new
    BY <1>1, <1>3, <1>6
  <2> HIDE DEF old, new
  <2> QED
    BY <1>6, <1>4, <2>1
<1> QED
  BY <1>5, <1>6

(* A step that leaves the item of key j in its state, and the ledger without *)
(* a new transaction of that key, leaves the phase of j.                     *)
LEMMA PhaseKept ==
    ASSUME KeysUnique, KeysUnique', NEW j,
           \A i \in DOMAIN queue : queue[i].key = j =>
               i \in DOMAIN queue' /\ queue'[i].key = j /\ queue'[i].state = queue[i].state,
           \A i \in DOMAIN queue' : queue'[i].key = j => i \in DOMAIN queue /\ queue[i].key = j,
           Keyed(transactions', j) <=> Keyed(transactions, j)
    PROVE  PhaseIn(queue', transactions', j) = PhaseIn(queue, transactions, j)
<1>1. CASE Keyed(queue, j)
  <2>1. PICK i \in DOMAIN queue : queue[i].key = j
    BY <1>1 DEF Keyed
  <2>2. i \in DOMAIN queue' /\ queue'[i].key = j /\ queue'[i].state = queue[i].state
    BY <2>1
  <2>3. /\ \A n \in DOMAIN queue : queue[n].key = j => n = i
        /\ \A n \in DOMAIN queue' : queue'[n].key = j => n = i
    BY <2>1, <2>2 DEF KeysUnique
  <2> QED
    BY <2>1, <2>2, <2>3, SamePhase
<1>2. CASE ~Keyed(queue, j)
  <2>1. ~Keyed(queue', j)
    BY <1>2 DEF Keyed
  <2> QED
    BY <1>2, <2>1, PhaseElsewhere
<1> QED
  BY <1>1, <1>2

(* The step of one key as a step of OperationLedger. *)
LEMMA LedgerMove ==
    ASSUME NEW k \in Uuids, NEW from, NEW to,
           PhaseIn(queue, transactions, k) = from, PhaseIn(queue', transactions', k) = to,
           \A j \in Uuids : j # k =>
               PhaseIn(queue', transactions', j) = PhaseIn(queue, transactions, j)
    PROVE  Ledger!Move(k, from, to)
<1>1. /\ [j \in Uuids |-> Phase(j)] = [j \in Uuids |-> PhaseIn(queue, transactions, j)]
      /\ [j \in Uuids |-> Phase(j)]' = [j \in Uuids |-> PhaseIn(queue', transactions', j)]
  BY MappingBefore, MappingAfter
<1> QED
  BY <1>1 DEF Ledger!Move

LEMMA LedgerStill ==
    ASSUME \A j \in Uuids : ReceiptsIn(transactions', j) = ReceiptsIn(transactions, j)
    PROVE  [j \in Uuids |-> Receipts(j)]' = [j \in Uuids |-> Receipts(j)]
  BY MappingBefore, MappingAfter

LEMMA LedgerPost ==
    ASSUME NEW k \in Uuids,
           Ledger!Move(k, "accepted", "posted") \/ Ledger!Move(k, "unknown", "posted"),
           \A j \in Uuids : ReceiptsIn(transactions', j)
               = IF j = k THEN ReceiptsIn(transactions, j) + 1 ELSE ReceiptsIn(transactions, j)
    PROVE  Ledger!Post(k)
<1>1. /\ [j \in Uuids |-> Receipts(j)] = [j \in Uuids |-> ReceiptsIn(transactions, j)]
      /\ [j \in Uuids |-> Receipts(j)]' = [j \in Uuids |-> ReceiptsIn(transactions', j)]
  BY MappingBefore, MappingAfter
<1>2. [j \in Uuids |-> Receipts(j)]'
        = [[j \in Uuids |-> Receipts(j)] EXCEPT ![k] = @ + 1]
  BY <1>1
<1> QED
  BY <1>2 DEF Ledger!Post

LEMMA RecordedRefines ==
    ASSUME IInv, IInv', Recorded
    PROVE  \E k \in Uuids : Ledger!Accept(k)
<1>1. PICK k \in Uuids, e \in QueueItems :
           /\ e.key = k /\ e.state = "PENDING" /\ ~Known(k)
           /\ queue' = Append(queue, e)
  BY DEF Recorded
<1> DEFINE n == Len(queue) + 1
<1>2. /\ DOMAIN queue' = DOMAIN queue \cup {n}
      /\ n \notin DOMAIN queue
      /\ \A i \in DOMAIN queue : queue'[i] = queue[i]
      /\ queue'[n] = e
  BY <1>1, Appended DEF IInv, TypeOK
<1> HIDE DEF n
<1>3. transactions' = transactions
  BY DEF Recorded
<1>4. PhaseIn(queue, transactions, k) = "unknown"
  BY <1>1, PhaseElsewhere DEF Known
<1>5. PhaseIn(queue', transactions', k) = "accepted"
  <2>1. n \in DOMAIN queue' /\ queue'[n].key = k /\ queue'[n].state \in Replayable
    BY <1>1, <1>2 DEF Replayable
  <2>2. \A i \in DOMAIN queue' : queue'[i].key = k => i = n
    BY <2>1 DEF IInv, KeysUnique
  <2> QED
    BY <2>1, <2>2, PhaseOfItem
<1>6. ASSUME NEW j \in Uuids, j # k
      PROVE  PhaseIn(queue', transactions', j) = PhaseIn(queue, transactions, j)
  <2>1. KeysUnique /\ KeysUnique'
    BY DEF IInv
  <2>2. /\ \A i \in DOMAIN queue : queue[i].key = j =>
               i \in DOMAIN queue' /\ queue'[i].key = j /\ queue'[i].state = queue[i].state
        /\ \A i \in DOMAIN queue' : queue'[i].key = j => i \in DOMAIN queue /\ queue[i].key = j
    BY <1>1, <1>2, <1>6
  <2> QED
    BY <1>3, <2>1, <2>2, PhaseKept
<1>7. Ledger!Move(k, "unknown", "accepted")
  BY <1>4, <1>5, <1>6, LedgerMove
<1>8. [j \in Uuids |-> Receipts(j)]' = [j \in Uuids |-> Receipts(j)]
  BY <1>3, LedgerStill
<1> QED
  BY <1>7, <1>8 DEF Ledger!Accept

LEMMA PostedOnlineRefines ==
    ASSUME IInv, IInv', PostedOnline
    PROVE  \E k \in Uuids : Ledger!Post(k)
<1>1. PICK k \in Uuids :
           /\ ~Known(k)
           /\ transactions' = Append(transactions, [key |-> k, source |-> 0])
  BY DEF PostedOnline
<1>2. queue' = queue
  BY DEF PostedOnline
<1>3. \A j : Keyed(transactions', j) <=> Keyed(transactions, j) \/ j = k
  BY <1>1, AppendTransaction DEF IInv, Keyed
<1>4. PhaseIn(queue, transactions, k) = "unknown"
  BY <1>1, PhaseElsewhere DEF Known
<1>5. PhaseIn(queue', transactions', k) = "posted"
  BY <1>1, <1>2, <1>3, PhaseElsewhere DEF Known
<1>6. ASSUME NEW j \in Uuids, j # k
      PROVE  PhaseIn(queue', transactions', j) = PhaseIn(queue, transactions, j)
  BY <1>2, <1>3, <1>6, PhaseKept DEF IInv
<1>7. Ledger!Move(k, "unknown", "posted")
  BY <1>4, <1>5, <1>6, LedgerMove
<1>8. \A j \in Uuids : ReceiptsIn(transactions', j)
          = IF j = k THEN ReceiptsIn(transactions, j) + 1 ELSE ReceiptsIn(transactions, j)
  BY <1>1, ReceiptsGrow DEF IInv, Known
<1> QED
  BY <1>7, <1>8, LedgerPost

(* Where only item i moves, every other operation keeps its phase, if the    *)
(* ledger keeps its key.                                                     *)
LEMMA OthersKept ==
    ASSUME IInv, IInv', NEW i, NEW state, Becomes(i, state), NEW j \in Uuids,
           queue[i].key # j, Keyed(transactions', j) <=> Keyed(transactions, j)
    PROVE  PhaseIn(queue', transactions', j) = PhaseIn(queue, transactions, j)
<1>1. /\ DOMAIN queue' = DOMAIN queue
      /\ \A n \in DOMAIN queue : n # i => queue'[n] = queue[n]
      /\ \A n \in DOMAIN queue : queue'[n].key = queue[n].key
  BY BecomesEffect DEF IInv
<1>2. \A n \in DOMAIN queue : queue[n].key = j => n # i
  OBVIOUS
<1> QED
  BY <1>1, <1>2, PhaseKept DEF IInv

(* The phases of the operation of item i, which moves. *)
LEMMA MovedPhase ==
    ASSUME IInv, IInv', NEW i, NEW state, Becomes(i, state)
    PROVE  /\ queue[i].key \in Uuids
           /\ queue[i].state \in Replayable =>
                 PhaseIn(queue, transactions, queue[i].key) = "accepted"
           /\ queue[i].state = "CONFLICT" =>
                 PhaseIn(queue, transactions, queue[i].key) = "disputed"
           /\ state \in Replayable =>
                 PhaseIn(queue', transactions', queue[i].key) = "accepted"
           /\ state = "CONFLICT" =>
                 PhaseIn(queue', transactions', queue[i].key) = "disputed"
           /\ state = "CONFIRMED" =>
                 PhaseIn(queue', transactions', queue[i].key)
                   = IF Keyed(transactions', queue[i].key) THEN "posted" ELSE "adjudicated"
<1>1. /\ DOMAIN queue' = DOMAIN queue
      /\ queue'[i].key = queue[i].key /\ queue'[i].state = state
  BY BecomesEffect DEF IInv
<1>2. i \in DOMAIN queue /\ i \in DOMAIN queue'
  BY <1>1 DEF Becomes
<1>3. queue[i].key \in Uuids
  BY <1>2, Element DEF IInv, TypeOK, QueueItems
<1>4. /\ \A n \in DOMAIN queue : queue[n].key = queue[i].key => n = i
      /\ \A n \in DOMAIN queue' : queue'[n].key = queue[i].key => n = i
  BY <1>1, <1>2 DEF IInv, KeysUnique
<1>5. /\ queue[i].state \in Replayable =>
            PhaseIn(queue, transactions, queue[i].key) = "accepted"
      /\ queue[i].state = "CONFLICT" =>
            PhaseIn(queue, transactions, queue[i].key) = "disputed"
  BY <1>2, <1>4, PhaseOfItem
<1>6. /\ state \in Replayable =>
            PhaseIn(queue', transactions', queue[i].key) = "accepted"
      /\ state = "CONFLICT" =>
            PhaseIn(queue', transactions', queue[i].key) = "disputed"
      /\ state = "CONFIRMED" =>
            PhaseIn(queue', transactions', queue[i].key)
              = IF Keyed(transactions', queue[i].key) THEN "posted" ELSE "adjudicated"
  BY <1>1, <1>2, <1>4, PhaseOfItem
<1> QED
  BY <1>3, <1>5, <1>6

LEMMA PhasesStill ==
    ASSUME \A j \in Uuids : PhaseIn(queue', transactions', j) = PhaseIn(queue, transactions, j),
           transactions' = transactions
    PROVE  /\ [j \in Uuids |-> Phase(j)]' = [j \in Uuids |-> Phase(j)]
           /\ [j \in Uuids |-> Receipts(j)]' = [j \in Uuids |-> Receipts(j)]
<1>1. [j \in Uuids |-> Phase(j)]' = [j \in Uuids |-> Phase(j)]
  BY MappingBefore, MappingAfter
<1> QED
  BY <1>1, LedgerStill

LEMMA RetriedRefines ==
    ASSUME IInv, IInv', NEW i, Retried(i)
    PROVE  /\ [j \in Uuids |-> Phase(j)]' = [j \in Uuids |-> Phase(j)]
           /\ [j \in Uuids |-> Receipts(j)]' = [j \in Uuids |-> Receipts(j)]
<1>1. PICK state \in Replayable : Becomes(i, state)
  BY DEF Retried
<1>2. Handled(i) /\ transactions' = transactions
  BY DEF Retried
<1>3. queue[i].state \in Replayable
  BY <1>1, <1>2, HandledKeeps
<1>4. PhaseIn(queue', transactions', queue[i].key) = PhaseIn(queue, transactions, queue[i].key)
  BY <1>1, <1>3, MovedPhase
<1>5. ASSUME NEW j \in Uuids, j # queue[i].key
      PROVE  PhaseIn(queue', transactions', j) = PhaseIn(queue, transactions, j)
  BY <1>1, <1>2, <1>5, OthersKept
<1> QED
  BY <1>2, <1>4, <1>5, PhasesStill

LEMMA DisputedRefines ==
    ASSUME IInv, IInv', NEW i, Disputed(i)
    PROVE  \E k \in Uuids : Ledger!Dispute(k)
<1>1. Handled(i) /\ Becomes(i, "CONFLICT") /\ transactions' = transactions
  BY DEF Disputed
<1>2. queue[i].state \in Replayable /\ queue[i].key \in Uuids
  BY <1>1, HandledKeeps
<1>3. /\ PhaseIn(queue, transactions, queue[i].key) = "accepted"
      /\ PhaseIn(queue', transactions', queue[i].key) = "disputed"
  BY <1>1, <1>2, MovedPhase
<1>4. ASSUME NEW j \in Uuids, j # queue[i].key
      PROVE  PhaseIn(queue', transactions', j) = PhaseIn(queue, transactions, j)
  BY <1>1, <1>4, OthersKept
<1>5. Ledger!Move(queue[i].key, "accepted", "disputed")
  BY <1>2, <1>3, <1>4, LedgerMove
<1>6. [j \in Uuids |-> Receipts(j)]' = [j \in Uuids |-> Receipts(j)]
  BY <1>1, LedgerStill
<1> QED
  BY <1>2, <1>5, <1>6 DEF Ledger!Dispute

LEMMA PostedRefines ==
    ASSUME IInv, IInv', NEW i, Posted(i)
    PROVE  \E k \in Uuids : Ledger!Post(k)
<1>1. /\ Handled(i) /\ Becomes(i, "CONFIRMED")
      /\ transactions' = Append(transactions, [key |-> queue[i].key, source |-> i])
  BY DEF Posted
<1>2. /\ i \in DOMAIN queue /\ queue[i].state \in Replayable
      /\ queue[i].key \in Uuids
  BY <1>1, HandledKeeps
<1>3. ~Keyed(transactions, queue[i].key)
  BY <1>2 DEF IInv, UnconfirmedIsUncommitted, Replayable
<1>4. i \in Nat
  BY <1>2, LenProperties DEF IInv, TypeOK
<1>5. \A j : Keyed(transactions', j) <=> Keyed(transactions, j) \/ j = queue[i].key
  BY <1>1, <1>2, <1>4, AppendTransaction DEF IInv, Keyed
<1>6. /\ PhaseIn(queue, transactions, queue[i].key) = "accepted"
      /\ PhaseIn(queue', transactions', queue[i].key) = "posted"
  BY <1>1, <1>2, <1>5, MovedPhase
<1>7. ASSUME NEW j \in Uuids, j # queue[i].key
      PROVE  PhaseIn(queue', transactions', j) = PhaseIn(queue, transactions, j)
  BY <1>1, <1>5, <1>7, OthersKept
<1>8. Ledger!Move(queue[i].key, "accepted", "posted")
  BY <1>2, <1>6, <1>7, LedgerMove
<1>9. \A j \in Uuids : ReceiptsIn(transactions', j)
          = IF j = queue[i].key THEN ReceiptsIn(transactions, j) + 1
                                ELSE ReceiptsIn(transactions, j)
  BY <1>1, <1>2, <1>3, <1>4, ReceiptsGrow DEF IInv
<1> QED
  BY <1>2, <1>8, <1>9, LedgerPost

(* Resolving a dispute adjudicates its operation; a repeated call does not. *)
LEMMA ResolvedRefines ==
    ASSUME IInv, IInv', NEW n \in DOMAIN conflicts, Resolved(n)
    PROVE  \/ \E k \in Uuids : Ledger!Adjudicate(k)
           \/ UNCHANGED <<queue, transactions>>
<1> DEFINE i == conflicts[n].item
<1>1. /\ Becomes(i, "CONFIRMED") /\ transactions' = transactions
      /\ queue[i].state = "CONFIRMED" => UNCHANGED queue
  BY DEF Resolved
<1>2. i \in DOMAIN queue /\ queue[i].state \notin Replayable
  BY DEF IInv, ConflictsMatchQueue
<1> HIDE DEF i
<1>3. CASE queue[i].state = "CONFIRMED"
  BY <1>1, <1>3
<1>4. CASE queue[i].state # "CONFIRMED"
  <2>1. queue[i].state = "CONFLICT"
    <3>1. queue[i].state \in QueueStates
      BY <1>2, Element DEF IInv, TypeOK, QueueItems
    <3> QED
      BY <1>2, <1>4, <3>1 DEF QueueStates
  <2>2. ~Keyed(transactions, queue[i].key)
    BY <1>2, <1>4 DEF IInv, UnconfirmedIsUncommitted
  <2>3. /\ queue[i].key \in Uuids
        /\ PhaseIn(queue, transactions, queue[i].key) = "disputed"
        /\ PhaseIn(queue', transactions', queue[i].key) = "adjudicated"
    BY <1>1, <2>1, <2>2, MovedPhase
  <2>4. ASSUME NEW j \in Uuids, j # queue[i].key
        PROVE  PhaseIn(queue', transactions', j) = PhaseIn(queue, transactions, j)
    BY <1>1, <2>4, OthersKept
  <2>5. Ledger!Move(queue[i].key, "disputed", "adjudicated")
    BY <2>3, <2>4, LedgerMove
  <2>6. [j \in Uuids |-> Receipts(j)]' = [j \in Uuids |-> Receipts(j)]
    BY <1>1, LedgerStill
  <2> QED
    BY <2>3, <2>5, <2>6 DEF Ledger!Adjudicate
<1> QED
  BY <1>3, <1>4

LEMMA InitRefines == Init => Ledger!Init
<1> SUFFICES ASSUME Init PROVE Ledger!Init
  OBVIOUS
<1>1. DOMAIN queue = {} /\ DOMAIN transactions = {}
  BY DEF Init
<1>2. \A k : ~Keyed(queue, k) /\ ~Keyed(transactions, k)
  BY <1>1 DEF Keyed
<1>3. \A k : Phase(k) = "unknown"
  BY <1>2 DEF Phase
<1>4. \A k : Receipts(k) = 0
  <2>1. \A k : {t \in DOMAIN transactions : transactions[t].key = k} = {}
    BY <1>1
  <2> QED
    BY <2>1, FS_EmptySet DEF Receipts
<1> QED
  BY <1>3, <1>4 DEF Ledger!Init

LEMMA StepRefines ==
    ASSUME IInv, IInv', [Next]_vars
    PROVE  \/ Ledger!Next
           \/ UNCHANGED <<[k \in Uuids |-> Phase(k)], [k \in Uuids |-> Receipts(k)]>>
<1>1. RecordsNameItems
  BY DEF IInv, ConflictsMatchQueue, RecordsNameItems
<1>2. Shape
  BY <1>1, StepShape DEF IInv
<1>3. ASSUME UNCHANGED <<queue, transactions>>
      PROVE  UNCHANGED <<[k \in Uuids |-> Phase(k)], [k \in Uuids |-> Receipts(k)]>>
  BY <1>3, PhasesStill
<1>4. CASE Aside \/ \E n \in DOMAIN conflicts : Escalated(n)
  BY <1>3, <1>4 DEF Aside, Escalated
<1>5. CASE Recorded
  BY <1>5, RecordedRefines DEF Ledger!Next
<1>6. CASE PostedOnline
  BY <1>6, PostedOnlineRefines DEF Ledger!Next
<1>7. ASSUME NEW i \in DOMAIN queue, Retried(i)
      PROVE  UNCHANGED <<[k \in Uuids |-> Phase(k)], [k \in Uuids |-> Receipts(k)]>>
  BY <1>7, RetriedRefines
<1>8. ASSUME NEW i \in DOMAIN queue, Disputed(i) \/ Posted(i)
      PROVE  Ledger!Next
  BY <1>8, DisputedRefines, PostedRefines DEF Ledger!Next
<1>9. ASSUME NEW n \in DOMAIN conflicts, Resolved(n)
      PROVE  Ledger!Next \/ UNCHANGED <<queue, transactions>>
  BY <1>9, ResolvedRefines DEF Ledger!Next
<1> QED
  BY <1>2, <1>3, <1>4, <1>5, <1>6, <1>7, <1>8, <1>9 DEF Shape

(* The queue, with its replays, retries, disputes and resolutions in any     *)
(* order, implements OperationLedger: what a client sees of a key is one     *)
(* lifecycle, with one receipt exactly when it was posted.                   *)
THEOREM Implementation == Spec => ImplementsLedger
<1>1. Init => Ledger!Init
  BY InitRefines
<1>2. IInv /\ IInv' /\ [Next]_vars =>
        [Ledger!Next]_<<[k \in Uuids |-> Phase(k)], [k \in Uuids |-> Receipts(k)]>>
  BY StepRefines
<1> QED
  BY <1>1, <1>2, InductiveInvariant, PTL DEF Spec, ImplementsLedger, Ledger!Spec

(* What each lifecycle step does to the phases and receipts that it sees. *)
LEMMA LedgerStepSettles ==
    ASSUME Ledger!OneReceiptPerPosting, Ledger!Next
    PROVE  /\ Ledger!OneReceiptPerPosting'
           /\ Ledger!Final
<1> DEFINE p == [j \in Uuids |-> Phase(j)]
           r == [j \in Uuids |-> Receipts(j)]
<1>1. \A k \in Uuids : r[k] = IF p[k] = "posted" THEN 1 ELSE 0
  BY Zenon DEF Ledger!OneReceiptPerPosting
<1>2. PICK k \in Uuids : Ledger!Accept(k) \/ Ledger!Post(k) \/ Ledger!Dispute(k) \/ Ledger!Adjudicate(k)
  BY Zenon DEF Ledger!Next
<1>3. p \in [Uuids -> {p[j] : j \in Uuids}] /\ r \in [Uuids -> {r[j] : j \in Uuids}]
  OBVIOUS
<1>4. \/ /\ p[k] \in {"unknown", "accepted", "disputed"} /\ r' = r
         /\ \E to \in {"accepted", "disputed", "adjudicated"} : p' = [p EXCEPT ![k] = to]
      \/ /\ p[k] \in {"unknown", "accepted"}
         /\ p' = [p EXCEPT ![k] = "posted"] /\ r' = [r EXCEPT ![k] = @ + 1]
  BY <1>2 DEF Ledger!Accept, Ledger!Post, Ledger!Dispute, Ledger!Adjudicate, Ledger!Move
<1>5. Ledger!OneReceiptPerPosting' <=> \A j \in Uuids : r'[j] = IF p'[j] = "posted" THEN 1 ELSE 0
  BY DEF Ledger!OneReceiptPerPosting
<1> HIDE DEF p, r
<1>6. \A j \in Uuids : r'[j] = IF p'[j] = "posted" THEN 1 ELSE 0
  BY <1>1, <1>3, <1>4
<1>7. \A j \in Uuids : p[j] \in {"posted", "adjudicated"} => p'[j] = p[j] /\ r'[j] = r[j]
  BY <1>3, <1>4
<1> QED
  BY <1>5, <1>6, <1>7 DEF p, r, Ledger!Final

(* What OperationLedger promises, of any keys: one receipt for what is       *)
(* posted, none for the rest, and nothing settled ever moves.                *)
THEOREM LedgerPromises ==
    Ledger!Spec => []Ledger!OneReceiptPerPosting /\ Ledger!SettlementIsFinal
<1>1. Ledger!Init => Ledger!OneReceiptPerPosting
  BY DEF Ledger!Init, Ledger!OneReceiptPerPosting
<1>2. /\ Ledger!OneReceiptPerPosting
      /\ [Ledger!Next]_<<[k \in Uuids |-> Phase(k)], [k \in Uuids |-> Receipts(k)]>>
      => Ledger!OneReceiptPerPosting'
  <2>1. ASSUME Ledger!OneReceiptPerPosting,
               UNCHANGED <<[k \in Uuids |-> Phase(k)], [k \in Uuids |-> Receipts(k)]>>
        PROVE  Ledger!OneReceiptPerPosting'
    BY <2>1 DEF Ledger!OneReceiptPerPosting
  <2> QED
    BY <2>1, LedgerStepSettles
<1>3. /\ Ledger!OneReceiptPerPosting
      /\ [Ledger!Next]_<<[k \in Uuids |-> Phase(k)], [k \in Uuids |-> Receipts(k)]>>
      => [Ledger!Final]_<<[k \in Uuids |-> Phase(k)], [k \in Uuids |-> Receipts(k)]>>
  BY LedgerStepSettles
<1> QED
  BY <1>1, <1>2, <1>3, PTL DEF Ledger!Spec, Ledger!SettlementIsFinal

(* The queue keeps these promises: whatever is replayed, retried, disputed   *)
(* or sent again, a key has one transaction exactly when it was posted.      *)
THEOREM PromisesKept ==
    Spec => []Ledger!OneReceiptPerPosting /\ Ledger!SettlementIsFinal
  BY Implementation, LedgerPromises, PTL DEF ImplementsLedger
=============================================================================
