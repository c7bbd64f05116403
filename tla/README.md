# Verification of the Grocery POS server

The Grocery POS is a multi-tenant point-of-sale server in TypeScript (`src/src`).
Branches sell, move stock and grant loyalty points, also while they have no
connection; what they recorded meanwhile is replayed later under idempotency keys,
and what cannot be replayed is disputed before staff. This directory holds TLA+
modules of the parts of that program whose behaviour depends on the order of things,
the TLC configurations that check them, and proofs that TLAPS checks.

Paths below are relative to the repository root.

## 1. The system

### How it runs

`server.ts` starts one Node process. Its state is a `MemoryStore`
(`src/store/memoryStore.ts`): arrays, maps and sets, nothing persistent, so a restart
starts from the seeds and there is no recovery to model. Every route handler and
service method is synchronous. A handler is therefore **one atomic step**, and all
concurrency is the order in which whole handlers run: requests of several branches,
devices and roles, the aggregation jobs' `setTimeout`, the retention purge's
`setInterval`, and the clock, which several handlers compare with times they stored
earlier. Answers may be lost on the way back, so clients send requests again.

Two kinds of handler loop over stored records with an early exit per record
(`syncQueue`, `reconcile`; `dispatch`, `retryDue`). They are modelled one record per
step, with a variable that holds what the loop has left, because what one record does
changes what the next one meets; no other handler runs in between.

### Inventory

| Component (source) | State | Operations | What makes it correct |
|---|---|---|---|
| Offline queue and replay (`services/posService.ts`, `modules/offline-enhancements`) | `queue`, `idempotencyKeys`, `transactions`, `conflicts`, `offlineAlerts` | enqueue by seven routes, `syncQueue`, `reconcile`, resolve, escalate, acknowledge | a key is posted at most once; nothing confirmed without account; queue and conflicts agree; nothing silently stuck |
| Loyalty (`modules/loyalty-rewards`) | `currentPoints` of customers, configuration | accrue, redeem, apply queued mutation, change the rule | nothing overdraws a balance but a payload the server never checked; a replay posts once |
| Stock, checkout, void (`services/posService.ts`) | `inventoryBalances`, `inventoryLogs`, `sales` | stock in/out, damage, adjustment, transfer, checkout, void | every balance explained by what happened; one sale per key |
| Webhooks (`modules/webhooks`) | endpoints, clients, deliveries, delivery keys, circuit, rate window | register, update, kill switch, dispatch, retry | breaker tells the truth; a settled delivery stays; retries end |
| Roles and read-only lock (`middleware/auth.ts`, `config/permissions.ts`) | derived from users, flags, open conflicts | passed by every request | roles, locks and restrictions hold over any sequence of requests |
| Dashboard (`modules/dashboard`) | users, their branches, branches, brands | create, update, status, role | identities stay consistent; nobody grants more than they have |
| Offline automation (`modules/offline-automation`) | `offlineAlerts`, event log | run, list, acknowledge | a failing sync is announced |
| Notifications (`modules/notifications`) | notifications, dedupe keys, connectivity | trigger, events, retry, read | one per event; what waits is delivered, once |
| Aggregation (`jobs/aggregation`) | jobs, snapshots | request, run in a timer | a job ends; its snapshot covers its request |
| Retention, legal holds (`jobs/retention`, `modules/compliance`, `modules/exports`) | policies, holds, events | purge timer, exports, holds | young records stay, old ones go; exports lag by no more than the cache |
| Audit trail (`services/auditService.ts`) | hash chain | append, verify | the chain verifies |
| Scale guard (`services/scaleGuardService.ts`) | cache | read through, evict | no answer older than its time to live |
| Risk policies (`modules/risk-compliance`) | policies, events | upsert, evaluate, rehearse | a decision is monotone in risk |
| Discounts (`modules/discounts`, `config/discountPolicy.ts`) | evaluations | evaluate, apply | caps hold; a benefit never costs |
| Recommendations (`modules/analytics`) | actions | derive, list, decide | one per source; a decision stands |
| Feature flags (`services/featureFlagService.ts`) | flags | update | modelled where they are read |
| Plugins | a switch | register, charge | - |
| Reports, analytics, metrics | none that is read back | read only | - |
| Mobile app, demo backend, web pages, SQL | outside the server | - | - |

Components talk by direct method calls on the shared store. The offline queue calls
loyalty (`applyQueuedMutation`) and reads product prices; checkout calls loyalty
(`updateCustomerTotalsFromSale`), stock and the queue; open conflicts lock the writes of
cashiers and inventory staff; the automation runs a sync; stock, loyalty, conflicts and
risk emit events whose listeners file notifications inside the same handler; the
retention purge removes deliveries whose keys webhooks remember and snapshots that jobs
made; compliance and audit exports read through the cache; audits are written by
everyone and read by exports only, metrics by no decision.

The behaviours that are hard to test are listed one by one, at their lines, under
"hazards" in `PROJECT.json`: inference of what was applied from a balance, checks made
before effects, retries under a key, snapshots taken before a loop, deadlines that pass
between retries, values read before both are written, configuration that changes between
a dispatch and its retry, and a remembered key whose record is gone.

## 2. The modules

| Module | What it is |
|---|---|
| `OfflineSync` | the offline queue, its two replay loops, loyalty points, conflicts, alerts |
| `OperationLedger` | abstract specification: the life of one key, seen from outside |
| `MCOfflineSync` | its instance for TLC |
| `OfflineSync_proofs` | theorems about `OfflineSync` |
| `StockLedger`, `MCStockLedger`, `StockLedger_proofs` | stock, checkout and void |
| `Webhook`, `MCWebhook`, `Webhook_proofs` | outbound webhooks |
| `AccessControl`, `MCAccessControl`, `AccessControl_proofs` | the checks every request passes, users and branches, the lock of conflicts |
| `Retention`, `MCRetention`, `Retention_proofs` | audit trail, purge, legal holds, cached exports, aggregation jobs |
| `Notifications`, `Notifications_proofs` | notifications and what triggers them, offline automation |
| `PredictiveActions`, `PredictiveActions_proofs` | recommendations |
| `RiskCompliance` | risk policies |
| `Discounts` | the discount engine |
| `BackOffice` | the last four composed |
| `MCBackOffice` | its instance for TLC |
| `BackOffice_proofs` | theorems about risk policies, discounts and the composition |

A definition whose comment calls it a *mutant of* another is no part of the model: it
is the other definition with a plausible bug, and with it in place some property must
fail (section 4). `PROJECT.json` maps every definition to its lines.

### OfflineSync

One tenant. `queue`, `keys`, `transactions`, `conflicts`, `alerts` are the store's
collections; `catalog` is the price and the update time of each product; `points` the
customers' balances; `rules` the flag
that allows loyalty and the tenant's least redemption; `now` the clock.
`loop` is the replay that is running: who (`sync` or `reconcile`), of which branch, and
which items of the snapshot its filter took are left.

- *Recording.* `EnqueueRaw` is `POST sync/queue`, whose payload is the client's own and is
  checked by nobody: it is any of `RawPayloads`, a constant the proofs leave open. Points
  may be negative or missing, a customer nobody's, an expected balance missing or below
  zero. An `ACCRUE` of negative points at the expected balance is then added by the sync
  without a test, and missing points make the balance no number (`NaN`; `Plus`, `Below`
  and `Same` are the language's arithmetic on it);
  `QueueLoyalty`, `QueueReport`, `InventoryOffline`, `CheckoutOffline`, `AccrueOffline`
  and `RedeemOffline` are the routes that enqueue a payload the server builds. All
  share `EnqueueEvent`, with its duplicate test (`Known`), its deadline and the
  prolonged-offline alert. `AccrueOffline`/`RedeemOffline` change the balance before
  they enqueue, as the code does; the refused duplicate is a disjunct of
  `EnqueueApplied`. A refused request that changed nothing is no step.
- *Replay.* `StartSync` and `StartReconcile` take the snapshot. `SyncItem` is one pass
  of `syncQueue`: deferred while in backoff, expired past its window, failed, disputed
  or confirmed. `ReconcileItem` is one pass of `reconcile`. `EndSync` raises the
  prolonged-offline alert.
- *Staff.* `ResolveConflict`, `EscalateConflict`, `AcknowledgeAlert`.

Abstractions: a sale payload is the set of its lines with the price and the update time
the device saw (the conflict tests read nothing else; a raw payload without them is
`Blank`); a raw loyalty payload has points and balances that are numbers or missing, but
not texts or `null`, which JavaScript would join or convert, and its `ADJUST` is an
accrual; quantities and stock are `StockLedger`'s; the points a sale earns are any of
`Amounts` or none, so that of a loyalty rule only the minimum is state (`UpdateRule`);
an item's attempts are counted up to `MaxRetryAttempts`, since code only compares them
with it; the transient state SYNCING is inside one step. Audit, metrics and event logs
are left out. History variables: `local` and `replays` count the loyalty mutations
posted under a key when it was recorded and when it was replayed.

### OperationLedger

What a client may rely on: a key is unknown, then accepted or posted at once; accepted
operations are posted or disputed; disputed ones are adjudicated; posting adds the
key's one receipt and nothing else does. `OfflineSync` implements it under the mapping
`Phase`/`Receipts` (property `ImplementsLedger`), across both loops and all branches.

### StockLedger

`stock` is the balances, `booked` the net of the inventory logs, `sales` the sales with
their keys and baskets, `known` the keys a request is tested against. `MoveIn` and
`MoveOut` are the kinds of `applyInventoryAction` but for `Transfer`; `Checkout` tests
every line against the balance and only then deducts every line; a basket has up to two
lines of a product, because the handler does not merge them; `VoidSale` puts goods back
and logs nothing. `OtherOperation` stands for every other route that takes a key.
`looped` is the quantity a branch transferred to itself: the destination's balance is
read before the source is written, and with one branch the second write wins.

### Webhook

One tenant's endpoints, clients, deliveries, remembered keys, circuit and rate window.
`Admit`/`Refuse` are `assertRateLimit` and `assertCircuitClosed`: a refused request
counts in the window, an admitted one may turn the circuit half open even when no
endpoint is left to dispatch to. `Dispatch` filters the endpoints and `DispatchSingle`
is one of them; `RetryDue` filters the due deliveries and `RetryOne` is one of them;
both attempt with `Attempted` and judge with `Note`. The result of an attempt is what
the code computes: a URL that contains "fail" or a simulated failure fails, a signature
made with a replaced secret fails for good. `Purge` is the retention timer for the
deliveries, which are in the order of their creation. Times are stored as what is left of
them, in units of half a minute. The tenant's `webhook_outbound` flag is on. A secret
stands for the signature it makes. A rotation of client tokens changes nothing that
dispatch reads. `streak`, `received` and `purged` are history variables.

### AccessControl

`users`, `access`, `branches`, `brand` and `conflicts` are the store's collections;
`enforced` the tenants whose flag `risk_enforcement` is set. A request is one step: its
session `s` comes from the headers and `Admitted` is the chain of checks in the order of
the routes: the context (`Known`), the simulated risk mode (`PassesRisk`), the tenant in
the path (`PathMatches`), the permission table (`May`) and, for the writes of a branch,
the lock (`Unlocked`). `Deny` is the audited refusal. `CreateUser` to `SetUserRole` are
the dashboard's; `UpdateUser` moves the user before it looks at the address, so its
refusal is part of the action. What a point-of-sale request does to goods is not
repeated here: `served` says who was answered, in which tenant, and which branches'
goods were changed or received. `Answer` clears it, so that `served` belongs to the
step that set it.

### Retention

One clock, one purge timer, one timer per job, any request between them. `recorded` is
all that was ever recorded and `records` what the store still has, so that "purged too
early" can be said. `RunOnce` is the purge over all tenants and collections; `ExecuteJob`
the timer of a job, which runs even when the flag was switched off meanwhile;
`ReadWithCache` and `ReadWithTenantHint` the two cached reads with their different flags;
`answer` what the request of the step was told. The audit trail is one chain over all
tenants whose checksum is taken to tell entries apart.

### Notifications, PredictiveActions, RiskCompliance, Discounts

`Notifications`: `inbox` holds the notifications and the remembered keys; `Filed` is
`trigger` with its duplicate test, `Heard` what a listener files, `RetryPending` the
retry of a branch. `happened` is the events there was reason to notify of. The sync an
automation starts may have any of `Outcomes`.

`PredictiveActions`: `List` refreshes, with any outcome of the two forecasts; `Act`
decides. `decisions` and `closed` remember what was decided, apart from the record that a
refresh writes over.

`RiskCompliance`: `ModeFor` is the strictest mode of the matching policies, `UpsertPolicy`
the edit, which replaces everything.

`Discounts`: the rules and caps as operators on a cart (its total, quantity and
categories), in half percents and hundredths with the code's rounding; `Apply` records an
evaluation.

`BackOffice` puts the four side by side, each an instance with constants of its own. They
share no state but the audit trail, so each behaviour works at one `desk` and TLC need not
multiply their states. `MCBackOffice` gives the constants their values; what a part at
rest starts with does not matter there, and `MCInit` chooses one such state.

## 3. What the runs check

| Run | Instance | Properties |
|---|---|---|
| `OfflineSync_sales` | 1 branch, 3 keys, 1 product with 2 prices, checkout, inventory, raw queue, product updates, conflicts | `TypeOK`, `AtMostOneTransactionPerKey`, `UnconfirmedIsUncommitted`, `ConfirmedIsAccountedFor`, `ConflictsMatchQueue`, `SettledForever`, `StaleSalesNotReplayed` |
| `OfflineSync_loyalty` | 1 branch, 2 keys, 1 customer, raw accruals of -2 points at two balances and of none, rewards and their rule (2 minimums), queued loyalty, reconcile, flag, conflicts | `OverdrawnByRawPayloadOnly`, `ReplayPostsOnce` |
| `OfflineSync_ledger` | 2 branches, 2 keys, raw queue, checkout, reports, reconcile, conflicts | `ImplementsLedger` |
| `OfflineSync_liveness` | 1 branch, 2 keys, time up to 5, with alerts acknowledged and the flag switched | `NoSilentStall` |
| `StockLedger_main` | 2 branches, 1 product, 1 key and requests without one, balances up to 3, 2 sales | `TypeOK`, `StockExplained`, `SoldOncePerKey`, `OverdrawnBySplitLinesOnly` |
| `Webhook_main` | 2 endpoints, 1 client, 1 key, threshold 3, 3 attempts | `TypeOK`, `BreakerFollowsResults`, `ReceivedOnceWhileKept`, `SettledStays`, `OnlyRetriesEvadeControls`, `EveryRetryEnds` |
| `AccessControl_main` | 2 tenants; a manager, an owner, the application owner and a user to be created; 2 branches and one to be created; 2 changes | `TypeOK`, `HomeIsAccessible`, `OwnersMadeByOwners`, `LastAdministratorLeavesAlone`, `OthersKeepToTheirTenant`, `LockedBranchOnlyReceives`, `RestrictionHoldsItself` |
| `Retention_main` | 3 branches of 2 tenants; in each behaviour one of five groups of routes; 1 record, hold, job and sale, time up to 3 | `AuditExportComplete`, `HoldsShownInTime`, `YoungRecordsKept`, `ChainVerifies`, `SnapshotCoversRequest`, `TimersCatchUp` |
| `BackOffice_main` | one desk per behaviour: 3 sessions in 2 branches and 4 mixtures of events; 2 readers, 2 recommendations; 2 policies over 3 branches of 2 tenants; 3 carts under 3 discount policies | `EventsAnnouncedOnce`, `WaitingIsDelivered`, `DecisionsStand`, `TwiceOnlyReopened`, `MoreRiskIsNeverLooser`, `AddedBenefitNeverRaisesPrice` |

*Bounds.* Two keys are the fewest that show one operation disturbing another; the third
in the sales run lets two disputes and one confirmation meet. The raw accruals of
the loyalty run take 2 points from a balance of 1, and again from the -1 that this leaves;
another has no points. So a balance is overdrawn, overdrawn further, repaid, or no number.
That run's `Horizon` is one tick, which lets a backoff pass; the later deadlines are in the
sales and liveness runs. The replay window, the
backoff and the attempts are one or two ticks, so each deadline falls before, at and
after a retry; `LastRequest` stops new requests early enough for every operation to
expire within `Horizon`. `MaxQueue`, `MaxOnline`, `MaxPoints`, `MaxStock`, `MaxSales`
and `MaxEndpoints` bound what requests may add and occur in guards only. In the webhook
run the attempts (3) equal the threshold (3), as in the code's defaults, and two
endpoints let failures and successes of one loop fall on both sides of it. The constants
`Endpoints` of the OfflineSync runs choose the routes an instance exercises; each route
is in at least one run. Symmetry is declared for the keys, and in the stock run for the
branches, which open with the same stock, only in runs without
temporal formulas of the liveness kind.

In the access run `MaxChanges` counts the grants of administrators; two are the fewest
with which one user could be used to raise another, or two managers to deactivate each
other; locks, conflicts and writes are not counted. Two tenants share the
spelling of an address and a code. In the retention run the shortest term is two
units and the horizon three, so the purge falls before, at and after it; cached answers
live one unit, shorter than that, so a stale answer can be read and told from a fresh one;
two entries of the audit trail that requests make, and those the timers add to them, make
a chain. `Routes` groups the routes that touch the same state. In the back office, two
notifications are the fewest of which one can suppress another; two recommendations the
fewest for a duplicate; two policies the fewest that can disagree, in three branches so
that one is the neighbour's; the carts lie just above and just below tiers and at a price
where a cent of rounding is a seventh of the total; of the policies one has caps tight
enough to bind together and expires, and one is refused.

*Deadlock.* The OfflineSync, StockLedger and Retention instances stop where their bounds
stop them, so these configurations switch the deadlock check off. The others have no such
state and are checked for it.

*Fairness.* The clock advances (`WF` of `Tick`). A running loop is synchronous code and
ends (`WF` of `LoopStep`). A branch that keeps asking for a sync, or a client that keeps
asking for the retries, is served: the event loop takes requests in the order they
came, but between two of them a loop may be running, the circuit open or the window
full, so this is `SF` of `StartSync(b)` and `RetryDue`. Nothing is assumed of staff, of
customers or of the endpoints. Without somebody who asks, no operation is ever replayed:
the server has no timer of its own for either. The purge and the jobs do have timers,
which Node fires: `WF` of `RunOnce` and of `ExecuteJob`; neither assumes that time goes
on. Notifications have none: `WaitingIsDelivered` assumes that the managers of a branch
bring its connection back whenever it is gone (`WF` of `SetConnectivity(..., TRUE)`) and
that some of their repeated retries happen while it is there (`SF`, because it may be
lost again in between). What is proved of it is then that one retry delivers everything
and that no later one sends it again.

### Where the code and the documents differ

These runs state a sentence of the repository's documents and TLC shows a behaviour of
the code that contradicts it. `PROJECT.json` quotes the lines.

| Run | The document | The code |
|---|---|---|
| `OfflineSync_aba` | replayed events are idempotent | whether a queued mutation was applied is inferred from the balance; a balance that has returned to its old value makes the replay post it again |
| `StockLedger_negative` | no negative stock | lines of a basket are tested one by one |
| `AccessControl_lock` | open conflicts require a manager's resolution | a locked cashier escalates the conflict, which is then no longer open, and the lock is gone |

Others were met while modelling and are visible in the actions named, without a run of
their own:

- offline accrual and redemption change the balance before the key is tested
  (`EnqueueApplied`), and an online stock movement does not record its key (`Acted`),
  where `docs/CFGP-MES-v1.0.md:87` has duplicate UUIDs ignored;
- `reconcile` does not read the replay window (`ReconcileItem`), where
  `docs/ACP.md:378` has its expiry block a stale replay and `docs/FRD-v1.2.md:339` wants
  such operations escalated;
- retries do not look at a kill switch (`RetryOne`), where `docs/FRD-v1.2.md:622` has it
  prevent linked dispatch; `OnlyRetriesEvadeControls` says that they alone do not;
- a queued loyalty mutation is confirmed without being posted when the balance
  happens to be the one it was expected to leave (`SyncConfirm`, `AppliesOnSync`);
- a raw event with negative points, or none, overdraws or spoils a balance when a sync posts
  it (`EnqueueRaw`, `SyncConfirm`), where `recordMutation` refuses every sum below zero;
  `OverdrawnByRawPayloadOnly` says that nothing else does;
- a report queued offline is confirmed by a sync without being generated (`SyncConfirm`),
  where `docs/FRD-v1.1.md:473` has it queued for delayed processing;
- an item in backoff is overtaken by later ones of its branch (`SyncDefer`), where
  `docs/CFGP-MES-v1.0.md:86` wants order;
- resolving a price conflict applies no price (`ResolveConflict`), where
  `docs/ACP.md:45` has the server's price applied;
- a void is not in the inventory log (`VoidSale`), where `docs/FRD-v1.1.md:207` derives
  stock from it; a transfer of a branch to itself only adds (`Shift`);
- a delivery whose record was purged is delivered again under its key (`Duplicate`),
  where `docs/FRD-v1.2.md:513` excludes that;
- the term a tenant sets for the audit trail (`docs/FRD-v1.2.md:457`) is stored and never
  applied: the purge leaves the trail alone (`AuditAfterPurge`), which is why the chain
  verifies;
- the purge looks at no legal hold (`RunOnce`); holds are shown in exports, not enforced;
- a cached export is evicted by neither a new hold nor a release (`CreateLegalHold`);
- low stock is announced to cashiers as well (`Heard`), where `docs/ACP.md:189` names
  managers, owners and inventory staff; stock that falls to the same level again has the
  key of the earlier notification and is not announced (`Key`);
- a refused update of a user has moved the user (`UpdateUser`); a branch's code is
  compared without regard to case when it is created and with it when it is changed
  (`CreateBranch`, `UpdateBranch`);
- a transfer may name a destination its sender has no access to, locked or not
  (`Transfer`); a conflict is settled by its id alone, whatever its tenant
  (`ResolveConflict`);
- a recommendation of the SLA forecast is filed before the request is refused for its
  unknown branch (`List`); decisions have no order (`Act`);
- an edit of a risk policy replaces all of it and finds it by its id alone
  (`UpsertPolicy`).

## 4. What a mutant is for

Every property of a passing run has a mutant: a definition of the model with a bug of
the kind such code has (a lookup that forgets the queue, a filter that takes what is
settled, a comparison in place of a sufficiency test, a breaker whose failed probe stays
half open, uncounted attempts, a deactivated user who is still found, a purge that forgets
a collection, a key per tenant instead of per branch, the last matching policy instead of
the strictest). TLC finds each property violated with its mutant in place
and under the same bounds, so the bounds are large enough for the property to fail.

## 5. What is proved

The proofs hold for every value of the constants allowed by the named assumptions
(`PolicyAssumption`, `DataAssumption`, `RawAssumption`; `StockAssumption`; `WebhookAssumption`;
`AccessAssumption`; `RetentionAssumption`; `NotificationsAssumption`,
`PredictiveAssumption`, `RiskAssumption`, `DiscountsAssumption`, joined in
`BackOfficeAssumption`): any number of branches, keys, customers, endpoints, users,
policies, requests, any bounds. The four of the back office are formulas that the theorems
name as hypotheses, since their modules are instantiated by `BackOffice`, which assumes
them of its instances; TLC evaluates them on those of `MCBackOffice`. Every safety
invariant and every action property of a run, and the refinement, is stated by a theorem.

**`OfflineSync_proofs`.** `InductiveInvariant` is the heart. None of the safety
properties is inductive: that a confirmation does not add a second transaction needs
that unconfirmed operations have none, which needs that each key is in the queue once
and that the running loop's snapshot holds only operations still waiting; that
confirmed operations have an account needs that conflict records point at the items they
dispute. The invariant joins these: types, one item per key, the snapshot,
unconfirmed-uncommitted, confirmed-accounted, conflicts-match, at most one transaction, and replay
counts that follow confirmation. Each action preserves each part it can disturb. From it follow
`TypeCorrectness`, `AtMostOnce`, `NothingBeforeConfirmation`, `Accountability`,
`ConflictConsistency`, `SinglePosting` and, as an action property, `Settlement`.
`StaleSalesWait` also needs that the snapshot of `reconcile` never holds a sale or a stock
movement and that no item changes its type. `Implementation` is the refinement: the phase
of a key is a function of the queue and the transactions, and each shape a step can have is
one lifecycle step of one key of `OperationLedger`, or a stutter. `PromisesKept` is what
this is worth to a client: of the abstract ledger it is a short induction that a key has
one receipt exactly when it was posted and that what is posted or adjudicated stays so
(`LedgerPromises`), and the refinement makes both true of the queue.
`OverdraftsAreRaw` assumes nothing of what `POST sync/queue` is sent. A step lets no balance
fall below zero, nor further below: requests and `reconcile` test the sum, and the sync
posts a redemption only on a balance equal to the recorded one, which covered it. What is
left is a payload without points and, in a sync, an accrual of a negative number. The
invariant gains that the payload of every queued mutation has either checked points or came
through `POST sync/queue` (`AllSourced`), so the operation just posted is a raw one; it is
confirmed, `Settlement` keeps it so, and it goes on explaining the balance while that gets
no worse.

**`StockLedger_proofs`.** `StockTypes`; `OneSalePerKey`, with the strengthening that the
key of every sale is known; `OverdraftNeedsTwoLines`, an action property: whatever else
happens, a balance falls below zero only by a checkout of two lines, each covered.
`OverdraftIsBounded` bounds the damage that `StockLedger_negative` shows: while a balance
is negative, one sale of that branch names the product in two lines, and the balance lacks
no more than the smaller of them; so with one line per product nothing is ever negative.
`BalancesExplained`: opening stock, the inventory log, what voided sales returned and what
was transferred to itself add up to every balance. What was returned is a sum over the
sales, so this rests on lemmas about sums over finite sets, which the library does not
have: a fold is independent of the order in which a set is taken (`FoldsAgree`,
`SumAny`), two functions that agree on a set have the same sum over it (`SumAgree`), and
one more member adds its value (`SumExtend`). They are proved by induction on the size of
the set; as no prover here can instantiate the library's induction over an operator, the
induction is over a *set* of numbers, those for which every set of that size has the
property (`SetInduction`), taken from well-foundedness. A checkout appends a sale that is
not void, a void moves one index into the set that is summed, and no other action touches
a sale.

**`Webhook_proofs`.** `WebhookInvariant` joins the types, the bound that ties attempts to
statuses, that the running loop addresses existing endpoints or deliveries that are still
in retry, that a dispatch only addresses eligible endpoints (nothing changes them while it
runs), that a kept delivery is the only one of its endpoint and key and accounts for what was
received, and that the breaker follows the streak. From it follow `WebhookTypes`,
`BreakerIsTrue`, `ReceivedOnce`, and the action properties `SettledIsFinal`,
`ControlsHoldForDispatch` and `RetriesAdvance`. The last one is what the liveness of
retries rests on beside its fairness: a delivery in retry is never attempted before its
time, waits less with every tick, counts every attempt and leaves retry by the last one
allowed, so that nothing but a lack of ticks and requests could keep it there.

**`AccessControl_proofs`.** The inductive invariant joins the types, `HomeIsAccessible`,
that addresses are kept in lower case (without which a comparison of addresses would not
tell that they are distinct), `EmailsDistinct` and `CodesDistinct`. From it
`AccessTypes`, `HomesAccessible`, `OneUserPerAddress` and `OneBranchPerCode`; the last
two state invariants that no run lists. The action properties `LockHolds`,
`RestrictionHolds`, `AdministratorsRemain`, `OwnersFromOwners` and `TenantsApart` follow
from what `Admitted` demands of every action, by one lemma per kind of action on what it
may change.

**`Retention_proofs`.** `YoungAreKept`: with the types, and with that every policy in
force has acceptable terms, a purge removes nothing that young. `ChainAlwaysVerifies`:
appending keeps a chain, and nothing else touches the trail. `SnapshotsCover`: sales only
grow, and a snapshot is recorded in the step that ends its job, so it is as young as the
job. `ExportsComplete` and `HoldsInTime`: the invariant says of every cached answer that it
is as true as at the moment it was loaded, which lies its life before its expiry; what has
happened since carries a later time, as entries, holds and records are stamped when they
are made, so it falls in the delay the properties allow.

**`Notifications_proofs`.** `OneNotificationPerEvent`. That an announced event has
exactly one notification is not inductive: it needs that the key of every announced event
is remembered (`AllSeen`), that the remembered keys of a tenant are those of its
notifications, that a notification whose key names a branch is filed there, and that no two
of a tenant have one key (`Sound`); then a duplicate that is suppressed has a notification,
and one that is filed is new. A retry updates notifications where they are
and changes none of these (`Keeps`). From the same invariant `NotificationTypes` and
`DeliveriesStand`: what was delivered counts one attempt and is never waiting again, the
safety that `WaitingIsDelivered` offers without fairness.

**`PredictiveActions_proofs`.** `RefreshesKeepDecisions` and `OnePerSource`, from an
invariant that joins both with the types and with that a recommendation whose decision
closed it is remembered as closed.

**`BackOffice_proofs`.** Of risk policies `PolicyTypes` and `DecisionsAreMonotone`: a
policy matches when its conditions are among the factors, so more factors match more
policies, and the strictest mode of a set is at least that of a subset. Of discounts
`BenefitsNeverRaisePrice`, for every cart, rate and cap: each rule is monotone, so is a
minimum with a cap, and so is the rounded total. Then the composition: a step of one desk
leaves the variables of the others alone, so a behaviour of `BackOffice` is a behaviour of
each part (`BehavesAsEachPart`), and the theorems of the parts carry over, those of
`Notifications_proofs` and `PredictiveActions_proofs` through instances of these modules
(`BackOfficeAnnouncesOnce`, `BackOfficeDecisionsStand`, `BackOfficeOnePerSource`,
`BackOfficeJudgesMonotonically`, `BackOfficePricesMonotonically`). These are the properties
that `BackOffice_main` checks.

### Only model-checked

- Liveness (`NoSilentStall`, `EveryRetryEnds`, `TimersCatchUp`, `WaitingIsDelivered`):
  temporal reasoning with fairness and `ENABLED` is beyond the prover. What these rest on
  without fairness is proved where it can be said: `RetriesAdvance`, `DeliveriesStand`.
- The differences from the documents, which are counterexamples.

## 6. What is not modelled, and the plan

Not modelled at all: plugins (one guarded call to a stub; a charge that is sent again is
charged again), metrics (nothing they compute is read by a decision), the HTTP shell, web
pages, SQL, the demonstration backend and the mobile application. Of reports and
analytics only that they yield some forecast. Partly: the rotation of webhook client
tokens, which changes nothing dispatch reads. The notes of the components in `PROJECT.json` say more.

What the plan has left, in its order:

1. The rotation and verification of client tokens, in `Webhook`.
2. The composition of `AccessControl`'s lock with the queue of `OfflineSync`, in place of
   a sync that may find a conflict.
3. The mobile checkout draft.
