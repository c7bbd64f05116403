----------------------------- MODULE Notifications -----------------------------
(***************************************************************************)
(* In-app notifications: fiamService.ts files, delivers, retries and marks *)
(* them read; triggerService.ts files one for an event of stock, loyalty,  *)
(* conflicts or risk; offlineAutomationService.ts raises alerts and such   *)
(* an event.  A listener runs inside the handler that emits its event.     *)
(*                                                                         *)
(* One product and one customer per branch.  Titles and texts are left     *)
(* out, and alerts that say the same are one.                              *)
(***************************************************************************)
EXTENDS Integers, Sequences, FiniteSets

CONSTANTS Branches, TenantOf,
          Sessions,        \* who asks: [user, role, branch]
          StockAlert, MaxStock, Deltas,
          Modes,           \* of the risk policy: WARN, READ_ONLY, BLOCK
          Outcomes,        \* of an automated sync: [failed, found, duplicates, open]
          Uuids,           \* keys of requests to notify
          Scenes,          \* sets of kinds of events that happen together
          MaxNotes         \* bound: a full inbox hears nothing more

Everyone == {"APPLICATION_OWNER", "TENANT_OWNER", "MANAGER", "CASHIER", "INVENTORY_STAFF"}
Managers == {"APPLICATION_OWNER", "TENANT_OWNER", "MANAGER"}

NotificationsAssumption ==
    /\ \A s \in Sessions : s.branch \in Branches
    /\ MaxStock \in Nat

VARIABLES
    inbox,       \* [notes, seen]: store.notifications and store.notificationIdempotency
    online,      \* store.notificationConnectivity
    enabled,     \* FIAM_ENABLED, read when the service is built
    stock,       \* the balance of each branch
    raised,      \* conflicts that each branch has had
    alerts,      \* store.offlineAlerts
    used,        \* the kinds of events that happen, one of Scenes
    happened     \* the events there were reason to notify of: <<branch, what>>

vars == <<inbox, online, enabled, stock, raised, alerts, used, happened>>

Init ==
    /\ inbox = [notes |-> <<>>, seen |-> {}]
    /\ online = [b \in Branches |-> TRUE]
    /\ enabled \in BOOLEAN
    /\ stock = [b \in Branches |-> MaxStock]
    /\ raised = [b \in Branches |-> 0]
    /\ alerts = {} /\ happened = {}
    /\ used \in Scenes

-----------------------------------------------------------------------------
(* Filing *)

(* What an event is about, and its key. *)
Stock(qty) == [stock |-> qty]
Loyalty(delta) == [loyalty |-> delta]
Conflict(id) == [conflict |-> id]
Enforcement(severity) == [enforcement |-> severity]
Risk(s, mode) == [risk |-> mode, user |-> s.user]
TenantKey(b, what) == [branch |-> TenantOf[b], of |-> what]      \* mutant
Key(b, what) == [branch |-> b, of |-> what]

Delivered(n) == [n EXCEPT !.attempts = @ + 1, !.status = "SENT"]
Failed(n) == [n EXCEPT !.status = "FAILED"]
Same(n, b, key) == n.branch = b /\ n.key = key

(* A key counts in its tenant, whatever branch it was filed for. *)
Filed(box, b, key, roles, forceQueue) ==
    LET t == TenantOf[b]
        new == [tenant |-> t, branch |-> b, key |-> key, roles |-> roles,
                status |-> "PENDING", attempts |-> 0, readBy |-> {}]
        note == IF ~forceQueue /\ online[b] /\ enabled THEN Delivered(new)
                ELSE IF ~enabled THEN Failed(new) ELSE new
    IN  IF \/ \E i \in DOMAIN box.notes : box.notes[i].tenant = t /\ Same(box.notes[i], b, key)
           \/ <<t, key>> \in box.seen
        THEN box
        ELSE [notes |-> Append(box.notes, note), seen |-> box.seen \cup {<<t, key>>}]

Room(kind) == Len(inbox.notes) < MaxNotes /\ kind \in used

(* What the listeners of events do. *)
Heard(box, b, what) ==
    Filed(box, b, Key(b, what),
          CASE "loyalty" \in DOMAIN what -> {"TENANT_OWNER", "MANAGER", "CASHIER"}
            [] OTHER -> Everyone \ {"APPLICATION_OWNER"}, FALSE)
Emit(b, what) == inbox' = Heard(inbox, b, what) /\ happened' = happened \cup {<<b, what>>}

Trigger(s, b, uuid, forceQueue) ==
    /\ Room("manual") /\ s.role \in Managers
    /\ inbox' = Filed(inbox, b, [manual |-> uuid], Everyone, forceQueue)
    /\ UNCHANGED <<online, enabled, stock, raised, alerts, used, happened>>

StockChange(b, qty) ==
    /\ Room("stock") /\ qty # stock[b]
    /\ stock' = [stock EXCEPT ![b] = qty]
    /\ IF qty > StockAlert THEN UNCHANGED <<inbox, happened>>
       ELSE Emit(b, Stock(qty))
    /\ UNCHANGED <<online, enabled, raised, alerts, used>>

PointsChange(b, delta) ==
    /\ Room("loyalty") /\ delta # 0
    /\ Emit(b, Loyalty(delta))
    /\ UNCHANGED <<online, enabled, stock, raised, alerts, used>>

ConflictDetected(b) ==
    /\ Room("conflict")
    /\ raised' = [raised EXCEPT ![b] = @ + 1]
    /\ Emit(b, Conflict(raised'[b]))
    /\ UNCHANGED <<online, enabled, stock, alerts, used>>

RiskMode(s, mode) ==
    /\ Room("risk")
    /\ Emit(s.branch, Risk(s, mode))
    /\ UNCHANGED <<online, enabled, stock, raised, alerts, used>>

-----------------------------------------------------------------------------
(* Offline automation *)

(* x: the failures of the sync it begins with, whether that found a conflict, *)
(* and whether the branch has duplicates and open conflicts when it ends.     *)
Severity(x) == IF x.failed >= 3 THEN "BLOCK"
               ELSE IF x.duplicates \/ x.open THEN "READ_ONLY" ELSE "WARN"
Raised(b, x) ==
    LET Alert(category, severity) == [branch |-> b, category |-> category,
                                      severity |-> severity, acknowledged |-> FALSE]
        found == (IF x.duplicates THEN {Alert("QUEUE", Severity(x))} ELSE {})
                 \cup (IF x.open THEN {Alert("CONFLICT", "READ_ONLY")} ELSE {})
    IN  IF Severity(x) # "WARN" \/ found # {}
        THEN found \cup {Alert("RISK", Severity(x))} ELSE {}

RunAutomation(s, x) ==
    LET b == s.branch
        found == IF x.found THEN {Conflict(raised[b] + 1)} ELSE {}
        enforced == IF Severity(x) = "WARN" THEN {} ELSE {Enforcement(Severity(x))}
        synced == IF x.found THEN Heard(inbox, b, Conflict(raised[b] + 1)) ELSE inbox
    IN  /\ Room("automation") /\ s.role \in Managers
        /\ raised' = [raised EXCEPT ![b] = @ + Cardinality(found)]
        /\ alerts' = alerts \cup Raised(b, x)
        /\ inbox' = IF enforced = {} THEN synced ELSE Heard(synced, b, Enforcement(Severity(x)))
        /\ happened' = happened \cup ({b} \X (found \cup enforced))
        /\ UNCHANGED <<online, enabled, stock, used>>

AcknowledgeAlert(s, a) ==
    /\ a.branch = s.branch /\ s.role \in Managers
    /\ alerts' = (alerts \ {a}) \cup {[a EXCEPT !.acknowledged = TRUE]}
    /\ UNCHANGED <<inbox, online, enabled, stock, raised, used, happened>>

-----------------------------------------------------------------------------
(* Delivery *)

Unread(n) == n.readBy = {}      \* mutant: sends again what was sent
Waiting(n) == n.status \in {"PENDING", "FAILED"}
Retried(n) == IF ~online[n.branch] THEN [n EXCEPT !.status = "PENDING"]
              ELSE IF ~enabled THEN Failed(n) ELSE Delivered(n)

RetryPending(s) ==
    /\ s.role \in Managers
    /\ inbox' = [inbox EXCEPT !.notes =
           [i \in DOMAIN @ |-> IF @[i].branch = s.branch /\ Waiting(@[i]) THEN Retried(@[i]) ELSE @[i]]]
    /\ UNCHANGED <<online, enabled, stock, raised, alerts, used, happened>>

SetConnectivity(s, b, on) ==
    /\ s.role \in Managers /\ online' = [online EXCEPT ![b] = on]
    /\ UNCHANGED <<inbox, enabled, stock, raised, alerts, used, happened>>

MarkRead(s, i) ==
    /\ inbox.notes[i].branch = s.branch /\ s.role \in inbox.notes[i].roles
    /\ inbox' = [inbox EXCEPT !.notes[i].readBy = @ \cup {s.user}]
    /\ UNCHANGED <<online, enabled, stock, raised, alerts, used, happened>>

-----------------------------------------------------------------------------
Next ==
    \/ \E b \in Branches :
          \/ \E qty \in 0 .. MaxStock : StockChange(b, qty)
          \/ \E delta \in Deltas : PointsChange(b, delta)
          \/ ConflictDetected(b)
    \/ \E s \in Sessions :
          \/ \E b \in Branches, uuid \in Uuids, forceQueue \in BOOLEAN : Trigger(s, b, uuid, forceQueue)
          \/ \E mode \in Modes : RiskMode(s, mode)
          \/ \E x \in Outcomes : RunAutomation(s, x)
          \/ \E a \in alerts : AcknowledgeAlert(s, a)
          \/ RetryPending(s)
          \/ \E b \in Branches, on \in BOOLEAN : SetConnectivity(s, b, on)
          \/ \E i \in DOMAIN inbox.notes : MarkRead(s, i)

Spec == Init /\ [][Next]_vars

(* No timer retries: the managers of a branch bring its connection back, and *)
(* of the retries they ask for, again and again some while it is connected.  *)
Fairness ==
    \A s \in Sessions :
        /\ WF_vars(SetConnectivity(s, s.branch, TRUE))
        /\ SF_vars(online[s.branch] /\ RetryPending(s))

-----------------------------------------------------------------------------
(* fiamService.trigger, whose idempotency is per tenant while its events are  *)
(* of a branch: whatever there was reason to notify of has one notification,  *)
(* and that is where its branch sees it.                                      *)
EventsAnnouncedOnce ==
    \A e \in happened :
        LET filed == {i \in DOMAIN inbox.notes : inbox.notes[i].key = Key(e[1], e[2])}
        IN  Cardinality(filed) = 1 /\ \A i \in filed : inbox.notes[i].branch = e[1]

(* retryPending: "Retry endpoint delivers queued notifications after          *)
(* connectivity restore" (docs/ACP.md:204).  With the provider enabled, what  *)
(* waits is delivered, and delivered once, however often the connection is    *)
(* lost between the retries.                                                  *)
WaitingIsDelivered ==
    \A i \in 1 .. MaxNotes + 1 :
        LET IsFiled == i \in DOMAIN inbox.notes
            IsDelivered == IsFiled /\ inbox.notes[i].status = "SENT" /\ inbox.notes[i].attempts = 1
        IN  (IsFiled /\ enabled) ~> []IsDelivered
=============================================================================
