------------------------------ MODULE MCBackOffice -----------------------------
(* The instance of BackOffice for TLC. *)
EXTENDS BackOffice

(* Notifications *)
Bs == {"b1", "b2"}
Tenant1 == [b \in Bs |-> "t1"]
Manager == [user |-> "u1", role |-> "MANAGER", branch |-> "b1"]
Owner == [user |-> "u2", role |-> "TENANT_OWNER", branch |-> "b2"]
Cashier == [user |-> "u3", role |-> "CASHIER", branch |-> "b2"]
AppOwner == [user |-> "u4", role |-> "APPLICATION_OWNER", branch |-> "b2"]
MCSessions == {Manager, Owner, Cashier}
MCScenes == {{"stock", "risk"}, {"manual", "loyalty"}, {"automation"}, {"conflict", "manual"}}
MCOutcomes == {[failed |-> 0, found |-> FALSE, duplicates |-> FALSE, open |-> FALSE],
               [failed |-> 3, found |-> TRUE, duplicates |-> FALSE, open |-> TRUE]}

(* Recommendations: one source with a risk that may grow, and one trend. *)
MCReaders == {Manager, AppOwner}
MCSla == {[ref |-> "sla", severity |-> "WARN"], [ref |-> "sla", severity |-> "CRITICAL"]}
MCTrend == {[ref |-> "trend", severity |-> "WARN"]}

(* Risk policies, of which those of the seeded store may be replaced. *)
RiskBs == {"b1", "b2", "b3"}
Tenant2 == [b \in RiskBs |-> IF b = "b3" THEN "t2" ELSE "t1"]
Neighbour == [user |-> "u5", role |-> "MANAGER", branch |-> "b3"]
MCOfficers == {Manager, Cashier, Neighbour}
Seed == <<[branch |-> "b1", scope |-> "BRANCH", mode |-> "READ_ONLY", enabled |-> TRUE,
           conditions |-> {"restrictedLocation"}],
          [branch |-> "b1", scope |-> "TENANT", mode |-> "BLOCK", enabled |-> TRUE,
           conditions |-> {"vpnDetected", "untrustedDevice"}]>>
MCConditions == {{}, {"vpnDetected", "untrustedDevice"}}

(* Discounts, with the policy of the program, one with tight caps that ends, *)
(* and one that is not valid.                                                *)
CapsOf(base, promo, loyalty, global, manual) ==
    [cap \in {"baseAutomatic", "promoBucket", "loyalty", "global", "manualOverrideMax"} |->
        CASE cap = "baseAutomatic" -> base [] cap = "promoBucket" -> promo
          [] cap = "loyalty" -> loyalty [] cap = "global" -> global [] OTHER -> manual]
Rates == [c \in {"WEEKEND5", "VIP3"} |-> IF c = "VIP3" THEN 6 ELSE 10]
MCPolicies == {[from |-> 0, to |-> 9, caps |-> CapsOf(24, 16, 6, 50, 20), coupons |-> Rates],
               [from |-> 1, to |-> 1, caps |-> CapsOf(10, 8, 4, 12, 8), coupons |-> Rates],
               [from |-> 0, to |-> 9, caps |-> CapsOf(24, 16, 6, 20, 30), coupons |-> Rates]}
MCCarts == {[subtotal |-> 12000001, quantity |-> 20, categories |-> {"Fruits", "Staples"}],
            [subtotal |-> 4999999, quantity |-> 9, categories |-> {"Staples"}],
            [subtotal |-> 7, quantity |-> 1, categories |-> {"Dairy"}]}

-----------------------------------------------------------------------------
(* What a part at rest starts with does not matter. *)
MCInit ==
    /\ Init
    /\ desk # "notifications" => enabled /\ used = {"automation"}
    /\ desk # "discounts" => policy.from = 1

(* Only the liveness of notifications needs fairness, which leaves of the    *)
(* infinite behaviours those of their desk; all are explored.                *)
MCSpec == MCInit /\ [][Next]_vars /\ N!Fairness
=============================================================================
