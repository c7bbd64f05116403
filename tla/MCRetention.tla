------------------------------ MODULE MCRetention ------------------------------
(* An instance of Retention for TLC: a tenant with two branches and another  *)
(* with one, and policies of which one is too short to be accepted.          *)
EXTENDS Retention, TLC
CONSTANTS b1, b2, b3, t1, t2

MCTenantOf == (b1 :> t1) @@ (b2 :> t1) @@ (b3 :> t2)
MCInitialPolicy == [term \in Terms |-> MinDays + 1]
MCAskedPolicies == {[term \in Terms |-> MinDays],
                    [term \in Terms |-> IF term = "metric" THEN MinDays - 1 ELSE MinDays]}
MCRoutes == {
    {"exports/audit", "exports/retention-policy", "scale_reads", "cache/evict"},
    {"compliance/exports", "compliance/legal-holds", "SECURITY"},
    {"compliance/exports", "scale_reads", "phase7_scale_guard", "cache/evict", "COMPLIANCE"},
    {"exports/retention-policy", "WEBHOOK", "REPORT", "METRIC"},
    {"aggregation/jobs", "background_aggregation", "sales/checkout", "exports/retention-policy"}}
=============================================================================
