---------------------------- MODULE RiskCompliance -----------------------------
(***************************************************************************)
(* Risk policies (riskComplianceService.ts): what those of a tenant decide *)
(* of an operation under the risk factors that are reported with it, the   *)
(* events that are recorded of it, and the rehearsal of an incident.       *)
(*                                                                         *)
(* A policy is known by its place in the list, and its tenant is that of   *)
(* its branch, which every handler checks.  The lists of events are only   *)
(* appended to, and only their lengths are kept.                           *)
(***************************************************************************)
EXTENDS Integers, Sequences, FiniteSets

CONSTANTS Branches, Tenants, TenantOf,
          Officers,        \* who edits and asks: [role, branch]
          SeedPolicies,
          AskedModes, AskedConditions,     \* of the policies that are asked for
          MaxPolicies, MaxEvents       \* bounds

Factors == {"vpnDetected", "restrictedLocation", "untrustedDevice"}
Modes == {"ALLOW", "WARN", "READ_ONLY", "BLOCK"}
ModeRank == [ALLOW |-> 0, WARN |-> 1, READ_ONLY |-> 2, BLOCK |-> 3]
Managers == {"APPLICATION_OWNER", "TENANT_OWNER", "MANAGER"}
Nowhere == "nowhere"

Policies == [branch : Branches, scope : {"TENANT", "BRANCH"}, mode : Modes \ {"ALLOW"},
             enabled : BOOLEAN, conditions : (SUBSET Factors) \ {{}}]

RiskAssumption ==
    /\ TenantOf \in [Branches -> Tenants]
    /\ SeedPolicies \in Seq(Policies)
    /\ AskedModes \subseteq Modes \ {"ALLOW"}
    /\ AskedConditions \subseteq SUBSET Factors
    /\ MaxPolicies \in Nat /\ MaxEvents \in Nat

VARIABLES
    policies,      \* store.riskCompliancePolicies
    enforced,      \* the tenants with the flag risk_enforcement
    recorded       \* lengths of the lists of security, compliance and life-cycle events

vars == <<policies, enforced, recorded>>

Init ==
    /\ policies = SeedPolicies
    /\ enforced = Tenants
    /\ recorded = [security |-> 0, compliance |-> 0, lifecycle |-> 0, alerts |-> 0]

-----------------------------------------------------------------------------
(* What the policies decide *)

Matches(p, b, factors) ==
    /\ p.enabled /\ TenantOf[p.branch] = TenantOf[b]
    /\ p.scope = "TENANT" \/ p.branch = b
    /\ p.conditions \subseteq factors
Matched(b, factors) == {i \in DOMAIN policies : Matches(policies[i], b, factors)}

Strictest(modes) == CHOOSE m \in modes : \A other \in modes : ModeRank[other] <= ModeRank[m]
LastModeFor(b, factors) ==        \* mutant
    IF TenantOf[b] \in enforced /\ Matched(b, factors) # {}
    THEN policies[CHOOSE i \in Matched(b, factors) : \A j \in Matched(b, factors) : j <= i].mode
    ELSE "ALLOW"
ModeFor(b, factors) ==
    IF TenantOf[b] \in enforced
    THEN Strictest({"ALLOW"} \cup {policies[i].mode : i \in Matched(b, factors)})
    ELSE "ALLOW"

Allowed(mode, action) == CASE mode = "BLOCK" -> FALSE
                           [] mode = "READ_ONLY" -> action # "WRITE"
                           [] OTHER -> TRUE

-----------------------------------------------------------------------------
Count(security, compliance, lifecycle, alerts) ==
    /\ recorded.security < MaxEvents
    /\ recorded' = [security |-> recorded.security + security,
                    compliance |-> recorded.compliance + compliance,
                    lifecycle |-> recorded.lifecycle + lifecycle,
                    alerts |-> recorded.alerts + alerts]
    /\ UNCHANGED <<policies, enforced>>

(* An evaluation that the flag leaves out is no compliance event. *)
Evaluate(t) == Count(1, IF t \in enforced THEN 1 ELSE 0, 0, 0)

SimulateCriticalIncident(s) == s.role \in Managers /\ Count(1, 2, 4, 1)

(* An update replaces the whole policy: one that names no branch moves it to  *)
(* the branch of who asks, and one that does not say "enabled" enables it.    *)
(* The policy is found by its id alone, whichever tenant it was of.           *)
UpsertPolicy(s, i, scope, asked, mode, enabled, conditions) ==
    LET b == IF scope = "BRANCH" /\ asked # Nowhere THEN asked ELSE s.branch
        p == [branch |-> b, scope |-> scope, mode |-> mode, enabled |-> enabled,
              conditions |-> conditions]
    IN  /\ s.role \in Managers
        /\ conditions # {} /\ b \in Branches
        /\ s.role # "APPLICATION_OWNER" => TenantOf[b] = TenantOf[s.branch]
        /\ policies' = IF i \in DOMAIN policies THEN [policies EXCEPT ![i] = p]
                       ELSE Append(policies, p)
        /\ UNCHANGED <<enforced, recorded>>

SetRiskEnforcement(t, on) ==
    /\ enforced' = IF on THEN enforced \cup {t} ELSE enforced \ {t}
    /\ UNCHANGED <<policies, recorded>>

Next ==
    \/ \E t \in Tenants : \/ Evaluate(t)
                         \/ \E on \in BOOLEAN : SetRiskEnforcement(t, on)
    \/ \E s \in Officers :
          \/ SimulateCriticalIncident(s)
          \/ \E i \in 1 .. MaxPolicies, scope \in {"TENANT", "BRANCH"},
                asked \in Branches \cup {Nowhere}, mode \in AskedModes,
                enabled \in BOOLEAN, conditions \in AskedConditions :
                UpsertPolicy(s, i, scope, asked, mode, enabled, conditions)

Spec == Init /\ [][Next]_vars

TypeOK ==
    /\ policies \in Seq(Policies)
    /\ enforced \subseteq Tenants
    /\ recorded \in [{"security", "compliance", "lifecycle", "alerts"} -> Nat]

-----------------------------------------------------------------------------
(* evaluate: however policies of both scopes were added and edited, and in    *)
(* whatever order they stand, one more risk factor never makes the decision   *)
(* looser, a policy of the whole tenant is not loosened by one of a branch,   *)
(* and what may be written may be read.                                       *)
MoreRiskIsNeverLooser ==
    \A b \in Branches, more \in SUBSET Factors :
        LET mode == ModeFor(b, more)
        IN  /\ \A fewer \in SUBSET more : ModeRank[ModeFor(b, fewer)] <= ModeRank[mode]
            /\ TenantOf[b] \in enforced => \A i \in DOMAIN policies :
                   policies[i].scope = "TENANT" /\ Matches(policies[i], b, more)
                   => ModeRank[policies[i].mode] <= ModeRank[mode]
            /\ Allowed(mode, "WRITE") => Allowed(mode, "READ")
=============================================================================
