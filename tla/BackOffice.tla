------------------------------- MODULE BackOffice ------------------------------
(***************************************************************************)
(* The four parts that work beside the till share no state but the audit   *)
(* trail, which Retention models.  A behaviour is of one of them, its      *)
(* "desk", with the others at rest.                                        *)
(***************************************************************************)
EXTENDS Integers, Sequences, FiniteSets

CONSTANTS
    \* of notifications
    Branches, TenantOf, Sessions, StockAlert, MaxStock, Deltas, NotedModes, Outcomes, Uuids, Scenes,
    MaxNotes,
    \* of recommendations, for the same branches
    Readers, SlaForecasts, TrendForecasts, Asked, Nobody, Anywhere, MaxActions,
    \* of risk policies, for the branches of several tenants
    RiskBranches, Tenants, RiskTenantOf, Officers, SeedPolicies, AskedModes, AskedConditions,
    MaxPolicies, MaxEvents,
    \* of discounts
    DiscountPolicies, Carts, Clerks, ManualRates, PointTiers, Last, MaxHistory

VARIABLES desk,
          inbox, online, enabled, stock, raised, alerts, used, happened,
          actions, decisions, closed,
          policies, enforced, recorded,
          now, policy, discountsOn, points, history

Desks == {"notifications", "recommendations", "risk", "discounts"}

N == INSTANCE Notifications WITH Modes <- NotedModes
P == INSTANCE PredictiveActions
R == INSTANCE RiskCompliance WITH Branches <- RiskBranches, TenantOf <- RiskTenantOf
D == INSTANCE Discounts WITH Policies <- DiscountPolicies, enabled <- discountsOn

ASSUME BackOfficeAssumption ==
    /\ N!NotificationsAssumption /\ P!PredictiveAssumption
    /\ R!RiskAssumption /\ D!DiscountsAssumption

noted == <<inbox, online, enabled, stock, raised, alerts, used, happened>>
advised == <<actions, decisions, closed>>
judged == <<policies, enforced, recorded>>
priced == <<now, policy, discountsOn, points, history>>
vars == <<desk, noted, advised, judged, priced>>

Init == desk \in Desks /\ N!Init /\ P!Init /\ R!Init /\ D!Init

Next ==
    /\ UNCHANGED desk
    /\ \/ desk = "notifications" /\ N!Next /\ UNCHANGED <<advised, judged, priced>>
       \/ desk = "recommendations" /\ P!Next /\ UNCHANGED <<noted, judged, priced>>
       \/ desk = "risk" /\ R!Next /\ UNCHANGED <<noted, advised, priced>>
       \/ desk = "discounts" /\ D!Next /\ UNCHANGED <<noted, advised, judged>>

Spec == Init /\ [][Next]_vars

-----------------------------------------------------------------------------
(* The properties of the parts.  Each is tested where its part moves:        *)
(* elsewhere it is as at the start.                                          *)

(* fiamService.trigger: an event has one notification, where it happened. *)
EventsAnnouncedOnce == desk = "notifications" => N!EventsAnnouncedOnce
(* retryPending: with connection and retries, what waits is delivered, once. *)
WaitingIsDelivered == N!WaitingIsDelivered
(* upsertDerivedAction: a refresh leaves what was decided. *)
DecisionsStand == desk = "recommendations" => P!DecisionsStand
(* upsertDerivedAction: one active recommendation of a source and branch. *)
TwiceOnlyReopened == desk = "recommendations" => P!TwiceOnlyReopened
(* riskComplianceService.evaluate: more risk factors are not looser. *)
MoreRiskIsNeverLooser == desk = "risk" => R!MoreRiskIsNeverLooser
(* discountsService.evaluate: no benefit makes a cart dearer. *)
AddedBenefitNeverRaisesPrice == desk = "discounts" => D!AddedBenefitNeverRaisesPrice
=============================================================================
