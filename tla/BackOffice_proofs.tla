---------------------------- MODULE BackOffice_proofs ---------------------------
(***************************************************************************)
(* Theorems about the parts beside the till, and about their composition.  *)
(* Those of risk policies and of discounts are proved here, for the        *)
(* instances of BackOffice; those of notifications and recommendations     *)
(* have modules of their own, of which this one takes the theorems.        *)
(*                                                                         *)
(* Risk: a policy matches when its conditions are among the factors, so    *)
(* more factors match more policies, and the strictest of more modes is at *)
(* least as strict.  Discounts: every rule is monotone in each benefit,    *)
(* the sum and the caps keep that, and a larger percentage never leaves a  *)
(* larger total, rounded as the program rounds.  Composition: a step of    *)
(* one desk leaves the variables of the others, so a behaviour of the      *)
(* composition is one of every part.                                       *)
(***************************************************************************)
EXTENDS BackOffice, TLAPS

NT == INSTANCE Notifications_proofs WITH Modes <- NotedModes
PT == INSTANCE PredictiveActions_proofs

-----------------------------------------------------------------------------
(* Risk policies *)

LEMMA RiskStrictest ==
    ASSUME NEW modes \in SUBSET R!Modes, "ALLOW" \in modes
    PROVE  /\ R!Strictest(modes) \in modes
           /\ \A other \in modes : R!ModeRank[other] <= R!ModeRank[R!Strictest(modes)]
<1>1. \E m \in modes : \A other \in modes : R!ModeRank[other] <= R!ModeRank[m]
  <2>1. CASE "BLOCK" \in modes
    BY <2>1 DEF R!Modes, R!ModeRank
  <2>2. CASE "BLOCK" \notin modes /\ "READ_ONLY" \in modes
    BY <2>2 DEF R!Modes, R!ModeRank
  <2>3. CASE "BLOCK" \notin modes /\ "READ_ONLY" \notin modes /\ "WARN" \in modes
    BY <2>3 DEF R!Modes, R!ModeRank
  <2>4. CASE "BLOCK" \notin modes /\ "READ_ONLY" \notin modes /\ "WARN" \notin modes
    BY <2>4 DEF R!Modes, R!ModeRank
  <2> QED
    BY <2>1, <2>2, <2>3, <2>4
<1> QED
  BY <1>1 DEF R!Strictest

LEMMA RiskModesMatched ==
    ASSUME R!TypeOK, NEW b, NEW factors
    PROVE  {"ALLOW"} \cup {policies[i].mode : i \in R!Matched(b, factors)} \in SUBSET R!Modes
<1>1. \A i \in DOMAIN policies : policies[i] \in R!Policies
  BY DEF R!TypeOK
<1> QED
  BY <1>1 DEF R!Matched, R!Policies, R!Modes

LEMMA RiskTypeInitNext ==
    ASSUME R!RiskAssumption
    PROVE  (R!Init => R!TypeOK) /\ (R!TypeOK /\ [R!Next]_(R!vars) => R!TypeOK')
<1>1. R!Init => R!TypeOK
  BY DEF R!RiskAssumption, R!Init, R!TypeOK
<1>2. ASSUME R!TypeOK, [R!Next]_(R!vars)
      PROVE  R!TypeOK'
  <2>1. CASE UNCHANGED R!vars
    BY <1>2, <2>1 DEF R!TypeOK, R!vars
  <2>2. ASSUME NEW t \in Tenants, R!Evaluate(t)
        PROVE  R!TypeOK'
    BY <1>2, <2>2 DEF R!TypeOK, R!Evaluate, R!Count
  <2>3. ASSUME NEW s \in Officers, R!SimulateCriticalIncident(s)
        PROVE  R!TypeOK'
    BY <1>2, <2>3 DEF R!TypeOK, R!SimulateCriticalIncident, R!Count
  <2>4. ASSUME NEW s \in Officers, NEW i \in 1 .. MaxPolicies, NEW scope \in {"TENANT", "BRANCH"},
               NEW asked \in RiskBranches \cup {R!Nowhere}, NEW mode \in AskedModes,
               NEW on \in BOOLEAN, NEW conditions \in AskedConditions,
               R!UpsertPolicy(s, i, scope, asked, mode, on, conditions)
        PROVE  R!TypeOK'
    <3> DEFINE b == IF scope = "BRANCH" /\ asked # R!Nowhere THEN asked ELSE s.branch
               p == [branch |-> b, scope |-> scope, mode |-> mode, enabled |-> on,
                     conditions |-> conditions]
    <3>1. /\ b \in RiskBranches /\ conditions # {}
          /\ policies' = IF i \in DOMAIN policies THEN [policies EXCEPT ![i] = p]
                         ELSE Append(policies, p)
          /\ UNCHANGED <<enforced, recorded>>
      BY <2>4 DEF R!UpsertPolicy
    <3>2. mode \in R!Modes \ {"ALLOW"} /\ conditions \in (SUBSET R!Factors) \ {{}}
      BY <3>1 DEF R!RiskAssumption
    <3> HIDE DEF b
    <3>3. p \in R!Policies
      BY <3>1, <3>2 DEF R!Policies
    <3> HIDE DEF p
    <3>4. policies' \in Seq(R!Policies)
      BY <1>2, <3>1, <3>3 DEF R!TypeOK
    <3> QED
      BY <1>2, <3>1, <3>4 DEF R!TypeOK
  <2>5. ASSUME NEW t \in Tenants, NEW on \in BOOLEAN, R!SetRiskEnforcement(t, on)
        PROVE  R!TypeOK'
    BY <1>2, <2>5 DEF R!TypeOK, R!SetRiskEnforcement
  <2> QED
    BY <1>2, <2>1, <2>2, <2>3, <2>4, <2>5 DEF R!Next
<1> QED
  BY <1>1, <1>2

(* The list of policies, the flag and the counts keep their types, through    *)
(* every sequence of edits.                                                   *)
THEOREM PolicyTypes ==
    ASSUME R!RiskAssumption
    PROVE  R!Spec => []R!TypeOK
  BY RiskTypeInitNext, PTL DEF R!Spec

LEMMA RiskMonotone ==
    ASSUME R!TypeOK
    PROVE  R!MoreRiskIsNeverLooser
<1> SUFFICES ASSUME NEW b \in RiskBranches, NEW more \in SUBSET R!Factors
             PROVE  /\ \A fewer \in SUBSET more : R!ModeRank[R!ModeFor(b, fewer)] <= R!ModeRank[R!ModeFor(b, more)]
                    /\ RiskTenantOf[b] \in enforced => \A i \in DOMAIN policies :
                           policies[i].scope = "TENANT" /\ R!Matches(policies[i], b, more)
                           => R!ModeRank[policies[i].mode] <= R!ModeRank[R!ModeFor(b, more)]
                    /\ R!Allowed(R!ModeFor(b, more), "WRITE") => R!Allowed(R!ModeFor(b, more), "READ")
  BY DEF R!MoreRiskIsNeverLooser
<1> DEFINE Of(factors) == {"ALLOW"} \cup {policies[i].mode : i \in R!Matched(b, factors)}
<1>1. \A factors : /\ Of(factors) \in SUBSET R!Modes /\ "ALLOW" \in Of(factors)
                   /\ R!Strictest(Of(factors)) \in Of(factors)
                   /\ \A other \in Of(factors) : R!ModeRank[other] <= R!ModeRank[R!Strictest(Of(factors))]
  BY RiskModesMatched, RiskStrictest
<1>2. ASSUME NEW fewer \in SUBSET more
      PROVE  R!ModeRank[R!ModeFor(b, fewer)] <= R!ModeRank[R!ModeFor(b, more)]
  <2>1. CASE RiskTenantOf[b] \in enforced
    <3>1. R!Matched(b, fewer) \subseteq R!Matched(b, more)
      BY DEF R!Matched, R!Matches
    <3>2. R!Strictest(Of(fewer)) \in Of(more)
      BY <1>1, <3>1
    <3>3. R!ModeFor(b, fewer) = R!Strictest(Of(fewer)) /\ R!ModeFor(b, more) = R!Strictest(Of(more))
      BY <2>1 DEF R!ModeFor
    <3> HIDE DEF Of
    <3> QED
      BY <1>1, <3>2, <3>3
  <2>2. CASE RiskTenantOf[b] \notin enforced
    BY <2>2 DEF R!ModeFor, R!ModeRank
  <2> QED
    BY <2>1, <2>2
<1>3. ASSUME RiskTenantOf[b] \in enforced, NEW i \in DOMAIN policies, R!Matches(policies[i], b, more)
      PROVE  R!ModeRank[policies[i].mode] <= R!ModeRank[R!ModeFor(b, more)]
  <2>1. policies[i].mode \in Of(more)
    BY <1>3 DEF R!Matched
  <2>2. R!ModeFor(b, more) = R!Strictest(Of(more))
    BY <1>3 DEF R!ModeFor
  <2> HIDE DEF Of
  <2> QED
    BY <1>1, <2>1, <2>2
<1>4. R!Allowed(R!ModeFor(b, more), "WRITE") => R!Allowed(R!ModeFor(b, more), "READ")
  BY DEF R!Allowed
<1> QED
  BY <1>2, <1>3, <1>4

(* riskComplianceService.evaluate: for any policies, in any order and after   *)
(* any edits, the decision is monotone in the factors that are reported.      *)
THEOREM DecisionsAreMonotone ==
    ASSUME R!RiskAssumption
    PROVE  R!Spec => []R!MoreRiskIsNeverLooser
<1>1. R!TypeOK => R!MoreRiskIsNeverLooser
  BY RiskMonotone
<1> QED
  BY <1>1, PolicyTypes, PTL

-----------------------------------------------------------------------------
(* Discounts *)

(* How MaxOf(0, ..) and the rounding of a discount behave. *)
LEMMA LargerPercentage ==
    ASSUME NEW s \in Nat, NEW p \in Int, NEW q \in Int, p <= q
    PROVE  /\ D!FinalTotal(s, q) <= D!FinalTotal(s, p)
           /\ 0 <= p => D!FinalTotal(s, p) <= s
<1>1. s * p <= s * q
  <2> DEFINE d == q - p
  <2>1. d \in Nat  OBVIOUS
  <2>2. s * d \in Nat  BY <2>1
  <2>3. s * q = s * p + s * d  OBVIOUS
  <2> QED  BY <2>2, <2>3
<1>2. s * p \in Int /\ s * q \in Int  OBVIOUS
<1>3. D!DiscountTotal(s, p) <= D!DiscountTotal(s, q)
  <2> DEFINE a == s * p  b == s * q
  <2>1. a \in Int /\ b \in Int /\ a <= b  BY <1>1, <1>2
  <2> HIDE DEF a, b
  <2>2. (a + 100) \div 200 <= (b + 100) \div 200  BY <2>1
  <2> QED  BY <2>2 DEF D!DiscountTotal, a, b
<1>4. 0 <= p => 0 <= D!DiscountTotal(s, p)
  <2> DEFINE a == s * p
  <2>1. 0 <= p => a \in Nat  OBVIOUS
  <2> HIDE DEF a
  <2>2. 0 <= p => 0 <= (a + 100) \div 200  BY <2>1
  <2> QED  BY <2>2 DEF D!DiscountTotal, a
<1>5. D!DiscountTotal(s, p) \in Int /\ D!DiscountTotal(s, q) \in Int
  BY <1>2 DEF D!DiscountTotal
<1> QED  BY <1>3, <1>4, <1>5 DEF D!FinalTotal, D!MaxOf

(* A cap keeps the order of what it bounds. *)
LEMMA Capped ==
    ASSUME NEW cap \in Nat, NEW x \in Nat, NEW y \in Nat, x <= y
    PROVE  /\ D!MinOf(cap, x) \in Nat /\ D!MinOf(cap, x) <= cap
           /\ D!MinOf(cap, x) <= D!MinOf(cap, y)
  BY DEF D!MinOf

(* The rules yield percentages that only grow with what they are given. *)
LEMMA Synergy ==
    ASSUME NEW p \in Int, NEW q \in Int, p <= q
    PROVE  /\ D!SynergyPct(p, TRUE) \in Nat /\ D!SynergyPct(q, TRUE) \in Nat
           /\ D!SynergyPct(p, FALSE) = 0
           /\ D!SynergyPct(p, TRUE) <= D!SynergyPct(q, TRUE)
  BY DEF D!SynergyPct, D!SynergyTier

LEMMA Automatic ==
    ASSUME NEW cart \in Carts, D!DiscountsAssumption, policy \in DiscountPolicies, D!ValidPolicy(policy)
    PROVE  D!BasePct(cart) \in Nat
<1>1. /\ cart.subtotal \in Nat /\ cart.quantity \in Nat
      /\ policy.caps["baseAutomatic"] \in Nat
  BY DEF D!DiscountsAssumption, D!ValidPolicy, D!Caps
<1>2. D!VolumePct(cart.quantity) \in Nat  BY <1>1 DEF D!VolumePct
<1>3. D!BasketPct(cart.subtotal) \in Nat  BY <1>1 DEF D!BasketPct
<1>4. D!CategoryPct(cart.categories) \in Nat  BY DEF D!CategoryPct
<1> QED  BY <1>1, <1>2, <1>3, <1>4 DEF D!BasePct, D!MinOf

LEMMA Promotion ==
    ASSUME D!DiscountsAssumption, policy \in DiscountPolicies, D!ValidPolicy(policy),
           NEW coupon \in D!Coupons, NEW m \in Nat, NEW n \in Nat, m <= n
    PROVE  /\ D!PromoPct(coupon, m) \in Nat /\ D!PromoPct(coupon, n) \in Nat
           /\ D!PromoPct("NONE", m) \in Nat
           /\ D!PromoPct(coupon, m) <= D!PromoPct(coupon, n)
           /\ D!PromoPct("NONE", m) <= D!PromoPct(coupon, m)
<1>1. policy.caps["promoBucket"] \in Nat
  BY DEF D!DiscountsAssumption, D!ValidPolicy, D!Caps
<1>2. D!CouponPct(coupon) \in Int
  BY DEF D!DiscountsAssumption, D!CouponPct, D!Coupons
<1>3. D!CouponPct("NONE") = 0
  BY DEF D!DiscountsAssumption, D!CouponPct
<1> QED  BY <1>1, <1>2, <1>3 DEF D!PromoPct, D!MinOf

LEMMA Loyal ==
    ASSUME D!DiscountsAssumption, policy \in DiscountPolicies, D!ValidPolicy(policy),
           NEW p \in Int, NEW q \in Int, p <= q
    PROVE  /\ D!LoyaltyPct(p, TRUE) \in Nat /\ D!LoyaltyPct(q, TRUE) \in Nat
           /\ D!LoyaltyPct(p, FALSE) \in Nat
           /\ D!LoyaltyPct(p, TRUE) <= D!LoyaltyPct(q, TRUE)
           /\ D!LoyaltyPct(p, FALSE) <= D!LoyaltyPct(p, TRUE)
<1>1. policy.caps["loyalty"] \in Nat
  BY DEF D!DiscountsAssumption, D!ValidPolicy, D!Caps
<1> DEFINE cap == policy.caps["loyalty"]
           x == D!SynergyPct(p, FALSE)  y == D!SynergyPct(p, TRUE)  z == D!SynergyPct(q, TRUE)
<1>2. x = 0 /\ y \in Nat /\ z \in Nat /\ y <= z
  BY Zenon, Synergy
<1>3. /\ D!LoyaltyPct(p, FALSE) = D!MinOf(cap, x) /\ D!LoyaltyPct(p, TRUE) = D!MinOf(cap, y)
      /\ D!LoyaltyPct(q, TRUE) = D!MinOf(cap, z)
  BY Zenon DEF D!LoyaltyPct
<1>4. cap \in Nat  BY <1>1
<1> HIDE DEF x, y, z, cap
<1>5. /\ D!MinOf(cap, x) \in Nat /\ D!MinOf(cap, y) \in Nat /\ D!MinOf(cap, z) \in Nat
      /\ D!MinOf(cap, x) <= D!MinOf(cap, y) /\ D!MinOf(cap, y) <= D!MinOf(cap, z)
  BY <1>2, <1>4 DEF D!MinOf
<1> QED  BY Zenon, <1>3, <1>5

(* A cart under a policy that holds, for overrides that are accepted. *)
LEMMA BenefitsOfACart ==
    ASSUME D!DiscountsAssumption, policy \in DiscountPolicies, D!ValidPolicy(policy),
           NEW cart \in Carts, NEW coupon \in D!Coupons,
           NEW m \in Nat, NEW n \in Nat, m <= n,
           NEW p \in Int, NEW q \in Int, p <= q
    PROVE  D!EachMakesCheaper(cart, coupon, m, n, p, q)
<1> DEFINE global == policy.caps["global"]
           most == D!StackedPct(cart, coupon, n, q, TRUE)
           more == D!StackedPct(cart, coupon, m, p, TRUE)
           less == D!StackedPct(cart, coupon, m, p, FALSE)
           least == D!StackedPct(cart, "NONE", m, p, FALSE)
<1>1. global \in Nat /\ cart.subtotal \in Nat
  BY DEF D!DiscountsAssumption, D!ValidPolicy, D!Caps
<1>2. D!BasePct(cart) \in Nat  BY Automatic
<1>3. /\ most \in Nat /\ more \in Nat /\ less \in Nat /\ least \in Nat
      /\ least <= less /\ less <= more /\ more <= most /\ most <= global
  <2> DEFINE base == D!BasePct(cart)
             none == D!PromoPct("NONE", m)  low == D!PromoPct(coupon, m)  high == D!PromoPct(coupon, n)
             unasked == D!LoyaltyPct(p, FALSE)  some == D!LoyaltyPct(p, TRUE)  best == D!LoyaltyPct(q, TRUE)
  <2>1. low \in Nat /\ high \in Nat /\ none \in Nat /\ low <= high /\ none <= low
    BY Promotion
  <2>2. some \in Nat /\ best \in Nat /\ unasked \in Nat /\ some <= best /\ unasked <= some
    BY Zenon, Loyal
  <2>3. /\ least = D!MinOf(global, base + none + unasked)
        /\ less = D!MinOf(global, base + low + unasked)
        /\ more = D!MinOf(global, base + low + some)
        /\ most = D!MinOf(global, base + high + best)
    BY Zenon DEF D!StackedPct
  <2> HIDE DEF base, none, low, high, unasked, some, best, most, more, less, least, global
  <2>4. base \in Nat  BY <1>2 DEF base
  <2>5. /\ base + none + unasked \in Nat /\ base + low + unasked \in Nat
        /\ base + low + some \in Nat /\ base + high + best \in Nat
        /\ base + none + unasked <= base + low + unasked
        /\ base + low + unasked <= base + low + some
        /\ base + low + some <= base + high + best
    BY <2>1, <2>2, <2>4
  <2> QED  BY <1>1, <2>3, <2>5 DEF D!MinOf
<1> HIDE DEF most, more, less, least, global
<1>4. /\ D!FinalTotal(cart.subtotal, most) <= D!FinalTotal(cart.subtotal, more)
      /\ D!FinalTotal(cart.subtotal, more) <= D!FinalTotal(cart.subtotal, less)
      /\ D!FinalTotal(cart.subtotal, less) <= D!FinalTotal(cart.subtotal, least)
      /\ D!FinalTotal(cart.subtotal, least) <= cart.subtotal
      /\ D!FinalTotal(cart.subtotal, global) <= D!FinalTotal(cart.subtotal, most)
  BY <1>1, <1>3, LargerPercentage
<1> QED  BY Zenon, <1>4 DEF D!EachMakesCheaper, D!Price, most, more, less, least, global

-----------------------------------------------------------------------------
LEMMA PolicyStands == D!Spec => [](policy \in DiscountPolicies)
<1>1. D!Init => policy \in DiscountPolicies  BY DEF D!Init
<1>2. policy \in DiscountPolicies /\ [D!Next]_(D!vars) => (policy \in DiscountPolicies)'
  BY DEF D!Next, D!vars, D!Apply, D!EarnPoints, D!SetAdvancedDiscounts, D!Tick
<1> QED  BY <1>1, <1>2, PTL DEF D!Spec

(* AddedBenefitNeverRaisesPrice, for every policy that the tenant may have:  *)
(* what discountsService.evaluate answers is monotone in each benefit.       *)
THEOREM BenefitsNeverRaisePrice ==
    ASSUME D!DiscountsAssumption
    PROVE  D!Spec => []D!AddedBenefitNeverRaisesPrice
<1>1. policy \in DiscountPolicies => D!AddedBenefitNeverRaisesPrice
  <2> SUFFICES ASSUME policy \in DiscountPolicies, D!PolicyHolds
               PROVE  D!AddedBenefitNeverRaisesPrice
    BY DEF D!AddedBenefitNeverRaisesPrice
  <2> SUFFICES ASSUME NEW cart \in Carts, NEW coupon \in D!Coupons,
                      NEW m \in ManualRates, NEW n \in ManualRates,
                      NEW p \in PointTiers, NEW q \in PointTiers,
                      D!Accepted("MANAGER", m), D!Accepted("MANAGER", n), m <= n, p <= q
               PROVE  D!EachMakesCheaper(cart, coupon, m, n, p, q)
    BY Zenon DEF D!AddedBenefitNeverRaisesPrice
  <2>1. m \in Nat /\ n \in Nat /\ p \in Int /\ q \in Int
    <3>1. m \in Int /\ n \in Int /\ p \in Int /\ q \in Int  BY DEF D!DiscountsAssumption
    <3>2. 0 <= m /\ 0 <= n  BY Zenon DEF D!Accepted
    <3> QED  BY <3>1, <3>2
  <2>2. D!ValidPolicy(policy)  BY DEF D!PolicyHolds
  <2> QED  BY <2>1, <2>2, BenefitsOfACart, D!DiscountsAssumption
<1> QED  BY <1>1, PolicyStands, PTL

-----------------------------------------------------------------------------
(* The composition *)

(* The module that is proved and the part are one specification. *)
LEMMA SameNotifications ==
    /\ N!NotificationsAssumption => NT!NotificationsAssumption
    /\ N!Init => NT!Init
    /\ N!Next => NT!Next
    /\ NT!EventsAnnouncedOnce => N!EventsAnnouncedOnce
<1>1. N!NotificationsAssumption => NT!NotificationsAssumption
  BY DEF N!NotificationsAssumption, NT!NotificationsAssumption
<1>2. N!Init => NT!Init
  BY DEF N!Init, NT!Init
<1>3. N!Next => NT!Next
  BY DEF N!Everyone, N!Managers, N!Stock, N!Loyalty, N!Conflict,
         N!Enforcement, N!Risk, N!Key, N!Delivered, N!Failed, N!Same,
         N!Filed, N!Room, N!Heard, N!Emit, N!Trigger, N!StockChange,
         N!PointsChange, N!ConflictDetected, N!RiskMode, N!Severity,
         N!Raised, N!RunAutomation, N!AcknowledgeAlert, N!Waiting,
         N!Retried, N!RetryPending, N!SetConnectivity, N!MarkRead, N!Next,
         N!Cardinality, NT!Everyone, NT!Managers, NT!Stock, NT!Loyalty,
         NT!Conflict, NT!Enforcement, NT!Risk, NT!Key, NT!Delivered,
         NT!Failed, NT!Same, NT!Filed, NT!Room, NT!Heard, NT!Emit,
         NT!Trigger, NT!StockChange, NT!PointsChange, NT!ConflictDetected,
         NT!RiskMode, NT!Severity, NT!Raised, NT!RunAutomation,
         NT!AcknowledgeAlert, NT!Waiting, NT!Retried, NT!RetryPending,
         NT!SetConnectivity, NT!MarkRead, NT!Next, NT!Cardinality
<1>4. NT!EventsAnnouncedOnce => N!EventsAnnouncedOnce
  BY DEF N!EventsAnnouncedOnce, NT!EventsAnnouncedOnce, N!Key, NT!Key,
         N!Cardinality, NT!Cardinality
<1> QED
  BY <1>1, <1>2, <1>3, <1>4

LEMMA SameRecommendations ==
    /\ P!PredictiveAssumption => PT!PredictiveAssumption
    /\ P!Init => PT!Init
    /\ P!Next => PT!Next
    /\ PT!DecisionsStand => P!DecisionsStand
    /\ PT!TwiceOnlyReopened => P!TwiceOnlyReopened
<1>1. P!PredictiveAssumption => PT!PredictiveAssumption
  BY DEF P!PredictiveAssumption, PT!PredictiveAssumption, P!Users, PT!Users
<1>2. P!Init => PT!Init
  BY DEF P!Init, PT!Init
<1>3. P!Next => PT!Next
  BY DEF P!Managers, P!Decided, P!ActiveStatuses, P!Forecasts, P!BranchFor,
         P!MayAsk, P!ActiveOf, P!First, P!Refreshed, P!New,
         P!UpsertDerivedAction, P!DeriveActions, P!AtMostOne, P!List, P!Act,
         P!Next, PT!Managers, PT!Decided, PT!ActiveStatuses, PT!Forecasts,
         PT!BranchFor, PT!MayAsk, PT!ActiveOf, PT!First, PT!Refreshed,
         PT!New, PT!UpsertDerivedAction, PT!DeriveActions, PT!AtMostOne,
         PT!List, PT!Act, PT!Next
<1>4. PT!DecisionsStand => P!DecisionsStand
  BY DEF P!DecisionsStand, PT!DecisionsStand
<1>5. PT!TwiceOnlyReopened => P!TwiceOnlyReopened
  BY DEF P!TwiceOnlyReopened, PT!TwiceOnlyReopened, P!ActiveStatuses, PT!ActiveStatuses
<1> QED
  BY <1>1, <1>2, <1>3, <1>4, <1>5

(* A behaviour of the composition is one of each of its parts. *)
LEMMA BehavesAsEachPart == Spec => NT!Spec /\ PT!Spec /\ R!Spec /\ D!Spec
<1>1. Init => NT!Init /\ PT!Init /\ R!Init /\ D!Init
  BY SameNotifications, SameRecommendations DEF Init
<1>2. [Next]_vars => [NT!Next]_(NT!vars)
  BY SameNotifications DEF Next, vars, noted, NT!vars
<1>3. [Next]_vars => [PT!Next]_(PT!vars)
  BY SameRecommendations DEF Next, vars, advised, PT!vars
<1>4. [Next]_vars => [R!Next]_(R!vars)
  BY DEF Next, vars, judged, R!vars
<1>5. [Next]_vars => [D!Next]_(D!vars)
  BY DEF Next, vars, priced, D!vars
<1> QED
  BY <1>1, <1>2, <1>3, <1>4, <1>5, PTL DEF Spec, NT!Spec, PT!Spec, R!Spec, D!Spec

(* fiamService.trigger, beside the other parts: an event that was announced  *)
(* has one notification, under its key, in the branch where it happened.     *)
THEOREM BackOfficeAnnouncesOnce ==
    ASSUME BackOfficeAssumption
    PROVE  Spec => []EventsAnnouncedOnce
<1>1. NT!Spec => []NT!EventsAnnouncedOnce
  BY NT!OneNotificationPerEvent, SameNotifications DEF BackOfficeAssumption
<1>2. NT!EventsAnnouncedOnce => EventsAnnouncedOnce
  BY SameNotifications DEF EventsAnnouncedOnce
<1> QED
  BY <1>1, <1>2, BehavesAsEachPart, PTL

(* upsertDerivedAction, beside the other parts: what a manager decided of a  *)
(* recommendation stands through every refresh of the forecasts.             *)
THEOREM BackOfficeDecisionsStand ==
    ASSUME BackOfficeAssumption
    PROVE  Spec => []DecisionsStand
<1>1. PT!Spec => []PT!DecisionsStand
  BY PT!RefreshesKeepDecisions, SameRecommendations DEF BackOfficeAssumption
<1>2. PT!DecisionsStand => DecisionsStand
  BY SameRecommendations DEF DecisionsStand
<1> QED
  BY <1>1, <1>2, BehavesAsEachPart, PTL

(* upsertDerivedAction, beside the other parts: a source has two active      *)
(* recommendations in a branch only when a closed one was opened again.      *)
THEOREM BackOfficeOnePerSource ==
    ASSUME BackOfficeAssumption
    PROVE  Spec => []TwiceOnlyReopened
<1>1. PT!Spec => []PT!TwiceOnlyReopened
  BY PT!OnePerSource, SameRecommendations DEF BackOfficeAssumption
<1>2. PT!TwiceOnlyReopened => TwiceOnlyReopened
  BY SameRecommendations DEF TwiceOnlyReopened
<1> QED
  BY <1>1, <1>2, BehavesAsEachPart, PTL

(* riskComplianceService.evaluate, beside the other parts: a request with    *)
(* more risk factors is never judged more loosely.                           *)
THEOREM BackOfficeJudgesMonotonically ==
    ASSUME BackOfficeAssumption
    PROVE  Spec => []MoreRiskIsNeverLooser
<1>1. R!Spec => []R!MoreRiskIsNeverLooser
  BY DecisionsAreMonotone DEF BackOfficeAssumption
<1>2. R!MoreRiskIsNeverLooser => MoreRiskIsNeverLooser
  BY DEF MoreRiskIsNeverLooser
<1> QED
  BY <1>1, <1>2, BehavesAsEachPart, PTL

(* discountsService.evaluate, beside the other parts: no benefit that is     *)
(* added to a request makes its cart dearer.                                 *)
THEOREM BackOfficePricesMonotonically ==
    ASSUME BackOfficeAssumption
    PROVE  Spec => []AddedBenefitNeverRaisesPrice
<1>1. D!Spec => []D!AddedBenefitNeverRaisesPrice
  BY BenefitsNeverRaisePrice DEF BackOfficeAssumption
<1>2. D!AddedBenefitNeverRaisesPrice => AddedBenefitNeverRaisesPrice
  BY DEF AddedBenefitNeverRaisesPrice
<1> QED
  BY <1>1, <1>2, BehavesAsEachPart, PTL
=============================================================================
