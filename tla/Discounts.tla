------------------------------- MODULE Discounts -------------------------------
(***************************************************************************)
(* The discount engine (discountsService.ts) under the discount policy of  *)
(* the tenant (discountPolicy.ts): automatic discounts of a cart, one      *)
(* promotion, a bonus for loyal customers, each with its cap.              *)
(*                                                                         *)
(* A cart is what the rules read of its lines: their total, their quantity *)
(* and their categories.  Money is in hundredths and percentages in halves *)
(* of a percent, so that 1.5% is 3; roundings are the program's.           *)
(***************************************************************************)
EXTENDS Integers, Sequences, FiniteSets

CONSTANTS Carts,           \* [subtotal, quantity, categories]
          Policies,        \* [from, to, caps, coupons], as the tenant may have them
          Clerks,          \* roles that ask
          ManualRates,     \* overrides that may be asked for
          PointTiers,      \* points that the customer may reach
          Last,            \* of the clock
          MaxHistory       \* bound on the evaluations that are kept

Caps == {"baseAutomatic", "promoBucket", "loyalty", "global", "manualOverrideMax"}

DiscountsAssumption ==
    /\ \A cart \in Carts : cart.subtotal \in Nat /\ cart.quantity \in Nat
    /\ \A p \in Policies : /\ p.caps \in [Caps -> Int]
                          /\ "NONE" \notin DOMAIN p.coupons
                          /\ \A coupon \in DOMAIN p.coupons : p.coupons[coupon] \in Int
    /\ ManualRates \subseteq Int /\ PointTiers \subseteq Int

VARIABLES
    now,
    policy,        \* resolveDiscountPolicy of the tenant
    enabled,       \* the flag advanced_discounts
    points,        \* of the customer
    history        \* store.discountEvaluations

vars == <<now, policy, enabled, points, history>>

MinOf(a, b) == IF a <= b THEN a ELSE b
MaxOf(a, b) == IF a >= b THEN a ELSE b

-----------------------------------------------------------------------------
(* The policy *)

IsPolicyActive == policy.from <= now /\ now <= policy.to
ValidPolicy(p) ==
    /\ \A cap \in Caps : p.caps[cap] >= 0
    /\ p.caps["manualOverrideMax"] <= p.caps["global"]
    /\ p.caps["baseAutomatic"] <= p.caps["global"]
    /\ p.from <= p.to
PolicyHolds == ValidPolicy(policy) /\ IsPolicyActive

Init ==
    /\ now = 0
    /\ policy \in Policies
    /\ enabled = TRUE
    /\ points = 0
    /\ history = <<>>

-----------------------------------------------------------------------------
(* The rules *)

(* Tiers are listed from the highest, and the first that is reached counts. *)
VolumePct(quantity) == IF quantity >= 20 THEN 12 ELSE IF quantity >= 10 THEN 8
                       ELSE IF quantity >= 5 THEN 4 ELSE 0
BasketPct(subtotal) == IF subtotal >= 12000000 THEN 8 ELSE IF subtotal >= 8000000 THEN 6
                       ELSE IF subtotal >= 5000000 THEN 3 ELSE 0
CategoryPct(categories) == (IF "Fruits" \in categories THEN 2 ELSE 0)
                           + (IF "Staples" \in categories THEN 2 ELSE 0)
SynergyTier(earned) == IF earned >= 1000 THEN 6 ELSE IF earned >= 400 THEN 4
                       ELSE IF earned >= 150 THEN 2 ELSE 0
SynergyPct(earned, apply) == IF apply THEN SynergyTier(earned) ELSE 0

BasePct(cart) == MinOf(policy.caps["baseAutomatic"],
                       VolumePct(cart.quantity) + BasketPct(cart.subtotal)
                       + CategoryPct(cart.categories))

(* A coupon and a manual override exclude each other: the higher one counts. *)
CouponPct(coupon) == IF coupon \in DOMAIN policy.coupons THEN policy.coupons[coupon] ELSE 0
PromoByPrecedence(coupon, manual) ==        \* mutant: whichever is higher
    MinOf(policy.caps["promoBucket"], IF manual > 0 THEN manual ELSE CouponPct(coupon))
PromoPct(coupon, manual) ==
    LET manualWins == manual >= CouponPct(coupon)
    IN  MinOf(policy.caps["promoBucket"], IF manualWins THEN manual ELSE CouponPct(coupon))
LoyaltyPct(earned, apply) == MinOf(policy.caps["loyalty"], SynergyPct(earned, apply))

StackedPct(cart, coupon, manual, earned, apply) ==
    MinOf(policy.caps["global"],
          BasePct(cart) + PromoPct(coupon, manual) + LoyaltyPct(earned, apply))

(* Half a hundredth is rounded up. *)
DiscountTotal(subtotal, pct) == (subtotal * pct + 100) \div 200
FinalTotal(subtotal, pct) == MaxOf(0, subtotal - DiscountTotal(subtotal, pct))

Price(cart, coupon, manual, earned, apply) ==
    FinalTotal(cart.subtotal, StackedPct(cart, coupon, manual, earned, apply))

(* What evaluate requires before it answers. *)
Accepted(role, manual) ==
    /\ enabled /\ PolicyHolds
    /\ 0 <= manual /\ manual <= policy.caps["manualOverrideMax"]
    /\ manual > 0 => role # "CASHIER"

-----------------------------------------------------------------------------
Apply(role, cart, coupon, manual, apply) ==
    /\ Accepted(role, manual) /\ Len(history) < MaxHistory
    /\ history' = Append(history,
           [role |-> role, subtotal |-> cart.subtotal, manual |-> manual,
            stacked |-> StackedPct(cart, coupon, manual, points, apply),
            final |-> Price(cart, coupon, manual, points, apply)])
    /\ UNCHANGED <<now, policy, enabled, points>>

EarnPoints(to) == points' = to /\ UNCHANGED <<now, policy, enabled, history>>
SetAdvancedDiscounts(on) == enabled' = on /\ UNCHANGED <<now, policy, points, history>>
Tick == now < Last /\ now' = now + 1 /\ UNCHANGED <<policy, enabled, points, history>>

Coupons == DOMAIN policy.coupons \cup {"NONE"}
Next ==
    \/ \E role \in Clerks, cart \in Carts, manual \in ManualRates, apply \in BOOLEAN :
          \E coupon \in Coupons : Apply(role, cart, coupon, manual, apply)
    \/ \E to \in PointTiers : EarnPoints(to)
    \/ \E on \in BOOLEAN : SetAdvancedDiscounts(on)
    \/ Tick

Spec == Init /\ [][Next]_vars

-----------------------------------------------------------------------------
(* A higher override n than m and more points q than p, one after the other. *)
EachMakesCheaper(cart, coupon, m, n, p, q) ==
    /\ Price(cart, coupon, n, q, TRUE) <= Price(cart, coupon, m, p, TRUE)
    /\ Price(cart, coupon, m, p, TRUE) <= Price(cart, coupon, m, p, FALSE)
    /\ Price(cart, coupon, m, p, FALSE) <= Price(cart, "NONE", m, p, FALSE)
    /\ Price(cart, "NONE", m, p, FALSE) <= cart.subtotal
    /\ FinalTotal(cart.subtotal, policy.caps["global"]) <= Price(cart, coupon, n, q, TRUE)

(* evaluate: promotions exclude each other and every sum is capped, yet with  *)
(* a policy that is in force a coupon, a higher override, more points or the  *)
(* wish to use them never make a cart dearer, none makes it cost more than    *)
(* without any, and none takes it below what the global cap leaves.           *)
AddedBenefitNeverRaisesPrice ==
    PolicyHolds =>
    \A cart \in Carts, coupon \in Coupons, m, n \in ManualRates, p, q \in PointTiers :
        Accepted("MANAGER", m) /\ Accepted("MANAGER", n) /\ m <= n /\ p <= q
        => EachMakesCheaper(cart, coupon, m, n, p, q)
=============================================================================
