----------------------------- MODULE StockLedger -----------------------------
(***************************************************************************)
(* The stock of one tenant's branches: stock movements, transfers between  *)
(* branches, checkouts and voids, each a synchronous handler over          *)
(* inventoryBalances, inventoryLogs and sales (services/posService.ts).    *)
(* A request carries an idempotency key, or NoKey, and may be sent again.  *)
(* Replaying a queued operation does not touch the stock: the handler that *)
(* recorded it did.  "known" is what OfflineSync's Known holds of.         *)
(*                                                                         *)
(* "looped" is a history variable: no action reads it.                     *)
(***************************************************************************)
EXTENDS Integers, Sequences, Functions

CONSTANTS Branches, Products, Uuids, Quantities,
          NoKey,              \* a request without an idempotency key
          Opening,            \* the stock of each branch at the start
          MaxStock, MaxSales  \* bounds on what requests add

ASSUME StockAssumption ==
    /\ Opening \in [Branches -> [Products -> Nat]]
    /\ Quantities \subseteq Nat \ {0}
    /\ NoKey \notin Uuids

VARIABLES
    stock,      \* store.inventoryBalances
    booked,     \* the net of store.inventoryLogs, per branch and product
    sales,      \* store.sales
    known,      \* the keys isKnownIdempotencyKey finds
    looped      \* the quantity a branch has transferred to itself

vars == <<stock, booked, sales, known, looped>>

Amount == [Branches -> [Products -> Int]]

(* A basket has up to two lines of each product, of quantity 0 when absent:  *)
(* the handler does not merge the lines of a product.                        *)
Line == Quantities \cup {0}
Baskets == [Products -> Line \X Line]
Taken(basket, p) == basket[p][1] + basket[p][2]

Sales == [key : Uuids \cup {NoKey}, branch : Branches, basket : Baskets,
          status : {"CONFIRMED", "VOID"}]

Init ==
    /\ stock = Opening
    /\ booked = [b \in Branches |-> [p \in Products |-> 0]]
    /\ sales = <<>>
    /\ known = {}
    /\ looped = [b \in Branches |-> [p \in Products |-> 0]]

-----------------------------------------------------------------------------
(* Mutant of Fresh: the key is not looked up. *)
FreshAlways(k) == TRUE
(* assertIdempotencyAvailable: only a request with a key is checked. *)
Fresh(k) == k = NoKey \/ k \notin known
(* Mutant of Remember: an absent key is recorded as if it were one. *)
RememberAny(k) == known' = known \cup {k}
(* A handler that enqueues, or posts, makes its key known. *)
Remember(k) == known' = known \cup ({k} \ {NoKey})

(* Mutant of Covers: the balance may be overdrawn. *)
CoversAlways(b, p, q) == TRUE
(* "Negative stock is forbidden system-wide" *)
Covers(b, p, q) == q <= stock[b][p]

(* Of an inventory action under key k, sent offline, the action is also      *)
(* enqueued.  Online, the key is looked up but never recorded.              *)
Acted(k, offline) ==
    /\ IF offline THEN Remember(k) ELSE UNCHANGED known
    /\ UNCHANGED sales

(* applyInventoryAction with STOCK_IN, or an ADJUSTMENT that increases.  The *)
(* test for a negative balance comes after the sum, so it can refuse a       *)
(* delivery that does not make up for an overdrawn balance.                  *)
MoveIn(b, p, k, offline) ==
    /\ Fresh(k)
    /\ \E q \in Quantities :
          /\ Covers(b, p, -q) /\ stock[b][p] + q <= MaxStock
          /\ stock' = [stock EXCEPT ![b][p] = @ + q]
          /\ booked' = [booked EXCEPT ![b][p] = @ + q]
    /\ Acted(k, offline)
    /\ UNCHANGED looped

(* STOCK_OUT, DAMAGE, or an ADJUSTMENT whose reason says "decrease" *)
MoveOut(b, p, k, offline) ==
    /\ Fresh(k)
    /\ \E q \in Quantities :
          /\ Covers(b, p, q)
          /\ stock' = [stock EXCEPT ![b][p] = @ - q]
          /\ booked' = [booked EXCEPT ![b][p] = @ - q]
    /\ Acted(k, offline)
    /\ UNCHANGED looped

(* Mutant of Shift: the balance of the destination is used for both. *)
ShiftOneSided(f, b, d, p, q) ==
    [[f EXCEPT ![b][p] = f[d][p] - q] EXCEPT ![d][p] = f[d][p] + q]
(* TRANSFER: both balances are read before either is written... *)
Shift(f, b, d, p, q) ==
    [[f EXCEPT ![b][p] = f[b][p] - q] EXCEPT ![d][p] = f[d][p] + q]
(* ...but a TRANSFER_OUT and a TRANSFER_IN are logged. *)
Carry(f, b, d, p, q) == [[f EXCEPT ![b][p] = @ - q] EXCEPT ![d][p] = @ + q]

Transfer(b, d, p, k, offline) ==
    /\ Fresh(k)
    /\ \E q \in Quantities :
          /\ Covers(b, p, q) /\ stock[d][p] + q <= MaxStock
          /\ stock' = Shift(stock, b, d, p, q)
          /\ booked' = Carry(booked, b, d, p, q)
          /\ IF b = d THEN /\ looped[b][p] + q <= MaxStock
                           /\ looped' = [looped EXCEPT ![b][p] = @ + q]
                      ELSE UNCHANGED looped
    /\ Acted(k, offline)

(* checkout: every line is tested against the balance, then every line is    *)
(* deducted and logged.  Online and offline it makes its key known.          *)
Checkout(b, k) ==
    /\ Fresh(k)
    /\ Len(sales) < MaxSales
    /\ \E basket \in Baskets :
          /\ \E p \in Products : Taken(basket, p) > 0
          /\ \A p \in Products, l \in {1, 2} :
                basket[p][l] > 0 => Covers(b, p, basket[p][l])
          /\ stock' = [stock EXCEPT ![b] = [p \in Products |-> @[p] - Taken(basket, p)]]
          /\ booked' = [booked EXCEPT ![b] = [p \in Products |-> @[p] - Taken(basket, p)]]
          /\ sales' = Append(sales, [key |-> k, branch |-> b, basket |-> basket,
                                     status |-> "CONFIRMED"])
    /\ Remember(k)
    /\ UNCHANGED looped

Voidable(i) == sales[i].status # "VOID"

(* voidSale: the goods come back, and nothing is logged. *)
VoidSale(i) ==
    /\ Voidable(i)
    /\ sales' = [sales EXCEPT ![i].status = "VOID"]
    /\ stock' = [stock EXCEPT ![sales[i].branch] =
                    [p \in Products |-> @[p] + Taken(sales[i].basket, p)]]
    /\ UNCHANGED <<booked, known, looped>>

(* A queued or posted operation of another kind takes key k. *)
OtherOperation(k) == /\ k \notin known
                     /\ Remember(k)
                     /\ UNCHANGED <<stock, booked, sales, looped>>

Next ==
    \/ \E b \in Branches, p \in Products, k \in Uuids \cup {NoKey}, offline \in BOOLEAN :
          \/ MoveIn(b, p, k, offline) \/ MoveOut(b, p, k, offline)
          \/ \E d \in Branches : Transfer(b, d, p, k, offline)
    \/ \E b \in Branches, k \in Uuids \cup {NoKey} : Checkout(b, k)
    \/ \E i \in DOMAIN sales : VoidSale(i)
    \/ \E k \in Uuids : OtherOperation(k)

Spec == Init /\ [][Next]_vars

-----------------------------------------------------------------------------
(***************************************************************************)
(* Properties                                                              *)
(***************************************************************************)
TypeOK ==
    /\ stock \in Amount /\ booked \in Amount
    /\ sales \in Seq(Sales)
    /\ known \subseteq Uuids
    /\ looped \in [Branches -> [Products -> Nat]]

(* What each sale took of product p, and the goods that the voided sales of  *)
(* branch b have brought back                                                *)
TakenBySale(p) == [i \in DOMAIN sales |-> Taken(sales[i].basket, p)]
VoidedOf(b) == {i \in DOMAIN sales : sales[i].branch = b /\ sales[i].status = "VOID"}
Returned(b, p) == SumFunctionOnSet(TakenBySale(p), VoidedOf(b))

(* Whatever movements, transfers, checkouts and voids interleave and however *)
(* often each is sent, a balance is explained to the unit: by the ledger, by *)
(* the voided sales, each counted once, and by what a branch has transferred *)
(* to itself.                                                                *)
StockExplained ==
    \A b \in Branches, p \in Products :
        stock[b][p] = Opening[b][p] + booked[b][p] + Returned(b, p) + looped[b][p]

(* One key never pays for two sales: a retransmitted checkout is refused,    *)
(* whether the first was online or queued.                                   *)
SoldOncePerKey ==
    \A i, j \in DOMAIN sales :
        sales[i].key = sales[j].key /\ sales[i].key # NoKey => i = j

(* Only a checkout can overdraw a balance, and only when both lines of the   *)
(* product are taken, each of them within the balance.                       *)
OverdrawnBySplitLinesOnly ==
    [][\A b \in Branches, p \in Products :
          stock'[b][p] < 0 /\ stock'[b][p] < stock[b][p] =>
             /\ Len(sales') = Len(sales) + 1
             /\ LET taken == sales'[Len(sales')].basket[p]
                IN  /\ taken[1] \in 1 .. stock[b][p]
                    /\ taken[2] \in 1 .. stock[b][p]]_vars

-----------------------------------------------------------------------------
(***************************************************************************)
(* What the documents say and the code does not do                         *)
(***************************************************************************)
(* "No negative stock allowed" (docs/ACP.md). *)
NoNegativeStock == \A b \in Branches, p \in Products : stock[b][p] >= 0
=============================================================================
