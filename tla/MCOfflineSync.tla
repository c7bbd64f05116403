---------------------------- MODULE MCOfflineSync ----------------------------
(* Instances of OfflineSync for TLC. *)
EXTENDS OfflineSync, TLC

(* Every customer belongs to the same branch; the others see a stranger. *)
MCHomeBranch == [c \in Customers |-> CHOOSE b \in Branches : TRUE]
MCInitialPoints == [c \in Customers |-> 1]
MCNoPoints == [c \in Customers |-> 0]

(* What clients send to POST sync/queue: an event without the fields that are *)
(* read, a sale at any price seen at any time, and points of either sign or   *)
(* none, of a customer or of nobody, at a balance that may be negative.       *)
RawSales == {[lines |-> {l}] : l \in [product : Products, price : Prices, seen : {0, Horizon}]}
RawPoints(op, customers, amounts, balances) ==
    [op : {op}, customer : customers, amount : amounts, before : balances]
MCRawEvents == {Blank} \cup RawSales
               \cup RawPoints("ACCRUE", Customers \cup {NoOne}, {1}, {1, NoBalance})
MCRawLoyalty == RawPoints("ACCRUE", Customers, {-2}, {-1, 1})
                \cup RawPoints("ACCRUE", Customers, {NaN}, {1})
MCNoRaw == {}

Interchangeable == Permutations(Uuids)
=============================================================================
