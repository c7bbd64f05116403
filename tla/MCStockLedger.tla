---------------------------- MODULE MCStockLedger ----------------------------
(* Instances of StockLedger for TLC. *)
EXTENDS StockLedger, TLC

MCOpening == [b \in Branches |-> [p \in Products |-> 1]]
Interchangeable == Permutations(Uuids) \cup Permutations(Branches)
=============================================================================
