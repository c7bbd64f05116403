--------------------------- MODULE OperationLedger ---------------------------
(***************************************************************************)
(* What the offline queue promises of one tenant's operations, whatever    *)
(* the queue, the retries and the replay handlers do inside: an operation  *)
(* is named by its idempotency key; it is accepted at most once, posted at *)
(* most once, a disputed operation is settled by staff only, and what is   *)
(* settled stays settled.                                                  *)
(***************************************************************************)
EXTENDS Integers

CONSTANT Uuids

VARIABLES phase,      \* where the operation of each key stands
          receipts    \* how many transactions it has in the ledger

Phases == {"unknown", "accepted", "disputed", "posted", "adjudicated"}

Init == /\ phase = [k \in Uuids |-> "unknown"]
        /\ receipts = [k \in Uuids |-> 0]

Move(k, from, to) == /\ phase[k] = from
                     /\ phase' = [phase EXCEPT ![k] = to]

(* An operation recorded offline waits for its replay. *)
Accept(k) == Move(k, "unknown", "accepted") /\ UNCHANGED receipts

(* It is posted when it is replayed, or at once when recorded online. *)
Post(k) == /\ Move(k, "accepted", "posted") \/ Move(k, "unknown", "posted")
           /\ receipts' = [receipts EXCEPT ![k] = @ + 1]

Dispute(k) == Move(k, "accepted", "disputed") /\ UNCHANGED receipts

(* Staff settle a dispute without posting. *)
Adjudicate(k) == Move(k, "disputed", "adjudicated") /\ UNCHANGED receipts

Next == \E k \in Uuids : Accept(k) \/ Post(k) \/ Dispute(k) \/ Adjudicate(k)

Spec == Init /\ [][Next]_<<phase, receipts>>

-----------------------------------------------------------------------------
(* A posted operation has one receipt, and nothing else has any. *)
OneReceiptPerPosting == \A k \in Uuids : receipts[k] = IF phase[k] = "posted" THEN 1 ELSE 0

(* What is posted or adjudicated stays so, with its receipt or without one:  *)
(* a key that is sent again is neither accepted nor posted again.            *)
Final == \A k \in Uuids : phase[k] \in {"posted", "adjudicated"} =>
            phase'[k] = phase[k] /\ receipts'[k] = receipts[k]
SettlementIsFinal == [][Final]_<<phase, receipts>>
=============================================================================
