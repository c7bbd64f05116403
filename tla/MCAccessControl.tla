---------------------------- MODULE MCAccessControl ----------------------------
(* Instances of AccessControl for TLC. *)
EXTENDS AccessControl, TLC

CONSTANTS manager, owner, boss, new, a1, a2, b1, A, B, m1, m2, m3

Small(text) == [text |-> text, caps |-> FALSE]
Caps(text) == [text |-> text, caps |-> TRUE]

(* Tenant A has a manager and an owner in its one branch, B the application  *)
(* owner; a user and a branch are still to be created.                       *)
MCUsers == manager :> [tenant |-> A, home |-> a1, role |-> "MANAGER", email |-> Small(m1), active |-> TRUE]
        @@ owner :> [tenant |-> A, home |-> a1, role |-> "TENANT_OWNER", email |-> Small(m2), active |-> TRUE]
        @@ boss :> [tenant |-> B, home |-> b1, role |-> "APPLICATION_OWNER", email |-> Small(m1), active |-> TRUE]
        @@ new :> Absent
MCBranches == a1 :> [tenant |-> A, code |-> Small(m1)]
           @@ b1 :> [tenant |-> B, code |-> Small(m1)]
           @@ a2 :> Absent
MCEmails == {Small(m3), Caps(m1)}
MCCodes == {Small(m1), Caps(m2)}
=============================================================================
