------------------------------ MODULE MCWebhook ------------------------------
(* Instances of Webhook for TLC. *)
EXTENDS Webhook, TLC

CONSTANTS k1, c1, s1, s2

(* Two endpoints between which each setting differs at least once *)
MCInputs == {[enabled |-> TRUE,  fails |-> FALSE, secret |-> s1, client |-> c1],
             [enabled |-> TRUE,  fails |-> TRUE,  secret |-> s1, client |-> NoClient],
             [enabled |-> FALSE, fails |-> FALSE, secret |-> s2, client |-> NoClient]}
=============================================================================
