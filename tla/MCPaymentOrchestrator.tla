------------------------ MODULE MCPaymentOrchestrator ------------------------
(* Two requests with one key (a client and its retry), from an account that has the money *)
(* for two payments.                                                                      *)
EXTENDS PaymentOrchestrator, TLC

CONSTANTS r1, r2, k1, src, dst

MCKey == r1 :> k1 @@ r2 :> k1

MCPayment == [r \in Requests |-> [source |-> src, dest |-> dst, amount |-> 2]]

MCOpening == src :> 4 @@ dst :> 0
=============================================================================
