-------------------------- MODULE MCPaymentFlows --------------------------
(* A payer and its retry (one key), a scan of the charge's QR string for which the client  *)
(* reuses that key, a second payer of the same charge, and two refunds of the second       *)
(* payment, of which TLC takes those in Requests.                                          *)
EXTENDS PaymentFlows, TLC

CONSTANTS pay, again, other, scan, back, back2, k, qr

\* The payer, its retry and the scan share k; the others stand for their own keys.
MCKey == [r \in Requests |-> IF r \in {pay, again, scan} THEN k ELSE r]

MCFlow ==
    [r \in Requests |->
        IF r \in {pay, again, other} THEN [kind |-> "charge", ref |-> qr]
        ELSE IF r = scan THEN [kind |-> "scan", ref |-> qr]
        ELSE [kind |-> "refund", ref |-> other]]

\* The payer and its retry ask for the same thing under the same key.
MCSymmetry == Permutations({pay, again})
============================================================================
