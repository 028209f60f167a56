---------------------------- MODULE PaymentFlows ----------------------------
(***************************************************************************)
(* payment-svc's flows around the orchestrator: a payment of a generated   *)
(* QRIS charge, a payment of a scanned QR string, and a refund.  Each      *)
(* reads the database to decide whether the movement may start, has the    *)
(* orchestrator (PaymentLedger, which PaymentOrchestrator implements) move *)
(* the money, and writes the charge: checks, movement and write are apart, *)
(* with every other request in between.                                    *)
(*                                                                         *)
(* A transaction's row carries what its request asked for: its type and    *)
(* external reference are Flow[id].                                        *)
(***************************************************************************)
EXTENDS PaymentLedger

CONSTANTS
    Charges,  \* QRIS charges; no flow tells a static one from a dynamic one
    Flow      \* Flow[r]: which flow request r starts, and for which charge or transaction

Flows ==
    [kind : {"charge", "scan"}, ref : Charges] \cup [kind : {"refund"}, ref : Requests]

\* Requests with the same key are retries, or a client's reuse of the key for another
\* operation, which nothing here compares or refuses.
ASSUME FlowAssumption == Flow \in [Requests -> Flows]

VARIABLES
    charges,  \* the qris_charges table
    pc,       \* where the flow of request r stands
    outcome   \* what the caller of r was told

vars == <<txns, answer, charges, pc, outcome>>

NoCharge == [status |-> "none", paidBy |-> "none"]

NewCharge == [status |-> "PENDING", paidBy |-> "none"]

TypeOK ==
    /\ LedgerTypeOK
    /\ charges \in [Charges -> {NoCharge, NewCharge} \cup [status : {"PAID"}, paidBy : Requests]]
    /\ pc \in [Requests -> {"idle", "existing", "ask", "move", "done"}]
    /\ outcome \in [Requests -> {"none", "ok", "replay", "conflict", "refused", "error"}]

Init ==
    /\ LedgerInit
    /\ charges = [c \in Charges |-> NoCharge]
    /\ pc = [r \in Requests |-> "idle"]
    /\ outcome = [r \in Requests |-> "none"]

-----------------------------------------------------------------------------
Goto(r, where) ==
    /\ pc' = [pc EXCEPT ![r] = where]
    /\ UNCHANGED outcome

Respond(r, what) ==
    /\ pc' = [pc EXCEPT ![r] = "done"]
    /\ outcome' = [outcome EXCEPT ![r] = what]

\* GenerateCharge, for an active merchant.
GenerateCharge(c) ==
    /\ charges[c] = NoCharge
    /\ charges' = [charges EXCEPT ![c] = NewCharge]
    /\ UNCHANGED <<txns, answer, pc, outcome>>

\* replayForCharge: the settling transaction was made under the key of r.
ReplayForCharge(r, c) ==
    /\ charges[c].paidBy # "none"
    /\ Key[charges[c].paidBy] = Key[r]

\* resolveChargePayment.  Nobody looks at expires_at.
ResolveCharge(r) ==
    /\ pc[r] = "idle"
    /\ Flow[r].kind = "charge"
    /\ LET c == Flow[r].ref
       IN  \/ /\ charges[c].status = "PENDING"
              /\ Goto(r, "ask")
           \/ /\ charges[c].status = "PAID"
              /\ ReplayForCharge(r, c)
              /\ Respond(r, "replay")
           \/ /\ charges[c].status = "PAID"
              /\ Respond(r, "conflict")
              \* also when the settling transaction cannot be read
    /\ UNCHANGED <<txns, answer, charges>>

\* resolveQRStringPayment: the string alone says whom to pay, the charge is not looked up.
ResolveString(r) ==
    /\ pc[r] = "idle"
    /\ Flow[r].kind = "scan"
    /\ charges[Flow[r].ref] # NoCharge
    /\ Goto(r, "ask")
    /\ UNCHANGED <<txns, answer, charges>>

\* The transaction with this id, as GetByID finds it.
Row(id) == txns[Key[id]]

Exists(id) == Row(id).id = id

\* Mutation of ReadOriginal: any transaction that exists may be refunded.
ReadOriginalAnyStatus(r) ==
    /\ pc[r] = "idle"
    /\ Flow[r].kind = "refund"
    /\ \/ /\ Exists(Flow[r].ref)
          /\ Goto(r, "existing")
       \/ Respond(r, "refused")
    /\ UNCHANGED <<txns, answer, charges>>

\* InitiateRefund reads the original and checks that it is a SUCCESS, and that accounts,
\* amount and currency of the request fit.
ReadOriginal(r) ==
    /\ pc[r] = "idle"
    /\ Flow[r].kind = "refund"
    /\ LET original == Flow[r].ref
       IN  \/ /\ Exists(original)
              /\ Row(original).status = "SUCCESS"
              /\ Goto(r, "existing")
           \/ Respond(r, "refused")
    /\ UNCHANGED <<txns, answer, charges>>

\* The refunds of a transaction that are not FAILED.
Refunds(original) ==
    {q \in Requests : /\ Exists(q)
                      /\ Flow[q] = [kind |-> "refund", ref |-> original]
                      /\ Row(q).status # "FAILED"}

\* GetByExternalReference returns the oldest of them by created_at, a clock that need not
\* agree with the order of the inserts: any one.
ReadExistingRefund(r) ==
    /\ pc[r] = "existing"
    /\ \/ /\ Refunds(Flow[r].ref) = {}
          /\ Goto(r, "ask")
       \/ \E q \in Refunds(Flow[r].ref) :
             \/ Key[q] = Key[r] /\ Goto(r, "ask")
             \/ Key[q] # Key[r] /\ Respond(r, "conflict")
    /\ UNCHANGED <<txns, answer, charges>>

\* The flow calls executeDebitCredit.
CallOrchestrator(r) ==
    /\ pc[r] = "ask"
    /\ Ask(r)
    /\ Goto(r, "move")
    /\ UNCHANGED charges

\* The orchestrator works for r.
Orchestrate(r) ==
    /\ pc[r] = "move"
    /\ Work(r)
    /\ UNCHANGED <<charges, pc, outcome>>

\* The orchestrator returned, and there is no charge to settle.
ReturnAnswer(r) ==
    /\ pc[r] = "move"
    /\ \/ answer[r] = "error" /\ Respond(r, "error")
       \/ /\ answer[r] \in TxnStatuses
          /\ Flow[r].kind = "charge" => answer[r] # "SUCCESS"
          /\ Respond(r, "ok")
    /\ UNCHANGED <<txns, answer, charges>>

\* Mutation of Unsettled: MarkPaid names the id only.
SettledOrNot(c) == charges[c] # NoCharge

\* MarkPaid's WHERE: the charge is still PENDING.
Unsettled(c) == charges[c].status = "PENDING"

\* Mutation of SettleCharge: the charge is marked PAID whatever the movement came to.
SettleAnyAnswer(r) ==
    /\ pc[r] = "move"
    /\ answer[r] \in TxnStatuses
    /\ Flow[r].kind = "charge"
    /\ LET c == Flow[r].ref
       IN  \/ /\ Unsettled(c)
              /\ charges' = [charges EXCEPT ![c] = [status |-> "PAID", paidBy |-> Row(r).id]]
           \/ /\ ~Unsettled(c)
              /\ UNCHANGED charges
    /\ Respond(r, "ok")
    /\ UNCHANGED <<txns, answer>>

\* Mutation of SettleCharge: a failure of MarkPaid is ignored.
SettleErrorIgnored(r) ==
    /\ pc[r] = "move"
    /\ answer[r] = "SUCCESS"
    /\ Flow[r].kind = "charge"
    /\ LET c == Flow[r].ref
       IN  \/ /\ Unsettled(c)
              /\ charges' = [charges EXCEPT ![c] = [status |-> "PAID", paidBy |-> Row(r).id]]
           \/ UNCHANGED charges
    /\ Respond(r, "ok")
    /\ UNCHANGED <<txns, answer>>

\* MarkPaid, after a SUCCESS: a charge that is no longer PENDING is left alone, which counts
\* as done.  The statement may fail, before or after it takes effect.
SettleCharge(r) ==
    /\ pc[r] = "move"
    /\ answer[r] = "SUCCESS"
    /\ Flow[r].kind = "charge"
    /\ LET c == Flow[r].ref
       IN  \/ /\ Unsettled(c)
              /\ charges' = [charges EXCEPT
                     ![c] = [status |-> "PAID", paidBy |-> Row(r).id]]
              /\ Respond(r, "ok") \/ Respond(r, "error")
           \/ /\ ~Unsettled(c)
              /\ Respond(r, "ok")
              /\ UNCHANGED charges
           \/ /\ Respond(r, "error")
              /\ UNCHANGED charges
    /\ UNCHANGED <<txns, answer>>

\* A read fails, or the request itself is refused (validation, an unknown merchant).
FlowFails(r) ==
    /\ pc[r] \in {"idle", "existing", "ask"}
    /\ Respond(r, "error")
    /\ UNCHANGED <<txns, answer, charges>>

\* payment-svc dies.
Crash ==
    /\ LedgerCrash
    /\ pc' = [r \in Requests |-> IF pc[r] = "idle" THEN "idle" ELSE "done"]
    /\ outcome' = [r \in Requests |->
           IF pc[r] \in {"existing", "ask", "move"} THEN "error" ELSE outcome[r]]
    /\ UNCHANGED charges

Next ==
    \/ \E c \in Charges : GenerateCharge(c)
    \/ \E r \in Requests :
          \/ ResolveCharge(r)
          \/ ResolveString(r)
          \/ ReadOriginal(r)
          \/ ReadExistingRefund(r)
          \/ CallOrchestrator(r)
          \/ Orchestrate(r)
          \/ ReturnAnswer(r)
          \/ SettleCharge(r)
          \/ FlowFails(r)
    \/ Crash

Spec == Init /\ [][Next]_vars

-----------------------------------------------------------------------------
(***************************************************************************)
(* A charge is PAID by a transaction that has succeeded, and under whose   *)
(* key somebody asked for the payment of that very charge and was answered *)
(* SUCCESS.  The transaction itself may have been made for something else: *)
(* a key that is reused is answered with whatever lies under it.           *)
(***************************************************************************)
PaidBySuccess ==
    \A c \in Charges :
        charges[c].status = "PAID" =>
            /\ Row(charges[c].paidBy) = [id |-> charges[c].paidBy, status |-> "SUCCESS"]
            /\ \E r \in Requests : /\ Flow[r] = [kind |-> "charge", ref |-> c]
                                  /\ Key[r] = Key[charges[c].paidBy]
                                  /\ answer[r] = "SUCCESS"

(***************************************************************************)
(* A settled charge keeps the transaction that settled it, however many    *)
(* payers were let in before it was settled.                               *)
(***************************************************************************)
PaidForGood ==
    [][\A c \in Charges : charges[c].status = "PAID" => charges'[c] = charges[c]]_vars

(***************************************************************************)
(* A payer who is told that the payment of a charge succeeded leaves the   *)
(* charge settled, and one who is given a replay is the payer who settled. *)
(***************************************************************************)
SuccessMeansPaid ==
    \A r \in Requests :
        Flow[r].kind = "charge" =>
            LET charge == charges[Flow[r].ref]
            IN  /\ outcome[r] = "ok" /\ answer[r] = "SUCCESS" => charge.status = "PAID"
                /\ outcome[r] = "replay" => charge.status = "PAID" /\ Key[charge.paidBy] = Key[r]

(***************************************************************************)
(* Money is refunded only for a transaction that succeeded, although the   *)
(* original is read long before the refund's own transaction is opened.    *)
(***************************************************************************)
RefundsOfSuccess ==
    \A r \in Requests :
        Exists(r) /\ Flow[r].kind = "refund" => Row(Flow[r].ref).status = "SUCCESS"

(***************************************************************************)
(* What the comment of InitiateRefund says: "at most one non-failed refund *)
(* may exist per original transaction".                                    *)
(***************************************************************************)
AtMostOneRefund ==
    \A original \in Requests : \A p, q \in Refunds(original) : p = q
=============================================================================
