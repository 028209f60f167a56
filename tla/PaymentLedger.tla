--------------------------- MODULE PaymentLedger ---------------------------
(***************************************************************************)
(* What payment-svc's orchestrator promises to the flows that call it      *)
(* (QRIS payments, refunds), with no word on accounts, retries or          *)
(* compensation.  A call carries an idempotency key.  The first call that  *)
(* opens a transaction under a key owns it, only the owner moves its       *)
(* status, and only forward; every other call with the key is answered     *)
(* with the status the transaction has at that moment, or with an error.   *)
(***************************************************************************)
CONSTANTS
    Requests,  \* calls of the orchestrator
    Keys,      \* idempotency keys
    Key        \* Key[r]: the key that call r carries

ASSUME LedgerAssumption ==
    /\ Key \in [Requests -> Keys]
    /\ "none" \notin Requests

VARIABLES
    txns,      \* txns[k]: the transaction opened under key k, or NoTxn
    answer     \* what call r returned

ledgerVars == <<txns, answer>>

TxnStatuses == {"PENDING", "PROCESSING", "SUCCESS", "FAILED"}

Terminal == {"SUCCESS", "FAILED"}

NoTxn == [id |-> "none", status |-> "none"]

Txns == {NoTxn} \cup [id : Requests, status : TxnStatuses]

\* The status moves forward, PENDING to PROCESSING to one of the terminal ones.
Forward == {<<"PENDING", "PROCESSING">>, <<"PROCESSING", "SUCCESS">>, <<"PROCESSING", "FAILED">>}

LedgerTypeOK ==
    /\ txns \in [Keys -> Txns]
    /\ answer \in [Requests -> {"none", "running", "error"} \cup TxnStatuses]

LedgerInit ==
    /\ txns = [k \in Keys |-> NoTxn]
    /\ answer = [r \in Requests |-> "none"]

\* The call starts.
Ask(r) ==
    /\ answer[r] = "none"
    /\ answer' = [answer EXCEPT ![r] = "running"]
    /\ UNCHANGED txns

\* Call r opens the transaction of its key.
Opens(r) ==
    /\ txns[Key[r]] = NoTxn
    /\ txns' = [txns EXCEPT ![Key[r]] = [id |-> r, status |-> "PENDING"]]

\* Call r moves the transaction it owns.
Moves(r) ==
    /\ txns[Key[r]].id = r
    /\ \E s \in TxnStatuses :
          /\ <<txns[Key[r]].status, s>> \in Forward
          /\ txns' = [txns EXCEPT ![Key[r]].status = s]

\* Call r works on the transaction, or not, and returns, or not: with an error, or with the
\* status of the transaction under its key.
Work(r) ==
    /\ answer[r] = "running"
    /\ Opens(r) \/ Moves(r) \/ UNCHANGED txns
    /\ \/ UNCHANGED answer
       \/ answer' = [answer EXCEPT ![r] = "error"]
       \/ /\ txns'[Key[r]] # NoTxn
          /\ answer' = [answer EXCEPT ![r] = txns'[Key[r]].status]

\* payment-svc dies: every running call is gone.
LedgerCrash ==
    /\ answer' = [r \in Requests |-> IF answer[r] = "running" THEN "error" ELSE answer[r]]
    /\ UNCHANGED txns

LedgerNext ==
    \/ \E r \in Requests : Ask(r) \/ Work(r)
    \/ LedgerCrash

LedgerSpec == LedgerInit /\ [][LedgerNext]_ledgerVars
=============================================================================
