------------------------ MODULE PaymentOrchestrator ------------------------
(***************************************************************************)
(* payment-svc's orchestrator (executeDebitCredit): lookup by idempotency  *)
(* key, balance pre-check, PENDING row, debit of the source, credit of the *)
(* destination, a compensating credit when that fails, terminal status,    *)
(* event.  Its account calls go through pkg/httpclient, which repeats a    *)
(* POST after a 5xx answer or a network timeout, and land on account-svc,  *)
(* here the specification AccountBook that AccountService implements.      *)
(*                                                                         *)
(* Everything runs under the request's context: once the Timeout           *)
(* middleware has answered 503 (or the client went away), every further    *)
(* statement and call of that request fails before it is sent, the         *)
(* compensation and the final status write included.                       *)
(***************************************************************************)
EXTENDS Integers, FiniteSets

CONSTANTS
    Requests,     \* requests to payment-svc, each served once; a client's retry is another
    Keys,         \* idempotency keys
    Key,          \* Key[r]: the Idempotency-Key of request r
    Payment,      \* Payment[r]: source, dest and amount of request r
    MaxAttempts,  \* 1 + cfg.MaxRetries of the account client
    Accounts,
    Amounts,
    MaxBalance,
    Opening       \* the balances in account-svc

VARIABLES
    txns,       \* the transactions table, by its unique idempotency_key
    pc,         \* where the goroutine that serves request r stands
    ctx,        \* whether the request's context is still alive
    tries,      \* attempts made of the account call that r is in
    reply,      \* what executeDebitCredit returned for r
    reason,     \* the failure_reason of the transaction that r owns
    published,  \* transactions whose completed event NATS took
    balance,    \* account-svc: the balances
    journal,    \* account-svc: the calls that took effect
    late,       \* account-svc: calls still at work whose client stopped waiting
    doubt       \* r was told that a call failed which took or may yet take effect
                \* (not visible to the code)

vars == <<txns, pc, ctx, tries, reply, reason, published, balance, journal, late, doubt>>

account == <<balance, journal, late, doubt>>

Legs == {"debit", "credit", "comp"}

\* One HTTP request to account-svc: an attempt of a leg of the payment of a request.
Calls == [req : Requests, leg : Legs, try : 1..MaxAttempts]

Book == INSTANCE AccountBook

Ledger == INSTANCE PaymentLedger WITH
              answer <- [r \in Requests |->
                            IF pc[r] \in {"idle", "done"} THEN reply[r] ELSE "running"]

ASSUME PaymentAssumption ==
    /\ "none" \notin Requests
    /\ Key \in [Requests -> Keys]
    /\ Payment \in [Requests -> [source : Accounts, dest : Accounts, amount : Amounts]]
    /\ MaxAttempts \in Nat \ {0}
    /\ Amounts \subseteq Nat \ {0}
    /\ MaxBalance \in Nat
    /\ Opening \in [Accounts -> 0..MaxBalance]

NoTxn == Ledger!NoTxn

Reasons == {"debit failed", "credit failed"}

Running == {"lookup", "check", "create", "reread", "processing", "debit", "credit", "comp",
            "success", "publish"} \cup Reasons

TypeOK ==
    /\ txns \in [Keys -> Ledger!Txns]
    /\ pc \in [Requests -> Running \cup {"idle", "done"}]
    /\ ctx \in [Requests -> BOOLEAN]
    /\ tries \in [Requests -> 0..(MaxAttempts - 1)]
    /\ reply \in [Requests -> {"none", "error"} \cup Ledger!TxnStatuses]
    /\ reason \in [Requests -> Reasons \cup {"none"}]
    /\ published \subseteq Requests
    /\ Book!BookTypeOK
    /\ late \subseteq Calls
    /\ doubt \in [Requests -> BOOLEAN]

Init ==
    /\ txns = [k \in Keys |-> NoTxn]
    /\ pc = [r \in Requests |-> "idle"]
    /\ ctx = [r \in Requests |-> TRUE]
    /\ tries = [r \in Requests |-> 0]
    /\ reply = [r \in Requests |-> "none"]
    /\ reason = [r \in Requests |-> "none"]
    /\ published = {}
    /\ Book!BookInit
    /\ late = {}
    /\ doubt = [r \in Requests |-> FALSE]

-----------------------------------------------------------------------------
Goto(r, where) ==
    /\ pc' = [pc EXCEPT ![r] = where]
    /\ UNCHANGED reply

\* executeDebitCredit returns.
Return(r, result) ==
    /\ pc' = [pc EXCEPT ![r] = "done"]
    /\ reply' = [reply EXCEPT ![r] = result]

SetStatus(r, s) == txns' = [txns EXCEPT ![Key[r]].status = s]

\* The context of r is still alive, so that a statement or a call is really sent.
Live(r) == ctx[r]

\* A handler calls the orchestrator.
Begin(r) ==
    /\ pc[r] = "idle"
    /\ Goto(r, "lookup")
    /\ UNCHANGED <<txns, ctx, tries, reason, published, account>>

\* Mutation of Lookup: a FAILED transaction is tried again under its key.
LookupRetriesFailed(r) ==
    /\ pc[r] = "lookup"
    /\ \/ /\ Live(r)
          /\ txns[Key[r]].status \notin {"none", "FAILED"}
          /\ Return(r, txns[Key[r]].status)
          /\ UNCHANGED txns
       \/ /\ Live(r)
          /\ txns[Key[r]].status = "FAILED"
          /\ SetStatus(r, "PROCESSING")
          /\ Goto(r, "debit")
       \/ /\ Live(r)
          /\ txns[Key[r]] = NoTxn
          /\ Goto(r, "check")
          /\ UNCHANGED txns
    /\ UNCHANGED <<ctx, tries, reason, published, account>>

\* GetByIdempotencyKey: an existing transaction is returned unchanged.
Lookup(r) ==
    /\ pc[r] = "lookup"
    /\ \/ /\ Live(r)
          /\ txns[Key[r]] # NoTxn
          /\ Return(r, txns[Key[r]].status)
       \/ /\ Live(r)
          /\ txns[Key[r]] = NoTxn
          /\ Goto(r, "check")
       \/ Return(r, "error")
    /\ UNCHANGED <<txns, ctx, tries, reason, published, account>>

\* GetBalance of the source: an error, an inactive account or too little money ends it.
CheckBalance(r) ==
    /\ pc[r] = "check"
    /\ \/ /\ Live(r)
          /\ balance[Payment[r].source] >= Payment[r].amount
          /\ Goto(r, "create")
       \/ Return(r, "error")
    /\ UNCHANGED <<txns, ctx, tries, reason, published, account>>

\* Mutation of Create: a row that is already there counts as created.
CreateIgnoresRace(r) ==
    /\ pc[r] = "create"
    /\ \/ /\ Live(r)
          /\ txns[Key[r]] = NoTxn
          /\ txns' = [txns EXCEPT ![Key[r]] = [id |-> r, status |-> "PENDING"]]
       \/ /\ txns[Key[r]] # NoTxn
          /\ UNCHANGED txns
    /\ Goto(r, "processing")
    /\ UNCHANGED <<ctx, tries, reason, published, account>>

\* repo.Create.  Any error sends the request to read the key again: the key was taken, the
\* statement failed, or it took effect and only its acknowledgement was lost.
Create(r) ==
    /\ pc[r] = "create"
    /\ \/ /\ Live(r)
          /\ txns[Key[r]] = NoTxn
          /\ txns' = [txns EXCEPT ![Key[r]] = [id |-> r, status |-> "PENDING"]]
          /\ Goto(r, "processing") \/ Goto(r, "reread")
       \/ /\ Goto(r, "reread")
          /\ UNCHANGED txns
    /\ UNCHANGED <<ctx, tries, reason, published, account>>

\* The second GetByIdempotencyKey: whatever it finds is returned as a safe replay.
Reread(r) ==
    /\ pc[r] = "reread"
    /\ \/ /\ Live(r)
          /\ txns[Key[r]] # NoTxn
          /\ Return(r, txns[Key[r]].status)
       \/ Return(r, "error")
    /\ UNCHANGED <<txns, ctx, tries, reason, published, account>>

\* UpdateStatus(PROCESSING).
MarkProcessing(r) ==
    /\ pc[r] = "processing"
    /\ \/ /\ Live(r)
          /\ SetStatus(r, "PROCESSING")
          /\ Goto(r, "debit") \/ Return(r, "error")
       \/ /\ Return(r, "error")
          /\ UNCHANGED txns
    /\ UNCHANGED <<ctx, tries, reason, published, account>>

-----------------------------------------------------------------------------
\* The attempt of the account call that r makes now.
NextCall(r) == [req |-> r, leg |-> pc[r], try |-> tries[r] + 1]

\* What account-svc is asked to do for call c: Debit the source, Credit the destination, or
\* Credit the source back.
CallAccount(c) ==
    IF c.leg = "credit" THEN Payment[c.req].dest ELSE Payment[c.req].source

CallDelta(c) ==
    IF c.leg = "debit" THEN -Payment[c.req].amount ELSE Payment[c.req].amount

Apply(c) == Book!Post(c, CallAccount(c), CallDelta(c))

\* Where the orchestrator goes when the leg it is in succeeded.
AfterSuccess == [debit |-> "credit", credit |-> "success", comp |-> "credit failed"]

\* Mutation of AfterFailure: the error of the credit is swallowed.
CreditErrorSwallowed ==
    [debit |-> "debit failed", credit |-> "success", comp |-> "credit failed"]

\* Mutation of AfterFailure: the compensation is repeated until it succeeds.
CompensateForever == [debit |-> "debit failed", credit |-> "comp", comp |-> "comp"]

\* Where the orchestrator goes when the leg it is in failed.
AfterFailure == [debit |-> "debit failed", credit |-> "comp", comp |-> "credit failed"]

EndLeg(r, where) ==
    /\ Goto(r, where)
    /\ tries' = [tries EXCEPT ![r] = 0]

\* The client repeats the POST while attempts are left, and gives up after the last.
RetryOrFail(r) ==
    IF tries[r] + 1 < MaxAttempts
    THEN /\ tries' = [tries EXCEPT ![r] = @ + 1]
         /\ UNCHANGED <<pc, reply>>
    ELSE EndLeg(r, AfterFailure[pc[r]])

\* The call took effect and a 2xx answer was read.
CallSucceeds(r) ==
    /\ pc[r] \in Legs
    /\ Live(r)
    /\ Apply(NextCall(r))
    /\ EndLeg(r, AfterSuccess[pc[r]])
    /\ UNCHANGED <<txns, ctx, reason, published, late, doubt>>

\* The call has no effect: a 4xx answer (refused, or a version conflict), a broken or
\* refused connection, or the context is dead and nothing is sent.  Never repeated.
CallRefused(r) ==
    /\ pc[r] \in Legs
    /\ EndLeg(r, AfterFailure[pc[r]])
    /\ UNCHANGED <<txns, ctx, reason, published, account>>

\* The call has no effect, and fails in a way that is repeated: a 5xx answer, a timeout while
\* connecting.
CallFails(r) ==
    /\ pc[r] \in Legs
    /\ Live(r)
    /\ RetryOrFail(r)
    /\ UNCHANGED <<txns, ctx, reason, published, account>>

\* The call takes effect but the client is told otherwise: a 5xx after the commit, which is
\* repeated, or an answer that never arrives or cannot be read, which is not.
CallMisreported(r) ==
    /\ pc[r] \in Legs
    /\ Live(r)
    /\ Apply(NextCall(r))
    /\ RetryOrFail(r) \/ EndLeg(r, AfterFailure[pc[r]])
    /\ doubt' = [doubt EXCEPT ![r] = TRUE]
    /\ UNCHANGED <<txns, ctx, reason, published, late>>

\* The client stops waiting while account-svc is still at work: account-svc's own Timeout
\* answers 503, which is repeated, or the client's deadline passes, which is not.
CallOvertaken(r) ==
    /\ pc[r] \in Legs
    /\ Live(r)
    /\ late' = late \cup {NextCall(r)}
    /\ RetryOrFail(r) \/ EndLeg(r, AfterFailure[pc[r]])
    /\ doubt' = [doubt EXCEPT ![r] = TRUE]
    /\ UNCHANGED <<txns, ctx, reason, published, balance, journal>>

\* account-svc ends a call nobody waits for: it takes effect, or not.
LateCallEnds(c) ==
    /\ c \in late
    /\ late' = late \ {c}
    /\ Apply(c) \/ UNCHANGED <<balance, journal>>
    /\ UNCHANGED <<txns, pc, ctx, tries, reply, reason, published, doubt>>

-----------------------------------------------------------------------------
\* markFailed, with the reason; the write's own failure is only logged.
MarkFailed(r) ==
    /\ pc[r] \in Reasons
    /\ \/ /\ Live(r)
          /\ SetStatus(r, "FAILED")
          /\ reason' = [reason EXCEPT ![r] = pc[r]]
       \/ UNCHANGED <<txns, reason>>
    /\ Return(r, "error")
    /\ UNCHANGED <<ctx, tries, published, account>>

\* Mutation of MarkSuccess: when the write fails, the payment is undone.
MarkSuccessOrUndo(r) ==
    /\ pc[r] = "success"
    /\ \/ /\ Live(r)
          /\ SetStatus(r, "SUCCESS")
          /\ Goto(r, "publish") \/ Goto(r, "comp")
       \/ /\ Goto(r, "comp")
          /\ UNCHANGED txns
    /\ UNCHANGED <<ctx, tries, reason, published, account>>

\* Mutation of MarkSuccess: when the write fails, the transaction is marked FAILED.
MarkSuccessOrFailed(r) ==
    /\ pc[r] = "success"
    /\ \/ /\ Live(r)
          /\ SetStatus(r, "SUCCESS")
          /\ Goto(r, "publish") \/ Goto(r, "credit failed")
       \/ /\ Goto(r, "credit failed")
          /\ UNCHANGED txns
    /\ UNCHANGED <<ctx, tries, reason, published, account>>

\* UpdateStatus(SUCCESS).
MarkSuccess(r) ==
    /\ pc[r] = "success"
    /\ \/ /\ Live(r)
          /\ SetStatus(r, "SUCCESS")
          /\ Goto(r, "publish") \/ Return(r, "error")
       \/ /\ Return(r, "error")
          /\ UNCHANGED txns
    /\ UNCHANGED <<ctx, tries, reason, published, account>>

\* publishCompleted: a failure is only logged.
Publish(r) ==
    /\ pc[r] = "publish"
    /\ published' = published \cup {r} \/ UNCHANGED published
    /\ Return(r, "SUCCESS")
    /\ UNCHANGED <<txns, ctx, tries, reason, account>>

\* The Timeout middleware (or the client's disconnect) cancels the context of r; the
\* goroutine goes on.
Timeout(r) ==
    /\ pc[r] \in Running
    /\ Live(r)
    /\ ctx' = [ctx EXCEPT ![r] = FALSE]
    /\ UNCHANGED <<txns, pc, tries, reply, reason, published, account>>

\* payment-svc dies.  Transactions stay as they are: nothing resumes them.
Crash ==
    /\ \E r \in Requests : pc[r] \in Running
    /\ pc' = [r \in Requests |-> IF pc[r] \in Running THEN "done" ELSE pc[r]]
    /\ reply' = [r \in Requests |-> IF pc[r] \in Running THEN "error" ELSE reply[r]]
    /\ UNCHANGED <<txns, ctx, tries, reason, published, account>>

\* Every step of the goroutine that serves r.
Step(r) ==
    \/ Lookup(r)
    \/ CheckBalance(r)
    \/ Create(r)
    \/ Reread(r)
    \/ MarkProcessing(r)
    \/ CallSucceeds(r)
    \/ CallRefused(r)
    \/ CallFails(r)
    \/ CallMisreported(r)
    \/ CallOvertaken(r)
    \/ MarkFailed(r)
    \/ MarkSuccess(r)
    \/ Publish(r)

Next ==
    \/ \E r \in Requests : Begin(r) \/ Step(r) \/ Timeout(r)
    \/ \E c \in Calls : LateCallEnds(c)
    \/ Crash

Spec == Init /\ [][Next]_vars

\* Go runs every runnable goroutine, and every call it makes has a deadline.
FairSpec == Spec /\ \A r \in Requests : WF_vars(Step(r))

-----------------------------------------------------------------------------
\* Request r has a posting of this leg in account-svc.
Posted(r, leg) == \E e \in journal : e.call.req = r /\ e.call.leg = leg

(***************************************************************************)
(* However many requests carry one key, and however their statements       *)
(* interleave or fail, only the one that opened the transaction ever calls *)
(* account-svc: a replay moves no money.                                   *)
(***************************************************************************)
OneMover ==
    \A c \in {e.call : e \in journal} \cup late : txns[Key[c.req]].id = c.req

(***************************************************************************)
(* The status agrees with the money.  A SUCCESS has taken from the source  *)
(* and given to the destination.  A FAILED transaction has given nothing   *)
(* to the destination, and one whose debit failed has taken nothing,       *)
(* unless an answer of account-svc was lost.                               *)
(***************************************************************************)
StatusMatchesMoney ==
    \A r \in Requests :
        /\ txns[Key[r]] = [id |-> r, status |-> "SUCCESS"] =>
               Posted(r, "debit") /\ Posted(r, "credit")
        /\ txns[Key[r]] = [id |-> r, status |-> "FAILED"] /\ ~doubt[r] =>
               /\ ~Posted(r, "credit")
               /\ reason[r] = "debit failed" => ~Posted(r, "debit")

(***************************************************************************)
(* No money out of nothing: the destination is credited, or the source     *)
(* given back, only after the source was debited; and as long as no answer *)
(* was lost, each at most once and never both.                             *)
(***************************************************************************)
MoneyHasASource ==
    \A r \in Requests :
        /\ Posted(r, "credit") \/ Posted(r, "comp") => Posted(r, "debit")
        /\ ~doubt[r] =>
               /\ ~(Posted(r, "credit") /\ Posted(r, "comp"))
               /\ \A e, f \in journal :
                     e.call.req = r /\ f.call.req = r /\ e.call.leg = f.call.leg => e = f

(***************************************************************************)
(* What was said stays true: a terminal status that a request was answered *)
(* with, or that was published as completed, is the status for good.       *)
(***************************************************************************)
AnswersStand ==
    \A r \in Requests :
        /\ reply[r] \in Ledger!Terminal => txns[Key[r]].status = reply[r]
        /\ r \in published => txns[Key[r]] = [id |-> r, status |-> "SUCCESS"]

(***************************************************************************)
(* The orchestrator implements the ledger it promises to its callers.      *)
(***************************************************************************)
ImplementsLedger == Ledger!LedgerSpec

(***************************************************************************)
(* Every request ends, whatever its calls run into.                        *)
(***************************************************************************)
EveryRequestEnds == \A r \in Requests : pc[r] # "idle" ~> pc[r] = "done"
=============================================================================
