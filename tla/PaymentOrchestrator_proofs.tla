--------------------- MODULE PaymentOrchestrator_proofs ---------------------
(***************************************************************************)
(* What holds of PaymentOrchestrator for any number of requests and keys,  *)
(* any payments and any number of attempts per account call.               *)
(*                                                                         *)
(* The argument: a request that is past its insert owns the transaction    *)
(* under its key (Standing), so it alone moves the status and calls        *)
(* account-svc; and what it has posted so far follows from where it        *)
(* stands, unless an answer was lost (Money).                              *)
(***************************************************************************)
EXTENDS PaymentOrchestrator, TLAPS

Owned(r, s) == txns[Key[r]] = [id |-> r, status |-> s]

\* A transaction lies under the key of the request that opened it.
OwnKey == \A k \in Keys : txns[k] # NoTxn => Key[txns[k].id] = k

\* Where a request stands, its transaction and its answer.
StandingOf(r) ==
    /\ pc[r] = "processing" => Owned(r, "PENDING")
    /\ pc[r] \in Legs \cup Reasons \cup {"success"} => Owned(r, "PROCESSING")
    /\ pc[r] = "publish" => Owned(r, "SUCCESS")
    /\ Owned(r, "SUCCESS") \/ Owned(r, "FAILED") => pc[r] \in {"publish", "done"}
    /\ pc[r] # "done" => reply[r] = "none"

Standing == \A r \in Requests : StandingOf(r)

\* Where a request stands, and what it has posted.
MoneyOf(r) ==
    /\ pc[r] \in {"credit", "comp", "success", "credit failed"} => Posted(r, "debit")
    /\ pc[r] = "success" => Posted(r, "credit")
    /\ \A c \in late : c.req = r => doubt[r]
    /\ \A c \in late : c.req = r /\ c.leg # "debit" => Posted(r, "debit")
    /\ ~doubt[r] =>
           /\ pc[r] \notin {"credit", "comp", "success", "credit failed", "publish", "done"} =>
                  \A leg \in Legs : ~Posted(r, leg)
           /\ pc[r] \in {"credit", "comp", "credit failed"} => ~Posted(r, "credit")
           /\ pc[r] \in {"credit", "comp", "success"} => ~Posted(r, "comp")

Money == \A r \in Requests : MoneyOf(r)

\* The inductive invariant.
IInv ==
    /\ TypeOK
    /\ OwnKey
    /\ Standing
    /\ AnswersStand
    /\ OneMover
    /\ Money
    /\ MoneyHasASource
    /\ StatusMatchesMoney

-----------------------------------------------------------------------------
\* The constants, request by request.
LEMMA RequestShape ==
    ASSUME NEW r \in Requests
    PROVE  /\ r # "none"
           /\ Key[r] \in Keys
           /\ Payment[r].source \in Accounts
           /\ Payment[r].dest \in Accounts
           /\ Payment[r].amount \in Amounts
           /\ Payment[r].amount \in Nat \ {0}
BY PaymentAssumption

\* What a row of the transactions table is.
LEMMA TxnShape ==
    ASSUME TypeOK, NEW k \in Keys
    PROVE  /\ txns[k] # NoTxn =>
                  /\ txns[k].id \in Requests
                  /\ txns[k].status \in {"PENDING", "PROCESSING", "SUCCESS", "FAILED"}
                  /\ txns[k] = [id |-> txns[k].id, status |-> txns[k].status]
           /\ txns[k] = NoTxn <=> txns[k].status = "none"
           /\ txns[k] = NoTxn <=> txns[k].id = "none"
           /\ txns[k].id \in Requests <=> txns[k] # NoTxn
BY PaymentAssumption DEF TypeOK, NoTxn, Ledger!NoTxn, Ledger!Txns, Ledger!TxnStatuses

\* A request's own transaction exists, and says so.
LEMMA OwnedShape ==
    ASSUME NEW r \in Requests, NEW s \in Ledger!TxnStatuses, Owned(r, s)
    PROVE  /\ txns[Key[r]].id = r
           /\ txns[Key[r]].status = s
           /\ txns[Key[r]] # NoTxn
<1>1. txns[Key[r]].id = r /\ txns[Key[r]].status = s
  BY DEF Owned
<1>2. NoTxn.id = "none"
  BY DEF NoTxn, Ledger!NoTxn
<1>3. QED
  BY <1>1, <1>2, RequestShape

\* The call a request makes is one of Calls, and what it posts is an entry of the book.
LEMMA CallShape ==
    ASSUME NEW c \in Calls
    PROVE  /\ c.req \in Requests
           /\ c.leg \in Legs
           /\ CallAccount(c) \in Accounts
           /\ CallDelta(c) \in Book!Deltas
           /\ [call |-> c, account |-> CallAccount(c), delta |-> CallDelta(c)] \in Book!Entries
<1>1. c.req \in Requests /\ c.leg \in Legs
  BY DEF Calls
<1>2. CallAccount(c) \in Accounts
  BY <1>1, RequestShape DEF CallAccount
<1>3. CallDelta(c) \in Book!Deltas
  BY <1>1, RequestShape DEF CallDelta, Book!Deltas
<1>4. QED
  BY <1>1, <1>2, <1>3 DEF Book!Entries

\* The attempt that a request makes now.
LEMMA NextCallShape ==
    ASSUME TypeOK, NEW r \in Requests, pc[r] \in Legs
    PROVE  /\ NextCall(r) \in Calls
           /\ NextCall(r).req = r
           /\ NextCall(r).leg = pc[r]
BY PaymentAssumption DEF TypeOK, NextCall, Calls

\* The steps that call account-svc, and where the request goes on.
LEMMA LegEnds ==
    ASSUME TypeOK, NEW r \in Requests, pc[r] \in Legs
    PROVE  /\ pc[r] = "debit" =>
                  AfterSuccess[pc[r]] = "credit" /\ AfterFailure[pc[r]] = "debit failed"
           /\ pc[r] = "credit" =>
                  AfterSuccess[pc[r]] = "success" /\ AfterFailure[pc[r]] = "comp"
           /\ pc[r] = "comp" =>
                  AfterSuccess[pc[r]] = "credit failed" /\ AfterFailure[pc[r]] = "credit failed"
           /\ AfterSuccess[pc[r]] \in Running
           /\ AfterFailure[pc[r]] \in Running
<1>1. /\ AfterSuccess["debit"] = "credit" /\ AfterFailure["debit"] = "debit failed"
      /\ AfterSuccess["credit"] = "success" /\ AfterFailure["credit"] = "comp"
      /\ AfterSuccess["comp"] = "credit failed" /\ AfterFailure["comp"] = "credit failed"
  BY DEF AfterSuccess, AfterFailure
<1>2. QED
  BY <1>1 DEF Legs, Running, Reasons

\* A posting keeps the types of the book.
LEMMA ApplyTypes ==
    ASSUME TypeOK, NEW c \in Calls, Apply(c)
    PROVE  /\ Book!BookTypeOK'
           /\ journal' = journal \cup
                  {[call |-> c, account |-> CallAccount(c), delta |-> CallDelta(c)]}
<1>1. journal' = journal \cup {[call |-> c, account |-> CallAccount(c), delta |-> CallDelta(c)]}
  BY DEF Apply, Book!Post
<1>2. journal' \subseteq Book!Entries
  BY <1>1, CallShape DEF TypeOK, Book!BookTypeOK
<1>3. balance' \in [Accounts -> 0..MaxBalance]
  BY CallShape DEF TypeOK, Book!BookTypeOK, Apply, Book!Post
<1>4. QED
  BY <1>1, <1>2, <1>3 DEF Book!BookTypeOK

\* A retry or the end of a leg keeps the types of the request.
LEMMA LegTypes ==
    ASSUME TypeOK, NEW r \in Requests, pc[r] \in Legs,
           \/ RetryOrFail(r)
           \/ EndLeg(r, AfterFailure[pc[r]])
           \/ EndLeg(r, AfterSuccess[pc[r]])
    PROVE  /\ pc' \in [Requests -> Running \cup {"idle", "done"}]
           /\ tries' \in [Requests -> 0..(MaxAttempts - 1)]
           /\ UNCHANGED reply
<1>1. /\ AfterSuccess[pc[r]] \in Running
      /\ AfterFailure[pc[r]] \in Running
  BY LegEnds
<1>2. QED
  BY <1>1, PaymentAssumption DEF RetryOrFail, EndLeg, Goto, TypeOK

\* A new status keeps the type of the table.
LEMMA StatusTypes ==
    ASSUME TypeOK, NEW r \in Requests, txns[Key[r]] # NoTxn,
           NEW s \in Ledger!TxnStatuses, SetStatus(r, s)
    PROVE  txns' \in [Keys -> Ledger!Txns]
BY RequestShape DEF TypeOK, SetStatus, NoTxn, Ledger!Txns, Ledger!NoTxn

\* The initial states satisfy the invariant.
LEMMA InitIInv == Init => IInv
<1> SUFFICES ASSUME Init
             PROVE  IInv
  OBVIOUS
<1>1. TypeOK
  BY PaymentAssumption
  DEF Init, TypeOK, NoTxn, Ledger!Txns, Ledger!NoTxn, Book!BookInit, Book!BookTypeOK
<1>2. OwnKey
  BY DEF Init, OwnKey
<1>3. Standing
  BY RequestShape DEF Init, Standing, StandingOf, Owned, NoTxn, Ledger!NoTxn, Legs, Reasons
<1>4. AnswersStand /\ OneMover
  BY DEF Init, AnswersStand, OneMover, Ledger!Terminal, Book!BookInit
<1>5. Money /\ MoneyHasASource
  BY DEF Init, Money, MoneyOf, MoneyHasASource, Posted, Book!BookInit
<1>6. StatusMatchesMoney
  BY RequestShape DEF Init, StatusMatchesMoney, NoTxn, Ledger!NoTxn
<1>7. QED
  BY <1>1, <1>2, <1>3, <1>4, <1>5, <1>6 DEF IInv

\* The types are preserved.
LEMMA NextTypeOK == IInv /\ [Next]_vars => TypeOK'
<1> SUFFICES ASSUME IInv, [Next]_vars
             PROVE  TypeOK'
  OBVIOUS
<1>0. TypeOK /\ Standing
  BY DEF IInv
<1> USE <1>0 DEF account
<1>1. ASSUME NEW r \in Requests, Begin(r)
      PROVE  TypeOK'
  BY <1>1 DEF Begin, Goto, TypeOK, Running, Book!BookTypeOK
<1>2. ASSUME NEW r \in Requests, Lookup(r)
      PROVE  TypeOK'
  BY <1>2, RequestShape, TxnShape
  DEF Lookup, Goto, Return, TypeOK, Running, Book!BookTypeOK, Ledger!TxnStatuses
<1>3. ASSUME NEW r \in Requests, CheckBalance(r)
      PROVE  TypeOK'
  BY <1>3 DEF CheckBalance, Goto, Return, TypeOK, Running, Book!BookTypeOK
<1>4. ASSUME NEW r \in Requests, Create(r)
      PROVE  TypeOK'
  <2>1. [id |-> r, status |-> "PENDING"] \in Ledger!Txns
    BY DEF Ledger!Txns, Ledger!TxnStatuses
  <2>2. QED
    BY <1>4, <2>1 DEF Create, Goto, TypeOK, Running, Book!BookTypeOK
<1>5. ASSUME NEW r \in Requests, Reread(r)
      PROVE  TypeOK'
  BY <1>5, RequestShape, TxnShape
  DEF Reread, Return, TypeOK, Book!BookTypeOK, Ledger!TxnStatuses
<1>6. ASSUME NEW r \in Requests, MarkProcessing(r)
      PROVE  TypeOK'
  <2>1. txns[Key[r]] # NoTxn
    BY <1>6, OwnedShape DEF MarkProcessing, Standing, StandingOf, Ledger!TxnStatuses
  <2>2. txns' \in [Keys -> Ledger!Txns]
    BY <1>6, <2>1, StatusTypes DEF MarkProcessing, TypeOK, Ledger!TxnStatuses
  <2>3. QED
    BY <1>6, <2>2 DEF MarkProcessing, Goto, Return, TypeOK, Running, Book!BookTypeOK
<1>7. ASSUME NEW r \in Requests, CallSucceeds(r)
      PROVE  TypeOK'
  BY <1>7, NextCallShape, ApplyTypes, LegTypes DEF CallSucceeds, TypeOK
<1>8. ASSUME NEW r \in Requests, CallRefused(r)
      PROVE  TypeOK'
  BY <1>8, LegTypes DEF CallRefused, TypeOK, Book!BookTypeOK
<1>9. ASSUME NEW r \in Requests, CallFails(r)
      PROVE  TypeOK'
  BY <1>9, LegTypes DEF CallFails, TypeOK, Book!BookTypeOK
<1>10. ASSUME NEW r \in Requests, CallMisreported(r)
       PROVE  TypeOK'
  BY <1>10, NextCallShape, ApplyTypes, LegTypes DEF CallMisreported, TypeOK
<1>11. ASSUME NEW r \in Requests, CallOvertaken(r)
       PROVE  TypeOK'
  BY <1>11, NextCallShape, LegTypes DEF CallOvertaken, TypeOK, Book!BookTypeOK
<1>12. ASSUME NEW c \in Calls, LateCallEnds(c)
       PROVE  TypeOK'
  BY <1>12, ApplyTypes DEF LateCallEnds, TypeOK, Book!BookTypeOK
<1>13. ASSUME NEW r \in Requests, MarkFailed(r)
       PROVE  TypeOK'
  <2>1. txns[Key[r]] # NoTxn
    BY <1>13, OwnedShape DEF MarkFailed, Standing, StandingOf, Ledger!TxnStatuses
  <2>2. txns' \in [Keys -> Ledger!Txns]
    BY <1>13, <2>1, StatusTypes DEF MarkFailed, TypeOK, Ledger!TxnStatuses
  <2>3. QED
    BY <1>13, <2>2 DEF MarkFailed, Return, TypeOK, Book!BookTypeOK
<1>14. ASSUME NEW r \in Requests, MarkSuccess(r)
       PROVE  TypeOK'
  <2>1. txns[Key[r]] # NoTxn
    BY <1>14, OwnedShape DEF MarkSuccess, Standing, StandingOf, Ledger!TxnStatuses
  <2>2. txns' \in [Keys -> Ledger!Txns]
    BY <1>14, <2>1, StatusTypes DEF MarkSuccess, TypeOK, Ledger!TxnStatuses
  <2>3. QED
    BY <1>14, <2>2 DEF MarkSuccess, Goto, Return, TypeOK, Running, Book!BookTypeOK
<1>15. ASSUME NEW r \in Requests, Publish(r)
       PROVE  TypeOK'
  BY <1>15 DEF Publish, Return, TypeOK, Book!BookTypeOK, Ledger!TxnStatuses
<1>16. ASSUME NEW r \in Requests, Timeout(r)
       PROVE  TypeOK'
  BY <1>16 DEF Timeout, TypeOK, Book!BookTypeOK
<1>17. CASE Crash
  BY <1>17 DEF Crash, TypeOK, Book!BookTypeOK
<1>18. CASE UNCHANGED vars
  BY <1>18 DEF vars, TypeOK, Book!BookTypeOK
<1>19. QED
  BY <1>1, <1>2, <1>3, <1>4, <1>5, <1>6, <1>7, <1>8, <1>9, <1>10, <1>11, <1>12, <1>13,
     <1>14, <1>15, <1>16, <1>17, <1>18 DEF Next, Step

-----------------------------------------------------------------------------
\* What a request's step does to the transaction under its key.
LEMMA OwnStep ==
    ASSUME IInv, NEW r \in Requests, Begin(r) \/ Step(r) \/ Timeout(r)
    PROVE  \/ UNCHANGED txns
           \/ /\ pc[r] = "create"
              /\ txns[Key[r]] = NoTxn
              /\ txns' = [txns EXCEPT ![Key[r]] = [id |-> r, status |-> "PENDING"]]
           \/ /\ pc[r] = "processing"
              /\ Owned(r, "PENDING")
              /\ txns' = [txns EXCEPT ![Key[r]].status = "PROCESSING"]
           \/ /\ pc[r] = "success"
              /\ Owned(r, "PROCESSING")
              /\ txns' = [txns EXCEPT ![Key[r]].status = "SUCCESS"]
           \/ /\ pc[r] \in Reasons
              /\ Owned(r, "PROCESSING")
              /\ txns' = [txns EXCEPT ![Key[r]].status = "FAILED"]
<1>1. StandingOf(r)
  BY DEF IInv, Standing
<1>2. CASE Create(r)
  BY <1>2 DEF Create
<1>3. CASE MarkProcessing(r)
  BY <1>1, <1>3 DEF MarkProcessing, SetStatus, StandingOf
<1>4. CASE MarkSuccess(r)
  BY <1>1, <1>4 DEF MarkSuccess, SetStatus, StandingOf
<1>5. CASE MarkFailed(r)
  BY <1>1, <1>5 DEF MarkFailed, SetStatus, StandingOf
<1>6. CASE UNCHANGED txns
  BY <1>6
<1>7. QED
  BY <1>2, <1>3, <1>4, <1>5, <1>6
  DEF Step, Begin, Lookup, CheckBalance, Reread, CallSucceeds, CallRefused, CallFails,
      CallMisreported, CallOvertaken, Publish, Timeout

\* When it does anything, the transaction is the request's own, or was not there.
LEMMA OwnRow ==
    ASSUME IInv, NEW r \in Requests, Begin(r) \/ Step(r) \/ Timeout(r), txns' # txns
    PROVE  /\ txns'[Key[r]].id = r
           /\ txns[Key[r]].id \in {r, "none"}
<1>0. Key[r] \in Keys /\ txns \in [Keys -> Ledger!Txns]
  BY RequestShape DEF IInv, TypeOK
<1>1. CASE /\ txns[Key[r]] = NoTxn
           /\ txns' = [txns EXCEPT ![Key[r]] = [id |-> r, status |-> "PENDING"]]
  BY <1>0, <1>1 DEF NoTxn, Ledger!NoTxn
<1>2. ASSUME NEW s \in Ledger!TxnStatuses, Owned(r, s),
             NEW t \in Ledger!TxnStatuses, txns' = [txns EXCEPT ![Key[r]].status = t]
      PROVE  txns'[Key[r]].id = r /\ txns[Key[r]].id = r
  <2>1. txns'[Key[r]] = [id |-> r, status |-> t]
    BY <1>0, <1>2 DEF Owned
  <2>2. QED
    BY <1>2, <2>1 DEF Owned
<1>3. QED
  BY <1>1, <1>2, OwnStep DEF Ledger!TxnStatuses

\* A transaction keeps its owner, and a terminal status for good.
LEMMA TxnStays ==
    ASSUME IInv, [Next]_vars, NEW k \in Keys
    PROVE  /\ txns[k] # NoTxn => txns'[k].id = txns[k].id /\ txns'[k] # NoTxn
           /\ txns[k].status \in Ledger!Terminal => txns'[k] = txns[k]
           /\ txns'[k] # NoTxn => Key[txns'[k].id] = k
<1>0. /\ TypeOK
      /\ OwnKey
      /\ txns \in [Keys -> Ledger!Txns]
      /\ "none" \notin Ledger!Terminal
  BY DEF IInv, TypeOK, Ledger!Terminal
<1>1. ASSUME NEW r \in Requests, Begin(r) \/ Step(r) \/ Timeout(r)
      PROVE  /\ txns[k] # NoTxn => txns'[k].id = txns[k].id /\ txns'[k] # NoTxn
             /\ txns[k].status \in Ledger!Terminal => txns'[k] = txns[k]
             /\ txns'[k] # NoTxn => Key[txns'[k].id] = k
  <2>1. CASE UNCHANGED txns
    BY <1>0, <2>1 DEF OwnKey
  <2>2. CASE /\ txns[Key[r]] = NoTxn
             /\ txns' = [txns EXCEPT ![Key[r]] = [id |-> r, status |-> "PENDING"]]
    BY <1>0, <2>2, RequestShape, TxnShape DEF OwnKey
  <2>3. ASSUME NEW s \in {"PENDING", "PROCESSING"}, Owned(r, s),
               NEW t \in Ledger!TxnStatuses, txns' = [txns EXCEPT ![Key[r]].status = t]
        PROVE  /\ txns[k] # NoTxn => txns'[k].id = txns[k].id /\ txns'[k] # NoTxn
               /\ txns[k].status \in Ledger!Terminal => txns'[k] = txns[k]
               /\ txns'[k] # NoTxn => Key[txns'[k].id] = k
    <3>1. Key[r] \in Keys /\ txns'[Key[r]] = [id |-> r, status |-> t]
      BY <1>0, <2>3, RequestShape DEF Owned
    <3>2. r # "none" /\ NoTxn.id = "none"
      BY RequestShape DEF NoTxn, Ledger!NoTxn
    <3>3. CASE k = Key[r]
      BY <2>3, <3>1, <3>2, <3>3 DEF Owned, Ledger!Terminal
    <3>4. CASE k # Key[r]
      BY <1>0, <2>3, <3>4 DEF OwnKey
    <3>5. QED
      BY <3>3, <3>4
  <2>4. QED
    BY <1>1, <2>1, <2>2, <2>3, OwnStep DEF Ledger!TxnStatuses
<1>2. CASE UNCHANGED txns
  BY <1>0, <1>2 DEF OwnKey
<1>3. QED
  BY <1>1, <1>2 DEF Next, vars, LateCallEnds, Crash

\* A posting is one more of its own request and leg.
LEMMA Posting ==
    ASSUME NEW c \in Calls, Apply(c)
    PROVE  /\ journal \subseteq journal'
           /\ \A e \in journal' \ journal : e.call = c
           /\ \A q, leg : Posted(q, leg)' <=> Posted(q, leg) \/ (c.req = q /\ c.leg = leg)
<1> DEFINE new == [call |-> c, account |-> CallAccount(c), delta |-> CallDelta(c)]
<1>1. journal' = journal \cup {new} /\ new.call = c
  BY DEF Apply, Book!Post
<1>2. \A e \in journal' : e \in journal \/ e.call = c
  BY <1>1
<1>3. \E e \in journal' : e.call = c
  BY <1>1
<1> HIDE DEF new
<1>4. ASSUME NEW q, NEW leg
      PROVE  Posted(q, leg)' <=> Posted(q, leg) \/ (c.req = q /\ c.leg = leg)
  BY <1>1, <1>2, <1>3 DEF Posted
<1>5. QED
  BY <1>1, <1>2, <1>4

\* A request's step posts, if anything, the leg it is in.
LEMMA OwnPosting ==
    ASSUME IInv, NEW r \in Requests, Begin(r) \/ Step(r) \/ Timeout(r)
    PROVE  /\ \/ UNCHANGED journal
              \/ pc[r] \in Legs /\ Apply(NextCall(r))
           /\ \/ UNCHANGED late
              \/ pc[r] \in Legs /\ late' = late \cup {NextCall(r)}
BY DEF Step, Begin, Lookup, CheckBalance, Create, Reread, MarkProcessing, CallSucceeds,
       CallRefused, CallFails, CallMisreported, CallOvertaken, MarkFailed, MarkSuccess,
       Publish, Timeout, account

\* A request's step leaves every other request where it is, with its transaction (if it has
\* one), its answer and its money.
LEMMA Others ==
    ASSUME IInv, NEW r \in Requests, Begin(r) \/ Step(r) \/ Timeout(r),
           NEW q \in Requests, q # r
    PROVE  /\ pc'[q] = pc[q]
           /\ reply'[q] = reply[q]
           /\ reason'[q] = reason[q]
           /\ doubt'[q] = doubt[q]
           /\ q \in published' <=> q \in published
           /\ \A s \in Ledger!TxnStatuses : Owned(q, s)' <=> Owned(q, s)
           /\ \A leg : Posted(q, leg)' <=> Posted(q, leg)
           /\ \A c \in late' : c.req = q => c \in late
           /\ \A e \in journal' : e.call.req = q => e \in journal
<1>1. TypeOK
  BY DEF IInv
<1>2. /\ pc'[q] = pc[q]
      /\ reply'[q] = reply[q]
      /\ reason'[q] = reason[q]
      /\ doubt'[q] = doubt[q]
      /\ q \in published' <=> q \in published
  BY <1>1
  DEF Step, Begin, Lookup, CheckBalance, Create, Reread, MarkProcessing, CallSucceeds,
      CallRefused, CallFails, CallMisreported, CallOvertaken, MarkFailed, MarkSuccess,
      Publish, Timeout, account, Goto, Return, RetryOrFail, EndLeg, TypeOK
<1>3. ASSUME NEW s \in Ledger!TxnStatuses
      PROVE  Owned(q, s)' <=> Owned(q, s)
  <2>1. Key[q] \in Keys /\ Key[r] \in Keys /\ txns \in [Keys -> Ledger!Txns]
    BY <1>1, RequestShape DEF TypeOK
  <2>2. CASE Key[q] # Key[r] \/ UNCHANGED txns
    BY <2>1, <2>2, OwnStep DEF Owned
  <2>3. CASE Key[q] = Key[r] /\ ~UNCHANGED txns
    <3>1. txns'[Key[q]].id = r /\ txns[Key[q]].id \in {r, "none"}
      BY <2>3, OwnRow
    <3>2. q # "none"
      BY RequestShape
    <3>3. QED
      BY <3>1, <3>2 DEF Owned
  <2>4. QED
    BY <2>2, <2>3
<1>4. /\ \A leg : Posted(q, leg)' <=> Posted(q, leg)
      /\ \A c \in late' : c.req = q => c \in late
      /\ \A e \in journal' : e.call.req = q => e \in journal
  <2>1. CASE UNCHANGED journal /\ UNCHANGED late
    BY <2>1 DEF Posted
  <2>2. CASE pc[r] \in Legs
    <3>1. NextCall(r) \in Calls /\ NextCall(r).req = r
      BY <1>1, <2>2, NextCallShape
    <3>2. \/ UNCHANGED journal
          \/ /\ \A e \in journal' : e \in journal \/ e.call = NextCall(r)
             /\ \A leg : Posted(q, leg)' <=> Posted(q, leg)
      <4>1. CASE UNCHANGED journal
        BY <4>1
      <4>2. CASE Apply(NextCall(r))
        BY <3>1, <4>2, Posting
      <4>3. QED
        BY <4>1, <4>2, OwnPosting
    <3>3. UNCHANGED late \/ late' = late \cup {NextCall(r)}
      BY OwnPosting
    <3>4. \A leg : Posted(q, leg)' <=> Posted(q, leg)
      <4>1. CASE UNCHANGED journal
        BY <4>1 DEF Posted
      <4>2. QED
        BY <3>2, <4>1
    <3>5. QED
      BY <3>1, <3>2, <3>3, <3>4
  <2>3. QED
    BY <2>1, <2>2, OwnPosting
<1>5. QED
  BY <1>2, <1>3, <1>4

-----------------------------------------------------------------------------
\* After a change of status, the request owns its transaction with that status only.
LEMMA NewStatus ==
    ASSUME TypeOK, NEW r \in Requests, NEW s, Owned(r, s), NEW t, SetStatus(r, t), NEW u
    PROVE  Owned(r, u)' <=> u = t
<1>1. txns'[Key[r]] = [id |-> r, status |-> t]
  BY RequestShape DEF Owned, SetStatus, TypeOK
<1>2. QED
  BY <1>1 DEF Owned

\* A request's own step keeps its standing.
LEMMA OwnStanding ==
    ASSUME IInv, NEW r \in Requests, Begin(r) \/ Step(r) \/ Timeout(r)
    PROVE  StandingOf(r)'
<1>0. TypeOK /\ StandingOf(r)
  BY DEF IInv, Standing
<1> USE <1>0 DEF TypeOK
<1>1. CASE UNCHANGED txns
  <2>1. \A s : Owned(r, s)' <=> Owned(r, s)
    BY <1>1 DEF Owned
  <2>2. CASE Begin(r)
    BY <2>1, <2>2 DEF Begin, Goto, StandingOf, Legs, Reasons
  <2>3. CASE Lookup(r)
    BY <2>1, <2>3 DEF Lookup, Goto, Return, StandingOf, Legs, Reasons
  <2>4. CASE CheckBalance(r)
    BY <2>1, <2>4 DEF CheckBalance, Goto, Return, StandingOf, Legs, Reasons
  <2>5. CASE Create(r)
    <3>1. pc[r] = "create" /\ pc' = [pc EXCEPT ![r] = "reread"] /\ UNCHANGED reply
      <4>1. ~(txns[Key[r]] = NoTxn /\ txns' = [txns EXCEPT ![Key[r]] = [id |-> r, status |-> "PENDING"]])
        BY <1>1, RequestShape DEF NoTxn, Ledger!NoTxn
      <4>2. QED
        BY <2>5, <4>1 DEF Create, Goto
    <3>2. QED
      BY <2>1, <3>1 DEF StandingOf, Legs, Reasons
  <2>6. CASE Reread(r)
    BY <2>1, <2>6 DEF Reread, Return, StandingOf, Legs, Reasons
  <2>7. CASE MarkProcessing(r) /\ ~SetStatus(r, "PROCESSING")
    BY <2>1, <2>7 DEF MarkProcessing, Return, StandingOf, Legs, Reasons
  <2>8. CASE CallSucceeds(r) \/ CallRefused(r) \/ CallFails(r) \/ CallMisreported(r)
             \/ CallOvertaken(r)
    <3>1. /\ pc[r] \in Legs
          /\ \/ pc' = pc
             \/ pc' = [pc EXCEPT ![r] = AfterSuccess[pc[r]]]
             \/ pc' = [pc EXCEPT ![r] = AfterFailure[pc[r]]]
          /\ UNCHANGED reply
      BY <2>8 DEF CallSucceeds, CallRefused, CallFails, CallMisreported, CallOvertaken,
                  RetryOrFail, EndLeg, Goto
    <3>2. pc'[r] \in Legs \cup Reasons \cup {"success"}
      <4>1. pc'[r] \in {pc[r], AfterSuccess[pc[r]], AfterFailure[pc[r]]}
        BY <3>1
      <4>2. QED
        BY <3>1, <4>1, LegEnds DEF Legs, Reasons
    <3>3. QED
      BY <2>1, <3>1, <3>2 DEF StandingOf, Legs, Reasons
  <2>9. CASE MarkFailed(r) \/ (MarkSuccess(r) /\ ~SetStatus(r, "SUCCESS")) \/ Publish(r)
    BY <2>1, <2>9 DEF MarkFailed, MarkSuccess, Publish, Return, StandingOf, Legs, Reasons
  <2>10. CASE Timeout(r)
    BY <2>1, <2>10 DEF Timeout, StandingOf
  <2>11. ~SetStatus(r, "PROCESSING") \/ pc[r] # "processing"
    BY <1>1, NewStatus DEF StandingOf, SetStatus, Owned
  <2>12. ~SetStatus(r, "SUCCESS") \/ pc[r] # "success"
    BY <1>1, NewStatus DEF StandingOf, SetStatus, Owned
  <2>13. QED
    BY <2>2, <2>3, <2>4, <2>5, <2>6, <2>7, <2>8, <2>9, <2>10, <2>11, <2>12
    DEF Step, MarkProcessing, MarkSuccess
<1>2. CASE Create(r) /\ txns' # txns
  <2>1. /\ txns'[Key[r]] = [id |-> r, status |-> "PENDING"]
        /\ pc' \in {[pc EXCEPT ![r] = "processing"], [pc EXCEPT ![r] = "reread"]}
        /\ UNCHANGED reply
        /\ pc[r] = "create"
    BY <1>2, RequestShape DEF Create, Goto
  <2>2. Owned(r, "PENDING")' /\ ~Owned(r, "SUCCESS")' /\ ~Owned(r, "FAILED")'
    BY <2>1 DEF Owned
  <2>3. QED
    BY <2>1, <2>2 DEF StandingOf, Legs, Reasons
<1>3. CASE MarkProcessing(r) /\ txns' # txns
  <2>1. pc[r] = "processing" /\ SetStatus(r, "PROCESSING")
    BY <1>3 DEF MarkProcessing
  <2>2. Owned(r, "PROCESSING")' /\ ~Owned(r, "SUCCESS")' /\ ~Owned(r, "FAILED")'
    BY <2>1, NewStatus DEF StandingOf
  <2>3. QED
    BY <1>3, <2>2 DEF MarkProcessing, Goto, Return, StandingOf, Legs, Reasons
<1>4. CASE MarkFailed(r) /\ txns' # txns
  BY <1>4 DEF MarkFailed, Return, StandingOf, Legs, Reasons
<1>5. CASE MarkSuccess(r) /\ txns' # txns
  <2>1. pc[r] = "success" /\ SetStatus(r, "SUCCESS")
    BY <1>5 DEF MarkSuccess
  <2>2. Owned(r, "SUCCESS")'
    BY <2>1, NewStatus DEF StandingOf
  <2>3. QED
    BY <1>5, <2>2 DEF MarkSuccess, Goto, Return, StandingOf, Legs, Reasons
<1>6. QED
  BY <1>1, <1>2, <1>3, <1>4, <1>5
  DEF Step, Begin, Lookup, CheckBalance, Reread, CallSucceeds, CallRefused, CallFails,
      CallMisreported, CallOvertaken, Publish, Timeout

\* Every step keeps the standing of every request.
LEMMA NextStanding == IInv /\ [Next]_vars => Standing'
<1> SUFFICES ASSUME IInv, [Next]_vars, NEW q \in Requests
             PROVE  StandingOf(q)'
  BY DEF Standing
<1>0. TypeOK /\ StandingOf(q)
  BY DEF IInv, Standing
<1>1. ASSUME NEW r \in Requests, Begin(r) \/ Step(r) \/ Timeout(r), r # q
      PROVE  StandingOf(q)'
  BY <1>0, <1>1, Others DEF StandingOf, Ledger!TxnStatuses
<1>2. ASSUME Begin(q) \/ Step(q) \/ Timeout(q)
      PROVE  StandingOf(q)'
  BY <1>2, OwnStanding
<1>3. CASE UNCHANGED <<txns, pc, reply>>
  BY <1>0, <1>3 DEF StandingOf, Owned
<1>4. CASE Crash
  <2>1. pc'[q] \in {pc[q], "done"} /\ (pc'[q] # pc[q] \/ reply'[q] = reply[q]) /\ UNCHANGED txns
    BY <1>0, <1>4 DEF Crash, TypeOK, Running, Reasons
  <2>2. QED
    BY <1>0, <2>1 DEF StandingOf, Owned, Legs, Reasons
<1>5. QED
  BY <1>1, <1>2, <1>3, <1>4 DEF Next, vars, LateCallEnds

\* Terminal answers and published events stay true.
LEMMA NextAnswersStand == IInv /\ [Next]_vars => AnswersStand'
<1> SUFFICES ASSUME IInv, [Next]_vars, Standing', NEW q \in Requests
             PROVE  /\ reply'[q] \in Ledger!Terminal => txns'[Key[q]].status = reply'[q]
                    /\ q \in published' => txns'[Key[q]] = [id |-> q, status |-> "SUCCESS"]
  BY NextStanding DEF AnswersStand
<1>0. /\ TypeOK
      /\ AnswersStand
      /\ StandingOf(q)
      /\ Key[q] \in Keys
      /\ txns[Key[q]].status \in Ledger!Terminal => txns'[Key[q]] = txns[Key[q]]
  BY RequestShape, TxnStays DEF IInv, Standing
<1>1. ASSUME reply'[q] \in Ledger!Terminal
      PROVE  txns'[Key[q]].status = reply'[q]
  <2>1. CASE reply'[q] = reply[q]
    BY <1>0, <1>1, <2>1 DEF AnswersStand
  <2>2. ASSUME Lookup(q) \/ Reread(q), reply'[q] # reply[q]
        PROVE  txns'[Key[q]].status = reply'[q]
    BY <1>0, <1>1, <2>2 DEF Lookup, Reread, Goto, Return, TypeOK, Ledger!Terminal
  <2>3. ASSUME Publish(q)
        PROVE  txns'[Key[q]].status = reply'[q]
    BY <1>0, <2>3 DEF Publish, Return, StandingOf, Owned, TypeOK
  <2>4. ASSUME NEW r \in Requests, Begin(r) \/ Step(r) \/ Timeout(r)
        PROVE  reply'[q] = reply[q] \/ ((Lookup(q) \/ Reread(q)) /\ r = q) \/ Publish(q)
    <3>1. CASE r # q
      BY <2>4, <3>1, Others
    <3>2. CASE r = q
      BY <1>0, <1>1, <2>4, <3>2
      DEF Step, Begin, CheckBalance, Create, MarkProcessing, CallSucceeds, CallRefused,
          CallFails, CallMisreported, CallOvertaken, RetryOrFail, EndLeg, MarkFailed,
          MarkSuccess, Timeout, Goto, Return, TypeOK, Ledger!Terminal
    <3>3. QED
      BY <3>1, <3>2
  <2>5. CASE Crash
    BY <1>0, <1>1, <2>1, <2>5 DEF Crash, TypeOK, Ledger!Terminal
  <2>6. QED
    BY <2>1, <2>2, <2>3, <2>4, <2>5 DEF Next, vars, LateCallEnds
<1>2. ASSUME q \in published'
      PROVE  txns'[Key[q]] = [id |-> q, status |-> "SUCCESS"]
  <2>1. CASE q \in published
    BY <1>0, <2>1 DEF AnswersStand, Ledger!Terminal
  <2>2. CASE q \notin published
    <3>1. \E r \in Requests : Publish(r)
      BY <1>2, <2>2
      DEF Next, vars, Step, Begin, Lookup, CheckBalance, Create, Reread, MarkProcessing,
          CallSucceeds, CallRefused, CallFails, CallMisreported, CallOvertaken, MarkFailed,
          MarkSuccess, Timeout, LateCallEnds, Crash
    <3>2. Publish(q)
      BY <1>2, <2>2, <3>1 DEF Publish
    <3>3. QED
      BY <1>0, <3>2 DEF Publish, StandingOf, Owned
  <2>3. QED
    BY <2>1, <2>2
<1>3. QED
  BY <1>1, <1>2

\* Only owners call account-svc.
LEMMA NextOneMover == IInv /\ [Next]_vars => OneMover'
<1> SUFFICES ASSUME IInv, [Next]_vars,
                    NEW c \in {e.call : e \in journal'} \cup late'
             PROVE  txns'[Key[c.req]].id = c.req
  BY DEF OneMover
<1>0. TypeOK /\ OneMover /\ Standing
  BY DEF IInv
<1>1. ASSUME NEW d \in Calls, txns[Key[d.req]].id = d.req
      PROVE  txns'[Key[d.req]].id = d.req
  <2>1. d.req \in Requests /\ Key[d.req] \in Keys
    BY CallShape, RequestShape
  <2>2. txns[Key[d.req]] # NoTxn
    BY <1>1, <2>1, RequestShape DEF NoTxn, Ledger!NoTxn
  <2>3. QED
    BY <1>1, <2>1, <2>2, TxnStays
<1>2. \A d \in {e.call : e \in journal} \cup late : d \in Calls /\ txns[Key[d.req]].id = d.req
  BY <1>0 DEF OneMover, TypeOK, Book!BookTypeOK, Book!Entries
<1>3. CASE c \in {e.call : e \in journal} \cup late
  BY <1>1, <1>2, <1>3
<1>4. ASSUME NEW r \in Requests, Begin(r) \/ Step(r) \/ Timeout(r)
      PROVE  c \in {e.call : e \in journal} \cup late \/ (pc[r] \in Legs /\ c = NextCall(r))
  <2>1. UNCHANGED late \/ (pc[r] \in Legs /\ late' = late \cup {NextCall(r)})
    BY <1>4, OwnPosting
  <2>2. CASE UNCHANGED journal
    BY <2>1, <2>2
  <2>3. CASE pc[r] \in Legs /\ Apply(NextCall(r))
    <3>1. \A e \in journal' \ journal : e.call = NextCall(r)
      BY <1>0, <2>3, NextCallShape, Posting
    <3>2. QED
      BY <2>1, <2>3, <3>1
  <2>4. QED
    BY <1>4, <2>2, <2>3, OwnPosting
<1>5. ASSUME NEW r \in Requests, pc[r] \in Legs, c = NextCall(r)
      PROVE  txns'[Key[c.req]].id = c.req
  <2>1. c \in Calls /\ c.req = r
    BY <1>0, <1>5, NextCallShape
  <2>2. txns[Key[c.req]].id = c.req
    <3>1. Owned(r, "PROCESSING")
      BY <1>0, <1>5 DEF Standing, StandingOf
    <3>2. QED
      BY <2>1, <3>1, OwnedShape DEF Ledger!TxnStatuses
  <2>3. QED
    BY <1>1, <2>1, <2>2
<1>6. ASSUME NEW d \in Calls, LateCallEnds(d)
      PROVE  c \in {e.call : e \in journal} \cup late
  <2>1. d \in late /\ late' \subseteq late
    BY <1>6 DEF LateCallEnds
  <2>2. CASE UNCHANGED journal
    BY <2>1, <2>2
  <2>3. CASE Apply(d)
    BY <2>1, <2>3, Posting
  <2>4. QED
    BY <1>6, <2>2, <2>3 DEF LateCallEnds
<1>7. CASE UNCHANGED <<journal, late>>
  BY <1>3, <1>7
<1>8. QED
  BY <1>3, <1>4, <1>5, <1>6, <1>7 DEF Next, vars, Crash, account

-----------------------------------------------------------------------------
\* StatusMatchesMoney and MoneyHasASource, of one request.
MatchOf(r) ==
    /\ Owned(r, "SUCCESS") => Posted(r, "debit") /\ Posted(r, "credit")
    /\ Owned(r, "FAILED") /\ ~doubt[r] =>
           /\ ~Posted(r, "credit")
           /\ reason[r] = "debit failed" => ~Posted(r, "debit")

SourceOf(r) ==
    /\ Posted(r, "credit") \/ Posted(r, "comp") => Posted(r, "debit")
    /\ ~doubt[r] =>
           /\ ~(Posted(r, "credit") /\ Posted(r, "comp"))
           /\ \A e, f \in journal :
                 e.call.req = r /\ f.call.req = r /\ e.call.leg = f.call.leg => e = f

Sound(r) == MoneyOf(r) /\ MatchOf(r) /\ SourceOf(r)

LEMMA SoundIsEnough ==
    /\ Money /\ MoneyHasASource /\ StatusMatchesMoney <=> \A r \in Requests : Sound(r)
    /\ Money' /\ MoneyHasASource' /\ StatusMatchesMoney' <=> \A r \in Requests : Sound(r)'
BY DEF Sound, Money, MatchOf, SourceOf, Owned, MoneyHasASource, StatusMatchesMoney

\* A step that posts nothing for a request and keeps its status is sound where the request
\* goes on to a place that claims no more than the one it leaves.
LEMMA SameMoney ==
    ASSUME NEW q \in Requests, Sound(q),
           \A s : Owned(q, s)' <=> Owned(q, s),
           reason'[q] = reason[q],
           doubt[q] => doubt'[q],
           \A leg : Posted(q, leg)' <=> Posted(q, leg),
           \A e \in journal' : e.call.req = q => e \in journal,
           MoneyOf(q)'
    PROVE  Sound(q)'
<1>1. MatchOf(q)'
  BY DEF Sound, MatchOf
<1>2. SourceOf(q)'
  BY DEF Sound, SourceOf
<1>3. QED
  BY <1>1, <1>2 DEF Sound

\* A call that succeeds, is overtaken or misreported: what is posted is the leg the request
\* is in, or nothing.
LEMMA LegMoney ==
    ASSUME IInv, NEW r \in Requests,
           \/ CallSucceeds(r)
           \/ CallRefused(r)
           \/ CallFails(r)
           \/ CallMisreported(r)
           \/ CallOvertaken(r)
    PROVE  Sound(r)'
<1>0. /\ TypeOK
      /\ Sound(r)
      /\ pc[r] \in Legs
      /\ Owned(r, "PROCESSING")
      /\ UNCHANGED <<txns, reason>>
  BY SoundIsEnough
  DEF IInv, CallSucceeds, CallRefused, CallFails, CallMisreported, CallOvertaken, account,
      Standing, StandingOf
<1>1. MatchOf(r)'
  <2>1. ~Owned(r, "SUCCESS")' /\ ~Owned(r, "FAILED")'
    BY <1>0 DEF Owned
  <2>2. QED
    BY <2>1 DEF MatchOf
<1>2. /\ NextCall(r) \in Calls
      /\ NextCall(r).req = r
      /\ NextCall(r).leg = pc[r]
  BY <1>0, NextCallShape
<1>3. CASE CallSucceeds(r)
  <2>1. /\ \A leg : Posted(r, leg)' <=> Posted(r, leg) \/ leg = pc[r]
        /\ journal' = journal \cup
               {[call |-> NextCall(r), account |-> CallAccount(NextCall(r)),
                 delta |-> CallDelta(NextCall(r))]}
        /\ UNCHANGED <<late, doubt>>
    BY <1>0, <1>2, <1>3, Posting, ApplyTypes DEF CallSucceeds
  <2>2. pc'[r] = AfterSuccess[pc[r]]
    BY <1>0, <1>3 DEF CallSucceeds, EndLeg, Goto, TypeOK
  <2>3. MoneyOf(r)'
    BY <1>0, <2>1, <2>2, LegEnds DEF Sound, MoneyOf, Legs
  <2>4. ~doubt[r] => ~Posted(r, pc[r])
    BY <1>0 DEF Sound, MoneyOf, Legs
  <2>5. SourceOf(r)'
    <3>1. (Posted(r, "credit") \/ Posted(r, "comp") => Posted(r, "debit"))'
      BY <1>0, <2>1 DEF Sound, MoneyOf, SourceOf, Legs
    <3>2. ~doubt[r] => ~(Posted(r, "credit") /\ Posted(r, "comp"))'
      BY <1>0, <2>1 DEF Sound, MoneyOf, SourceOf, Legs
    <3>3. ASSUME ~doubt[r], NEW e \in journal', NEW f \in journal',
                 e.call.req = r, f.call.req = r, e.call.leg = f.call.leg
          PROVE  e = f
      <4>1. CASE e.call.leg = pc[r]
        <5>1. e \notin journal /\ f \notin journal
          BY <2>4, <3>3, <4>1 DEF Posted
        <5>2. QED
          BY <2>1, <5>1
      <4>2. CASE e.call.leg # pc[r]
        <5>1. e \in journal /\ f \in journal
          BY <1>2, <2>1, <3>3, <4>2
        <5>2. QED
          BY <1>0, <3>3, <5>1 DEF Sound, SourceOf
      <4>3. QED
        BY <4>1, <4>2
    <3>4. QED
      BY <2>1, <3>1, <3>2, <3>3 DEF SourceOf
  <2>6. QED
    BY <1>1, <2>3, <2>5 DEF Sound
<1>4. CASE CallRefused(r) \/ CallFails(r)
  <2>1. /\ UNCHANGED <<journal, late, doubt>>
        /\ pc'[r] \in {pc[r], AfterFailure[pc[r]]}
    BY <1>0, <1>4 DEF CallRefused, CallFails, RetryOrFail, EndLeg, Goto, TypeOK, account
  <2>2. \A leg : Posted(r, leg)' <=> Posted(r, leg)
    BY <2>1 DEF Posted
  <2>3. MoneyOf(r)'
    BY <1>0, <2>1, <2>2, LegEnds DEF Sound, MoneyOf, Legs
  <2>4. SourceOf(r)'
    BY <1>0, <2>1, <2>2 DEF Sound, SourceOf
  <2>5. QED
    BY <1>1, <2>3, <2>4 DEF Sound
<1>5. CASE CallMisreported(r) \/ CallOvertaken(r)
  <2>1. /\ doubt'[r]
        /\ pc'[r] \in {pc[r], AfterFailure[pc[r]]}
    BY <1>0, <1>5
    DEF CallMisreported, CallOvertaken, RetryOrFail, EndLeg, Goto, TypeOK
  <2>2. \A leg : Posted(r, leg)' => Posted(r, leg) \/ leg = pc[r]
    <3>1. CASE CallMisreported(r)
      BY <1>2, <3>1, Posting DEF CallMisreported
    <3>2. CASE CallOvertaken(r)
      BY <3>2 DEF CallOvertaken, Posted
    <3>3. QED
      BY <1>5, <3>1, <3>2
  <2>3. \A leg : Posted(r, leg) => Posted(r, leg)'
    <3>1. CASE CallMisreported(r)
      BY <1>2, <3>1, Posting DEF CallMisreported
    <3>2. CASE CallOvertaken(r)
      BY <3>2 DEF CallOvertaken, Posted
    <3>3. QED
      BY <1>5, <3>1, <3>2
  <2>4. \A c \in late' : c \in late \/ c.leg = pc[r]
    BY <1>2, <1>5 DEF CallMisreported, CallOvertaken
  <2>5. pc[r] # "debit" => Posted(r, "debit")
    BY <1>0 DEF Sound, MoneyOf, Legs
  <2>6. MoneyOf(r)'
    BY <1>0, <2>1, <2>3, <2>4, <2>5, LegEnds DEF Sound, MoneyOf, Legs
  <2>7. SourceOf(r)'
    <3>1. Posted(r, "debit")' \/ ~(Posted(r, "credit") \/ Posted(r, "comp"))'
      BY <1>0, <2>2, <2>3, <2>5 DEF Sound, SourceOf
    <3>2. QED
      BY <2>1, <3>1 DEF SourceOf
  <2>8. QED
    BY <1>1, <2>6, <2>7 DEF Sound
<1>6. QED
  BY <1>3, <1>4, <1>5

\* The other steps of a request.
LEMMA QuietMoney ==
    ASSUME IInv, NEW r \in Requests,
           \/ Begin(r)
           \/ Lookup(r)
           \/ CheckBalance(r)
           \/ Create(r)
           \/ Reread(r)
           \/ MarkProcessing(r)
           \/ MarkFailed(r)
           \/ MarkSuccess(r)
           \/ Publish(r)
           \/ Timeout(r)
    PROVE  Sound(r)'
<1>0. /\ TypeOK
      /\ Sound(r)
      /\ StandingOf(r)
      /\ StandingOf(r)'
  BY SoundIsEnough, OwnStanding DEF IInv, Step, Standing
<1>1. /\ UNCHANGED <<journal, late, doubt>>
      /\ \A leg : Posted(r, leg)' <=> Posted(r, leg)
  BY DEF Begin, Lookup, CheckBalance, Create, Reread, MarkProcessing, MarkFailed, MarkSuccess,
         Publish, Timeout, account, Posted
<1>2. SourceOf(r)'
  BY <1>0, <1>1 DEF Sound, SourceOf
<1>3. MoneyOf(r)'
  <2>1. pc'[r] \in {pc[r], "lookup", "check", "create", "reread", "processing", "debit",
                    "publish", "done"}
    BY <1>0
    DEF Begin, Lookup, CheckBalance, Create, Reread, MarkProcessing, MarkFailed, MarkSuccess,
        Publish, Timeout, Goto, Return, TypeOK
  <2>2. pc'[r] \in {"lookup", "check", "create", "reread", "processing", "debit"}
           => pc'[r] = pc[r] \/ pc[r] \in {"idle", "lookup", "check", "create", "processing"}
    BY <1>0
    DEF Begin, Lookup, CheckBalance, Create, Reread, MarkProcessing, MarkFailed, MarkSuccess,
        Publish, Timeout, Goto, Return, TypeOK
  <2>3. QED
    BY <1>0, <1>1, <2>1, <2>2 DEF Sound, MoneyOf
<1>4. MatchOf(r)'
  <2>1. CASE MarkFailed(r) /\ txns' # txns
    <3>1. /\ pc[r] \in Reasons
          /\ reason'[r] = pc[r]
          /\ ~Owned(r, "SUCCESS")'
      BY <1>0, <2>1, NewStatus DEF MarkFailed, Return, TypeOK, StandingOf
    <3>2. ~doubt[r] => ~Posted(r, "credit") /\ (pc[r] = "debit failed" => ~Posted(r, "debit"))
      BY <1>0, <3>1 DEF Sound, MoneyOf, Reasons, Legs
    <3>3. QED
      BY <1>1, <3>1, <3>2 DEF MatchOf
  <2>2. CASE MarkSuccess(r) /\ txns' # txns
    <3>1. pc[r] = "success" /\ ~Owned(r, "FAILED")'
      BY <1>0, <2>2, NewStatus DEF MarkSuccess, StandingOf
    <3>2. QED
      BY <1>0, <1>1, <3>1 DEF Sound, MoneyOf, MatchOf
  <2>3. CASE MarkProcessing(r) /\ txns' # txns
    <3>1. ~Owned(r, "SUCCESS")' /\ ~Owned(r, "FAILED")'
      BY <1>0, <2>3, NewStatus DEF MarkProcessing, StandingOf
    <3>2. QED
      BY <3>1 DEF MatchOf
  <2>4. CASE Create(r) /\ txns' # txns
    <3>1. pc'[r] \notin {"publish", "done"}
      BY <1>0, <2>4 DEF Create, Goto, TypeOK
    <3>2. ~Owned(r, "SUCCESS")' /\ ~Owned(r, "FAILED")'
      BY <1>0, <3>1 DEF StandingOf
    <3>3. QED
      BY <3>2 DEF MatchOf
  <2>5. CASE UNCHANGED txns
    <3>1. \A s : Owned(r, s)' <=> Owned(r, s)
      BY <2>5 DEF Owned
    <3>2. CASE UNCHANGED reason
      BY <1>0, <1>1, <3>1, <3>2 DEF Sound, MatchOf
    <3>3. CASE MarkFailed(r)
      <4>1. ~Owned(r, "FAILED") /\ ~Owned(r, "SUCCESS")
        BY <1>0, <3>3 DEF MarkFailed, StandingOf, Reasons
      <4>2. QED
        BY <3>1, <4>1 DEF MatchOf
    <3>4. QED
      BY <3>2, <3>3
      DEF Begin, Lookup, CheckBalance, Create, Reread, MarkProcessing, MarkSuccess, Publish,
          Timeout
  <2>6. QED
    BY <2>1, <2>2, <2>3, <2>4, <2>5
    DEF Begin, Lookup, CheckBalance, Reread, Publish, Timeout
<1>5. QED
  BY <1>2, <1>3, <1>4 DEF Sound

\* A call nobody waits for any more, when account-svc ends it.
LEMMA LateMoney ==
    ASSUME IInv, NEW c \in Calls, LateCallEnds(c), NEW q \in Requests
    PROVE  Sound(q)'
<1>0. /\ Sound(q)
      /\ c \in late
      /\ late' \subseteq late
      /\ UNCHANGED <<txns, pc, reason, doubt>>
      /\ \A s : Owned(q, s)' <=> Owned(q, s)
      /\ c.leg \in Legs
  BY SoundIsEnough, CallShape DEF IInv, LateCallEnds, Owned
<1>1. CASE UNCHANGED journal
  <2>1. \A leg : Posted(q, leg)' <=> Posted(q, leg)
    BY <1>1 DEF Posted
  <2>2. MoneyOf(q)'
    BY <1>0, <2>1 DEF Sound, MoneyOf
  <2>3. QED
    BY <1>0, <1>1, <2>1, <2>2, SameMoney
<1>2. CASE Apply(c)
  <2>1. /\ \A leg : Posted(q, leg)' <=> Posted(q, leg) \/ (c.req = q /\ leg = c.leg)
        /\ \A e \in journal' : e \in journal \/ e.call = c
    BY <1>2, Posting
  <2>2. CASE c.req # q
    <3>1. MoneyOf(q)'
      BY <1>0, <2>1, <2>2 DEF Sound, MoneyOf
    <3>2. QED
      BY <1>0, <2>1, <2>2, <3>1, SameMoney
  <2>3. CASE c.req = q
    <3>1. doubt[q] /\ (c.leg # "debit" => Posted(q, "debit"))
      BY <1>0, <2>3 DEF Sound, MoneyOf
    <3>2. MoneyOf(q)'
      BY <1>0, <2>1, <3>1 DEF Sound, MoneyOf
    <3>3. MatchOf(q)' /\ SourceOf(q)'
      BY <1>0, <2>1, <3>1 DEF Sound, MatchOf, SourceOf, Legs
    <3>4. QED
      BY <3>2, <3>3 DEF Sound
  <2>4. QED
    BY <2>2, <2>3
<1>3. QED
  BY <1>1, <1>2 DEF LateCallEnds

\* Every step keeps the money of every request sound.
LEMMA NextMoney ==
    IInv /\ [Next]_vars => Money' /\ MoneyHasASource' /\ StatusMatchesMoney'
<1> SUFFICES ASSUME IInv, [Next]_vars, NEW q \in Requests
             PROVE  Sound(q)'
  BY SoundIsEnough
<1>0. TypeOK /\ Sound(q)
  BY SoundIsEnough DEF IInv
<1>1. ASSUME NEW r \in Requests, Begin(r) \/ Step(r) \/ Timeout(r), r # q
      PROVE  Sound(q)'
  <2>1. /\ pc'[q] = pc[q]
        /\ reason'[q] = reason[q]
        /\ doubt'[q] = doubt[q]
        /\ \A s \in Ledger!TxnStatuses : Owned(q, s)' <=> Owned(q, s)
        /\ \A leg : Posted(q, leg)' <=> Posted(q, leg)
        /\ \A c \in late' : c.req = q => c \in late
        /\ \A e \in journal' : e.call.req = q => e \in journal
    BY <1>1, Others
  <2>2. MoneyOf(q)'
    BY <1>0, <2>1 DEF Sound, MoneyOf
  <2>3. MatchOf(q)'
    BY <1>0, <2>1 DEF Sound, MatchOf, Ledger!TxnStatuses
  <2>4. SourceOf(q)'
    BY <1>0, <2>1 DEF Sound, SourceOf
  <2>5. QED
    BY <2>2, <2>3, <2>4 DEF Sound
<1>2. ASSUME Begin(q) \/ Step(q) \/ Timeout(q)
      PROVE  Sound(q)'
  BY <1>2, LegMoney, QuietMoney DEF Step
<1>3. ASSUME NEW c \in Calls, LateCallEnds(c)
      PROVE  Sound(q)'
  BY <1>3, LateMoney
<1>4. CASE Crash \/ UNCHANGED vars
  <2>1. /\ UNCHANGED <<txns, reason, journal, late, doubt>>
        /\ pc'[q] \in {pc[q], "done"}
    BY <1>0, <1>4 DEF Crash, vars, account, TypeOK
  <2>2. /\ \A s : Owned(q, s)' <=> Owned(q, s)
        /\ \A leg : Posted(q, leg)' <=> Posted(q, leg)
    BY <2>1 DEF Owned, Posted
  <2>3. MoneyOf(q)'
    BY <1>0, <2>1, <2>2 DEF Sound, MoneyOf
  <2>4. QED
    BY <1>0, <2>1, <2>2, <2>3, SameMoney
<1>5. QED
  BY <1>1, <1>2, <1>3, <1>4 DEF Next

-----------------------------------------------------------------------------
\* The invariant holds for good.
THEOREM Invariant == Spec => []IInv
<1>1. IInv /\ [Next]_vars => OwnKey'
  BY TxnStays DEF OwnKey
<1>2. IInv /\ [Next]_vars => IInv'
  BY <1>1, NextTypeOK, NextStanding, NextAnswersStand, NextOneMover, NextMoney DEF IInv
<1>3. QED
  BY InitIInv, <1>2, PTL DEF Spec

\* Every variable keeps its type: among others, no balance leaves its range and no call is
\* attempted more than MaxAttempts times.
THEOREM TypeCorrect == Spec => []TypeOK
<1>1. IInv => TypeOK
  BY DEF IInv
<1>2. QED
  BY Invariant, <1>1, PTL

\* Only the request that opened the transaction of a key ever calls account-svc.
THEOREM KeyMovesMoneyOnce == Spec => []OneMover
<1>1. IInv => OneMover
  BY DEF IInv
<1>2. QED
  BY Invariant, <1>1, PTL

\* The status of a transaction agrees with what was posted for it.
THEOREM StatusAgrees == Spec => []StatusMatchesMoney
<1>1. IInv => StatusMatchesMoney
  BY DEF IInv
<1>2. QED
  BY Invariant, <1>1, PTL

\* No credit and no compensation without a debit; each at most once unless an answer was lost.
THEOREM NoMoneyFromNothing == Spec => []MoneyHasASource
<1>1. IInv => MoneyHasASource
  BY DEF IInv
<1>2. QED
  BY Invariant, <1>1, PTL

\* A terminal answer and a completed event stay true.
THEOREM LastingAnswers == Spec => []AnswersStand
<1>1. IInv => AnswersStand
  BY DEF IInv
<1>2. QED
  BY Invariant, <1>1, PTL

-----------------------------------------------------------------------------
\* What a caller has been answered, as the ledger sees it.
Answer == [r \in Requests |-> IF pc[r] \in {"idle", "done"} THEN reply[r] ELSE "running"]

\* Where a running request is after its step, and what it has answered.
LEMMA StepAnswers ==
    ASSUME IInv, NEW r \in Requests, Step(r)
    PROVE  /\ pc[r] \in Running
           /\ \/ pc'[r] \in Running
              \/ pc'[r] = "done" /\ reply'[r] = "error"
              \/ /\ pc'[r] = "done"
                 /\ txns'[Key[r]] # NoTxn
                 /\ reply'[r] = txns'[Key[r]].status
<1>0. TypeOK /\ StandingOf(r)
  BY DEF IInv, Standing
<1>1. CASE Lookup(r) \/ Reread(r)
  BY <1>0, <1>1 DEF Lookup, Reread, Goto, Return, TypeOK, Running
<1>2. CASE Publish(r)
  <2>1. txns[Key[r]].status = "SUCCESS" /\ txns[Key[r]] # NoTxn
    BY <1>0, <1>2, OwnedShape DEF Publish, StandingOf, Ledger!TxnStatuses
  <2>2. QED
    BY <1>0, <1>2, <2>1 DEF Publish, Return, TypeOK, Running
<1>3. CASE \/ CallSucceeds(r)
           \/ CallRefused(r)
           \/ CallFails(r)
           \/ CallMisreported(r)
           \/ CallOvertaken(r)
  <2>1. pc[r] \in Legs
    BY <1>3 DEF CallSucceeds, CallRefused, CallFails, CallMisreported, CallOvertaken
  <2>2. pc'[r] \in {pc[r], AfterSuccess[pc[r]], AfterFailure[pc[r]]}
    BY <1>0, <1>3
    DEF CallSucceeds, CallRefused, CallFails, CallMisreported, CallOvertaken, RetryOrFail,
        EndLeg, Goto, TypeOK
  <2>3. QED
    BY <1>0, <2>1, <2>2, LegEnds DEF Legs, Running
<1>4. CASE CheckBalance(r) \/ Create(r) \/ MarkProcessing(r) \/ MarkFailed(r) \/ MarkSuccess(r)
  BY <1>0, <1>4
  DEF CheckBalance, Create, MarkProcessing, MarkFailed, MarkSuccess, Goto, Return, TypeOK,
      Running, Reasons
<1>5. QED
  BY <1>1, <1>2, <1>3, <1>4 DEF Step

\* A request's step is one of the ledger.
LEMMA StepIsWork ==
    ASSUME IInv, NEW r \in Requests, Step(r)
    PROVE  Ledger!Work(r)
<1>0. TypeOK /\ Key[r] \in Keys
  BY RequestShape DEF IInv, TypeOK
<1>1. /\ pc[r] \in Running
      /\ \/ pc'[r] \in Running
         \/ pc'[r] = "done" /\ reply'[r] = "error"
         \/ /\ pc'[r] = "done"
            /\ txns'[Key[r]] # NoTxn
            /\ reply'[r] = txns'[Key[r]].status
  BY StepAnswers
<1>2. "idle" \notin Running /\ "done" \notin Running
  BY DEF Running, Reasons
<1>3. Answer[r] = "running"
  BY <1>1, <1>2 DEF Answer
<1>4. Ledger!Opens(r) \/ Ledger!Moves(r) \/ UNCHANGED txns
  <2>1. ASSUME NEW s \in Ledger!TxnStatuses, Owned(r, s),
               NEW t \in Ledger!TxnStatuses, <<s, t>> \in Ledger!Forward,
               txns' = [txns EXCEPT ![Key[r]].status = t]
        PROVE  Ledger!Moves(r)
    BY <2>1, OwnedShape DEF Ledger!Moves
  <2>2. QED
    BY <2>1, OwnStep
    DEF Ledger!Opens, NoTxn, Reasons, Ledger!TxnStatuses, Ledger!Forward
<1>5. \A q \in Requests \ {r} : Answer'[q] = Answer[q]
  BY Others DEF Answer
<1>6. \/ UNCHANGED Answer
      \/ Answer' = [Answer EXCEPT ![r] = "error"]
      \/ /\ txns'[Key[r]] # NoTxn
         /\ Answer' = [Answer EXCEPT ![r] = txns'[Key[r]].status]
  <2>1. Answer'[r] = IF pc'[r] \in {"idle", "done"} THEN reply'[r] ELSE "running"
    BY DEF Answer
  <2>2. \/ Answer'[r] = Answer[r]
        \/ Answer'[r] = "error"
        \/ txns'[Key[r]] # NoTxn /\ Answer'[r] = txns'[Key[r]].status
    BY <1>1, <1>2, <1>3, <2>1
  <2>3. ASSUME NEW x, Answer'[r] = x
        PROVE  Answer' = [Answer EXCEPT ![r] = x]
    BY <1>5, <2>3 DEF Answer
  <2>4. Answer'[r] = Answer[r] => Answer' = Answer
    BY <1>5 DEF Answer
  <2>5. QED
    BY <2>2, <2>3, <2>4
<1>7. QED
  BY <1>3, <1>4, <1>6 DEF Answer, Ledger!Work, NoTxn

\* The orchestrator implements the ledger, on which PaymentFlows is built.
THEOREM Refinement == Spec => ImplementsLedger
<1>1. Init => Ledger!LedgerInit
  BY DEF Init, Ledger!LedgerInit, NoTxn
<1>2. ASSUME IInv, [Next]_vars
      PROVE  [Ledger!LedgerNext]_(Ledger!ledgerVars)
  <2>0. TypeOK /\ Standing
    BY <1>2 DEF IInv
  <2>1. ASSUME NEW r \in Requests, Begin(r)
        PROVE  Ledger!Ask(r)
    <3>1. /\ pc[r] = "idle"
          /\ reply[r] = "none"
          /\ pc' = [pc EXCEPT ![r] = "lookup"]
          /\ UNCHANGED <<txns, reply>>
      BY <2>0, <2>1 DEF Begin, Goto, Standing, StandingOf
    <3>2. Answer[r] = "none" /\ Answer' = [Answer EXCEPT ![r] = "running"]
      BY <2>0, <3>1 DEF Answer, TypeOK
    <3>3. QED
      BY <3>1, <3>2 DEF Answer, Ledger!Ask
  <2>2. ASSUME NEW r \in Requests, Step(r)
        PROVE  Ledger!Work(r)
    BY <1>2, <2>2, StepIsWork
  <2>3. CASE Crash
    <3>1. UNCHANGED txns
      BY <2>3 DEF Crash
    <3>2. ASSUME NEW q \in Requests
          PROVE  Answer'[q] = IF Answer[q] = "running" THEN "error" ELSE Answer[q]
      <4>1. CASE pc[q] \in Running
        BY <2>3, <4>1 DEF Crash, Answer, Running, Reasons
      <4>2. CASE pc[q] \in {"idle", "done"}
        <5>1. reply[q] # "running" /\ pc[q] \notin Running
          BY <2>0, <4>2 DEF TypeOK, Ledger!TxnStatuses, Running, Reasons
        <5>2. QED
          BY <2>3, <4>2, <5>1 DEF Crash, Answer
      <4>3. QED
        BY <2>0, <4>1, <4>2 DEF TypeOK
    <3>3. Answer' = [q \in Requests |-> IF Answer[q] = "running" THEN "error" ELSE Answer[q]]
      BY <3>2 DEF Answer
    <3>4. QED
      BY <3>1, <3>3 DEF Answer, Ledger!LedgerNext, Ledger!LedgerCrash
  <2>4. CASE UNCHANGED <<txns, pc, reply>>
    BY <2>4 DEF Ledger!ledgerVars
  <2>5. QED
    BY <1>2, <2>1, <2>2, <2>3, <2>4 DEF Next, vars, Timeout, LateCallEnds, Ledger!LedgerNext
<1>3. QED
  BY <1>1, <1>2, Invariant, PTL DEF Spec, ImplementsLedger, Ledger!LedgerSpec

-----------------------------------------------------------------------------
\* What account-svc does for a call is one posting of the book.
LEMMA ApplyIsPosting ==
    ASSUME NEW c \in Calls, Apply(c)
    PROVE  Book!BookNext
BY CallShape DEF Apply, Book!BookNext

\* The account calls of the payments drive account-svc as AccountBook allows: whatever the
\* client repeats, stops waiting for or misreads, each step of payment-svc is at most one
\* posting, of one call that had not posted before, and every other step leaves the books alone.
THEOREM PostsToTheBook == Spec => Book!BookSpec
<1>1. Init => Book!BookInit
  BY DEF Init
<1>2. ASSUME IInv, [Next]_vars
      PROVE  [Book!BookNext]_(Book!bookVars)
  <2>0. TypeOK
    BY <1>2 DEF IInv
  <2>1. ASSUME NEW r \in Requests, CallSucceeds(r) \/ CallMisreported(r)
        PROVE  Book!BookNext
    <3>1. pc[r] \in Legs /\ Apply(NextCall(r))
      BY <2>1 DEF CallSucceeds, CallMisreported
    <3>2. QED
      BY <2>0, <3>1, NextCallShape, ApplyIsPosting
  <2>2. ASSUME NEW c \in Calls, LateCallEnds(c)
        PROVE  Book!BookNext \/ UNCHANGED Book!bookVars
    BY <2>2, ApplyIsPosting DEF LateCallEnds, Book!bookVars
  <2>3. ASSUME NEW r \in Requests, Step(r), ~CallSucceeds(r), ~CallMisreported(r)
        PROVE  UNCHANGED Book!bookVars
    BY <2>3
    DEF Step, Lookup, CheckBalance, Create, Reread, MarkProcessing, CallRefused, CallFails,
        CallOvertaken, MarkFailed, MarkSuccess, Publish, account, Book!bookVars
  <2>4. ASSUME NEW r \in Requests, Begin(r) \/ Timeout(r)
        PROVE  UNCHANGED Book!bookVars
    BY <2>4 DEF Begin, Timeout, account, Book!bookVars
  <2>5. CASE Crash \/ UNCHANGED vars
    BY <2>5 DEF Crash, account, vars, Book!bookVars
  <2>6. QED
    BY <1>2, <2>1, <2>2, <2>3, <2>4, <2>5 DEF Next
<1>3. QED
  BY <1>1, <1>2, Invariant, PTL DEF Spec, Book!BookSpec

Books == INSTANCE AccountBook_proofs

\* All the money that moved is in the journal: every balance is its opening balance plus what
\* was posted to it, so a repeated, overtaken or misreported call never moves money unseen.
THEOREM MoneyIsAccountedFor == Spec => []Book!BalanceIsJournalSum
<1>1. Books!Numbers
  BY PaymentAssumption DEF Books!Numbers
<1>2. Books!BookSpec => [](Books!BookTypeOK /\ Books!BalanceIsJournalSum)
  BY <1>1, Books!BooksBalance
<1>3. Books!BookInit <=> Book!BookInit
  BY DEF Books!BookInit, Book!BookInit
<1>4. [Books!BookNext]_(Books!bookVars) <=> [Book!BookNext]_(Book!bookVars)
  BY DEF Books!BookNext, Books!Post, Books!Deltas, Books!bookVars,
         Book!BookNext, Book!Post, Book!Deltas, Book!bookVars
<1>5. Books!BalanceIsJournalSum <=> Book!BalanceIsJournalSum
  BY DEF Books!BalanceIsJournalSum, Books!Posted, Books!MapThenSumSet, Books!MapThenFoldSet,
         Book!BalanceIsJournalSum, Book!Posted, Book!MapThenSumSet, Book!MapThenFoldSet
<1>6. QED
  BY PostsToTheBook, <1>2, <1>3, <1>4, <1>5, PTL DEF Book!BookSpec, Books!BookSpec
=============================================================================
