------------------------ MODULE PaymentFlows_proofs ------------------------
(***************************************************************************)
(* Payments for customers: what holds of PaymentFlows for any requests,    *)
(* keys and charges, and of QrisCode, the way from a printed code to its   *)
(* payment, for any merchants, orders and garbled characters.              *)
(***************************************************************************)
EXTENDS PaymentFlows, QrisCode, SequenceTheorems, WellFoundedInduction, TLAPS

-----------------------------------------------------------------------------
(***************************************************************************)
(* The flows.                                                              *)
(*                                                                         *)
(* The argument: a transaction lies under its own key and a SUCCESS never  *)
(* changes, so an answer SUCCESS is still true when the charge is written, *)
(* and what a refund read of its original still holds when it is opened.   *)
(***************************************************************************)

\* A transaction lies under the key of the request that opened it.
OwnKey == \A k \in Keys : txns[k] # NoTxn => Key[txns[k].id] = k

\* A request that was answered SUCCESS finds it under its key for good.
SuccessStands ==
    \A r \in Requests : answer[r] = "SUCCESS" => txns[Key[r]].status = "SUCCESS"

\* What a flow has read still holds where it acts on it.
FlowPhases ==
    \A r \in Requests :
        /\ pc[r] = "existing" => Flow[r].kind = "refund"
        /\ Flow[r].kind = "refund" /\ (pc[r] \in {"existing", "ask", "move"} \/ Exists(r)) =>
               Row(Flow[r].ref) = [id |-> Flow[r].ref, status |-> "SUCCESS"]
        /\ Flow[r].kind = "charge" /\ pc[r] \in {"ask", "move"} =>
               charges[Flow[r].ref] # NoCharge
        /\ outcome[r] = "ok" => pc[r] = "done" /\ answer[r] \in TxnStatuses

\* The inductive invariant.
IInv ==
    /\ TypeOK
    /\ OwnKey
    /\ SuccessStands
    /\ FlowPhases
    /\ PaidBySuccess
    /\ SuccessMeansPaid

-----------------------------------------------------------------------------
\* The two shapes of a flow.
LEMMA FlowShape ==
    ASSUME NEW r \in Requests
    PROVE  /\ Key[r] \in Keys
           /\ Flow[r].kind \in {"charge", "scan", "refund"}
           /\ Flow[r].kind = "refund" => Flow[r].ref \in Requests
           /\ Flow[r].kind # "refund" => Flow[r].ref \in Charges
BY LedgerAssumption, FlowAssumption DEF Flows

\* What a row of the transactions table is.
LEMMA TxnShape ==
    ASSUME LedgerTypeOK, OwnKey, NEW k \in Keys
    PROVE  /\ txns[k].status = "none" <=> txns[k] = NoTxn
           /\ txns[k].id \in Requests <=> txns[k] # NoTxn
           /\ txns[k] # NoTxn => /\ txns[k].status \in TxnStatuses
                                 /\ Key[txns[k].id] = k
                                 /\ txns[k] = [id |-> txns[k].id, status |-> txns[k].status]
BY LedgerAssumption DEF LedgerTypeOK, OwnKey, Txns, NoTxn, TxnStatuses

\* The orchestrator's step changes only the transaction of its own request, never one that
\* is a SUCCESS, and answers with what it leaves under the key.
LEMMA WorkStep ==
    ASSUME LedgerTypeOK, OwnKey, NEW r \in Requests, Work(r)
    PROVE  /\ LedgerTypeOK'
           /\ OwnKey'
           /\ \A k \in Keys : txns[k].status = "SUCCESS" => txns'[k] = txns[k]
           /\ \A k \in Keys : txns'[k].id \in {r, txns[k].id}
           /\ \A q \in Requests \ {r} : answer'[q] = answer[q]
           /\ answer'[r] = "SUCCESS" => txns'[Key[r]].status = "SUCCESS"
<1> DEFINE k0 == Key[r]
<1>0. /\ k0 \in Keys
      /\ txns \in [Keys -> Txns]
      /\ answer \in [Requests -> {"none", "running", "error"} \cup TxnStatuses]
  BY LedgerAssumption DEF LedgerTypeOK
<1>1. \/ Opens(r)
      \/ Moves(r)
      \/ UNCHANGED txns
  BY DEF Work
<1>2. /\ txns' \in [Keys -> Txns]
      /\ \A k \in Keys : k # k0 => txns'[k] = txns[k]
      /\ \/ txns'[k0] = txns[k0]
         \/ /\ txns[k0] = NoTxn
            /\ txns'[k0] = [id |-> r, status |-> "PENDING"]
         \/ /\ txns[k0] # NoTxn
            /\ txns[k0].status \in {"PENDING", "PROCESSING"}
            /\ txns'[k0].id = txns[k0].id
            /\ txns'[k0].status \in TxnStatuses
  <2>1. CASE Opens(r)
    BY <2>1, <1>0 DEF Opens, Txns, TxnStatuses
  <2>2. CASE Moves(r)
    <3>1. PICK s \in TxnStatuses : /\ <<txns[k0].status, s>> \in Forward
                                   /\ txns' = [txns EXCEPT ![k0].status = s]
      BY <2>2 DEF Moves
    <3>2. txns[k0].status \in {"PENDING", "PROCESSING"}
      BY <3>1 DEF Forward
    <3>3. txns[k0] \in [id : Requests, status : TxnStatuses] /\ txns[k0] # NoTxn
      BY <3>2, <1>0 DEF Txns, NoTxn
    <3>4. QED
      BY <3>1, <3>2, <3>3, <1>0 DEF Txns
  <2>3. CASE UNCHANGED txns
    BY <2>3, <1>0
  <2>4. QED
    BY <1>1, <2>1, <2>2, <2>3
<1>3. /\ answer' \in [Requests -> {"none", "running", "error"} \cup TxnStatuses]
      /\ \A q \in Requests \ {r} : answer'[q] = answer[q]
      /\ answer'[r] = "SUCCESS" => txns'[Key[r]].status = "SUCCESS"
  <2>1. CASE UNCHANGED answer
    BY <2>1, <1>0 DEF Work
  <2>2. CASE answer' = [answer EXCEPT ![r] = "error"]
    BY <2>2, <1>0
  <2>3. CASE /\ txns'[Key[r]] # NoTxn
             /\ answer' = [answer EXCEPT ![r] = txns'[Key[r]].status]
    BY <2>3, <1>0, <1>2 DEF Txns
  <2>4. QED
    BY <2>1, <2>2, <2>3 DEF Work
<1>4. LedgerTypeOK'
  BY <1>2, <1>3 DEF LedgerTypeOK
<1>5. OwnKey'
  <2>1. ASSUME NEW k \in Keys, txns'[k] # NoTxn
        PROVE  Key[txns'[k].id] = k
    BY <2>1, <1>2 DEF OwnKey, NoTxn
  <2>2. QED
    BY <2>1 DEF OwnKey
<1>6. \A k \in Keys : txns[k].status = "SUCCESS" => txns'[k] = txns[k]
  BY <1>2, LedgerAssumption DEF NoTxn
<1>7. \A k \in Keys : txns'[k].id \in {r, txns[k].id}
  BY <1>2
<1>8. QED
  BY <1>3, <1>4, <1>5, <1>6, <1>7

\* The initial states satisfy the invariant.
LEMMA InitIInv == Init => IInv
<1> SUFFICES ASSUME Init
             PROVE  IInv
  OBVIOUS
<1>1. \A r \in Requests : Key[r] \in Keys
  BY LedgerAssumption
<1>2. TypeOK
  BY DEF Init, LedgerInit, TypeOK, LedgerTypeOK, Txns
<1>3. OwnKey /\ SuccessStands /\ PaidBySuccess
  BY DEF Init, LedgerInit, OwnKey, SuccessStands, PaidBySuccess, NoCharge
<1>4. FlowPhases
  BY <1>1, LedgerAssumption DEF Init, LedgerInit, FlowPhases, Exists, Row, NoTxn
<1>5. SuccessMeansPaid
  BY DEF Init, LedgerInit, SuccessMeansPaid
<1>6. QED
  BY <1>2, <1>3, <1>4, <1>5 DEF IInv

\* A charge that is PAID never changes.
LEMMA PaidStays ==
    ASSUME IInv, [Next]_vars, NEW c \in Charges
    PROVE  /\ charges[c].status = "PAID" => charges'[c] = charges[c]
           /\ charges[c] # NoCharge => charges'[c] # NoCharge
<1> USE DEF NoCharge, NewCharge, IInv, TypeOK
<1>1. ASSUME NEW d \in Charges, GenerateCharge(d)
      PROVE  /\ charges[c].status = "PAID" => charges'[c] = charges[c]
             /\ charges[c] # NoCharge => charges'[c] # NoCharge
  BY <1>1 DEF GenerateCharge
<1>2. ASSUME NEW r \in Requests, SettleCharge(r)
      PROVE  /\ charges[c].status = "PAID" => charges'[c] = charges[c]
             /\ charges[c] # NoCharge => charges'[c] # NoCharge
  BY <1>2 DEF SettleCharge, Unsettled
<1>3. CASE UNCHANGED charges
  BY <1>3
<1>4. QED
  BY <1>1, <1>2, <1>3
  DEF Next, vars, ResolveCharge, ResolveString, ReadOriginal, ReadExistingRefund,
      CallOrchestrator, Orchestrate, ReturnAnswer, FlowFails, Crash

\* Every step keeps the ledger sound: the first half of the invariant.
LEMMA LedgerPart ==
    ASSUME IInv, [Next]_vars
    PROVE  /\ LedgerTypeOK'
           /\ OwnKey'
           /\ SuccessStands'
           /\ \A k \in Keys : txns[k].status = "SUCCESS" => txns'[k] = txns[k]
<1> DEFINE Goal == /\ LedgerTypeOK'
                   /\ OwnKey'
                   /\ SuccessStands'
                   /\ \A k \in Keys : txns[k].status = "SUCCESS" => txns'[k] = txns[k]
<1>0. /\ LedgerTypeOK
      /\ OwnKey
      /\ SuccessStands
      /\ \A r \in Requests : Key[r] \in Keys
  BY LedgerAssumption DEF IInv, TypeOK
<1>1. ASSUME NEW r \in Requests, Orchestrate(r)
      PROVE  Goal
  <2>1. Work(r)
    BY <1>1 DEF Orchestrate
  <2>2. /\ LedgerTypeOK'
        /\ OwnKey'
        /\ \A k \in Keys : txns[k].status = "SUCCESS" => txns'[k] = txns[k]
        /\ \A q \in Requests \ {r} : answer'[q] = answer[q]
        /\ answer'[r] = "SUCCESS" => txns'[Key[r]].status = "SUCCESS"
    BY <1>0, <2>1, WorkStep
  <2>3. SuccessStands'
    BY <1>0, <2>2 DEF SuccessStands
  <2>4. QED
    BY <2>2, <2>3
<1>2. ASSUME NEW r \in Requests, CallOrchestrator(r)
      PROVE  Goal
  BY <1>0, <1>2 DEF CallOrchestrator, Ask, LedgerTypeOK, OwnKey, SuccessStands
<1>3. CASE Crash
  BY <1>0, <1>3 DEF Crash, LedgerCrash, LedgerTypeOK, OwnKey, SuccessStands
<1>4. CASE UNCHANGED <<txns, answer>>
  BY <1>0, <1>4 DEF LedgerTypeOK, OwnKey, SuccessStands
<1>5. QED
  BY <1>1, <1>2, <1>3, <1>4
  DEF Next, vars, GenerateCharge, ResolveCharge, ResolveString, ReadOriginal,
      ReadExistingRefund, ReturnAnswer, SettleCharge, FlowFails

\* The transaction that SettleCharge names: the one that lies under the key of r.
LEMMA SettlingTxn ==
    ASSUME IInv, NEW r \in Requests, answer[r] = "SUCCESS"
    PROVE  /\ Row(r).id \in Requests
           /\ Key[Row(r).id] = Key[r]
           /\ Row(Row(r).id) = [id |-> Row(r).id, status |-> "SUCCESS"]
<1>1. Row(r).status = "SUCCESS" /\ Key[r] \in Keys
  BY LedgerAssumption DEF IInv, SuccessStands, Row
<1>2. Row(r) # NoTxn
  BY <1>1 DEF NoTxn
<1>3. /\ Row(r).id \in Requests
      /\ Key[Row(r).id] = Key[r]
      /\ Row(r) = [id |-> Row(r).id, status |-> Row(r).status]
  BY <1>1, <1>2, TxnShape DEF IInv, TypeOK, Row
<1>4. QED
  BY <1>1, <1>3 DEF Row

\* An answer of success is final.
LEMMA SuccessIsFinal ==
    ASSUME IInv, [Next]_vars, NEW r \in Requests, answer[r] = "SUCCESS"
    PROVE  answer'[r] = "SUCCESS"
<1>0. answer \in [Requests -> {"none", "running", "error"} \cup TxnStatuses]
  BY DEF IInv, TypeOK, LedgerTypeOK
<1>1. ASSUME NEW q \in Requests, Orchestrate(q)
      PROVE  answer'[r] = "SUCCESS"
  BY <1>0, <1>1 DEF Orchestrate, Work
<1>2. ASSUME NEW q \in Requests, CallOrchestrator(q)
      PROVE  answer'[r] = "SUCCESS"
  BY <1>0, <1>2 DEF CallOrchestrator, Ask
<1>3. CASE Crash
  BY <1>0, <1>3 DEF Crash, LedgerCrash
<1>4. CASE UNCHANGED answer
  BY <1>4
<1>5. QED
  BY <1>1, <1>2, <1>3, <1>4
  DEF Next, vars, GenerateCharge, ResolveCharge, ResolveString, ReadOriginal,
      ReadExistingRefund, ReturnAnswer, SettleCharge, FlowFails

\* The types are preserved.
LEMMA NextTypeOK == IInv /\ [Next]_vars => TypeOK'
<1> SUFFICES ASSUME IInv, [Next]_vars
             PROVE  TypeOK'
  OBVIOUS
<1> USE DEF IInv, TypeOK, Goto, Respond
<1>0. LedgerTypeOK'
  BY LedgerPart
<1>1. ASSUME NEW c \in Charges, GenerateCharge(c)
      PROVE  TypeOK'
  BY <1>0, <1>1 DEF GenerateCharge
<1>2. ASSUME NEW r \in Requests, ResolveCharge(r)
      PROVE  TypeOK'
  BY <1>0, <1>2 DEF ResolveCharge
<1>3. ASSUME NEW r \in Requests, ResolveString(r)
      PROVE  TypeOK'
  BY <1>0, <1>3 DEF ResolveString
<1>4. ASSUME NEW r \in Requests, ReadOriginal(r)
      PROVE  TypeOK'
  BY <1>0, <1>4 DEF ReadOriginal
<1>5. ASSUME NEW r \in Requests, ReadExistingRefund(r)
      PROVE  TypeOK'
  BY <1>0, <1>5 DEF ReadExistingRefund
<1>6. ASSUME NEW r \in Requests, CallOrchestrator(r)
      PROVE  TypeOK'
  BY <1>0, <1>6 DEF CallOrchestrator
<1>7. ASSUME NEW r \in Requests, Orchestrate(r)
      PROVE  TypeOK'
  BY <1>0, <1>7 DEF Orchestrate
<1>8. ASSUME NEW r \in Requests, ReturnAnswer(r)
      PROVE  TypeOK'
  BY <1>0, <1>8 DEF ReturnAnswer
<1>9. ASSUME NEW r \in Requests, SettleCharge(r)
      PROVE  TypeOK'
  <2>1. Row(r).id \in Requests
    BY <1>9, SettlingTxn DEF SettleCharge
  <2>2. charges' \in [Charges ->
            {NoCharge, NewCharge} \cup [status : {"PAID"}, paidBy : Requests]]
    BY <1>9, <2>1 DEF SettleCharge
  <2>3. QED
    BY <1>0, <1>9, <2>2 DEF SettleCharge
<1>10. ASSUME NEW r \in Requests, FlowFails(r)
       PROVE  TypeOK'
  BY <1>0, <1>10 DEF FlowFails
<1>11. CASE Crash
  BY <1>0, <1>11 DEF Crash
<1>12. CASE UNCHANGED vars
  BY <1>0, <1>12 DEF vars
<1>13. QED
  BY <1>1, <1>2, <1>3, <1>4, <1>5, <1>6, <1>7, <1>8, <1>9, <1>10, <1>11, <1>12 DEF Next

\* What was read stays true: the phases are preserved.
LEMMA NextFlowPhases == IInv /\ [Next]_vars => FlowPhases'
<1> SUFFICES ASSUME IInv, [Next]_vars
             PROVE  FlowPhases'
  OBVIOUS
<1> USE DEF IInv, TypeOK
<1>0. /\ \A k \in Keys : txns[k].status = "SUCCESS" => txns'[k] = txns[k]
      /\ \A c \in Charges : charges[c] # NoCharge => charges'[c] # NoCharge
      /\ LedgerTypeOK'
  BY LedgerPart, PaidStays
<1>1. ASSUME NEW q \in Requests, Flow[q].kind = "refund",
             Row(Flow[q].ref) = [id |-> Flow[q].ref, status |-> "SUCCESS"]
      PROVE  (Row(Flow[q].ref) = [id |-> Flow[q].ref, status |-> "SUCCESS"])'
  BY <1>0, <1>1, FlowShape DEF Row
<1>2. \* Refunds: what InitiateRefund read.
      ASSUME NEW q \in Requests, Flow[q].kind = "refund",
             pc'[q] \in {"existing", "ask", "move"} \/ Exists(q)'
      PROVE  Row(Flow[q].ref) = [id |-> Flow[q].ref, status |-> "SUCCESS"]
  <2>1. CASE pc[q] \in {"existing", "ask", "move"} \/ Exists(q)
    BY <1>2, <2>1 DEF FlowPhases
  <2>2. CASE ~(pc[q] \in {"existing", "ask", "move"} \/ Exists(q))
    <3>1. ASSUME NEW r \in Requests, Orchestrate(r)
          PROVE  FALSE
      <4>1. pc[r] = "move" /\ Work(r) /\ UNCHANGED pc
        BY <3>1 DEF Orchestrate
      <4>2. txns'[Key[q]].id \in {r, txns[Key[q]].id}
        BY <4>1, FlowShape, WorkStep
      <4>3. QED
        BY <1>2, <2>2, <4>1, <4>2 DEF Exists, Row
    <3>2. CASE UNCHANGED txns
      <4>1. ASSUME NEW r \in Requests, ReadOriginal(r)
            PROVE  Row(Flow[q].ref) = [id |-> Flow[q].ref, status |-> "SUCCESS"]
        <5>1. r = q
          BY <1>2, <2>2, <3>2, <4>1 DEF ReadOriginal, Goto, Respond, Exists, Row
        <5>2. Exists(Flow[q].ref) /\ Row(Flow[q].ref).status = "SUCCESS"
          BY <1>2, <2>2, <3>2, <4>1, <5>1 DEF ReadOriginal, Goto, Respond, Exists, Row
        <5>3. Row(Flow[q].ref) # NoTxn
          BY <5>2 DEF NoTxn
        <5>4. QED
          BY <1>2, <5>2, <5>3, FlowShape, TxnShape DEF Exists, Row
      <4>2. CASE \A r \in Requests : ~ReadOriginal(r)
        BY <1>2, <2>2, <3>2, <4>2
        DEF Next, vars, GenerateCharge, ResolveCharge, ResolveString, ReadExistingRefund,
            CallOrchestrator, Orchestrate, ReturnAnswer, SettleCharge, FlowFails, Crash,
            Goto, Respond, Exists, Row
      <4>3. QED
        BY <4>1, <4>2
    <3>3. QED
      BY <3>1, <3>2
      DEF Next, vars, GenerateCharge, ResolveCharge, ResolveString, ReadOriginal,
          ReadExistingRefund, CallOrchestrator, Ask, ReturnAnswer, SettleCharge, FlowFails,
          Crash, LedgerCrash
  <2>3. QED
    BY <2>1, <2>2
<1>3. \* Payments: the charge exists.
      ASSUME NEW q \in Requests, Flow[q].kind = "charge", pc'[q] \in {"ask", "move"}
      PROVE  charges'[Flow[q].ref] # NoCharge
  <2>1. CASE pc[q] \in {"ask", "move"}
    BY <1>0, <1>3, <2>1, FlowShape DEF FlowPhases
  <2>2. CASE pc[q] \notin {"ask", "move"}
    <3>1. charges[Flow[q].ref] # NoCharge
      <4>1. ASSUME NEW r \in Requests, ResolveCharge(r)
            PROVE  charges[Flow[q].ref] # NoCharge
        BY <1>3, <2>2, <4>1 DEF ResolveCharge, Goto, Respond, NoCharge
      <4>2. ASSUME NEW r \in Requests, ReadExistingRefund(r)
            PROVE  FALSE
        BY <1>3, <2>2, <4>2 DEF ReadExistingRefund, Goto, Respond, FlowPhases
      <4>3. CASE \A r \in Requests : ~ResolveCharge(r) /\ ~ReadExistingRefund(r)
        BY <1>3, <2>2, <4>3
        DEF Next, vars, GenerateCharge, ResolveString, ReadOriginal, CallOrchestrator,
            Orchestrate, ReturnAnswer, SettleCharge, FlowFails, Crash, Goto, Respond
      <4>4. QED
        BY <4>1, <4>2, <4>3
    <3>2. QED
      BY <1>0, <1>3, <3>1, FlowShape
  <2>3. QED
    BY <2>1, <2>2
<1>4. \* Who was told "ok" is done and has an answer.
      ASSUME NEW q \in Requests, outcome'[q] = "ok"
      PROVE  pc'[q] = "done" /\ answer'[q] \in TxnStatuses
  <2>1. CASE outcome[q] = "ok"
    <3>1. pc[q] = "done" /\ answer[q] \in TxnStatuses
      BY <2>1 DEF FlowPhases
    <3>2. pc'[q] = "done"
      BY <3>1
      DEF Next, vars, GenerateCharge, ResolveCharge, ResolveString, ReadOriginal,
          ReadExistingRefund, CallOrchestrator, Orchestrate, ReturnAnswer, SettleCharge,
          FlowFails, Crash, Goto, Respond
    <3>3. answer'[q] = answer[q]
      <4>1. ASSUME NEW r \in Requests, Orchestrate(r)
            PROVE  answer'[q] = answer[q]
        BY <3>1, <4>1, WorkStep DEF Orchestrate
      <4>2. ASSUME NEW r \in Requests, CallOrchestrator(r)
            PROVE  answer'[q] = answer[q]
        BY <3>1, <4>2 DEF CallOrchestrator, Ask, LedgerTypeOK
      <4>3. CASE Crash
        BY <3>1, <4>3 DEF Crash, LedgerCrash, TxnStatuses
      <4>4. CASE UNCHANGED answer
        BY <4>4
      <4>5. QED
        BY <4>1, <4>2, <4>3, <4>4
        DEF Next, vars, GenerateCharge, ResolveCharge, ResolveString, ReadOriginal,
            ReadExistingRefund, ReturnAnswer, SettleCharge, FlowFails
    <3>4. QED
      BY <3>1, <3>2, <3>3
  <2>2. CASE outcome[q] # "ok"
    <3>1. \E r \in Requests : ReturnAnswer(r) \/ SettleCharge(r)
      BY <1>4, <2>2
      DEF Next, vars, GenerateCharge, ResolveCharge, ResolveString, ReadOriginal,
          ReadExistingRefund, CallOrchestrator, Orchestrate, FlowFails, Crash, Goto, Respond
    <3>2. PICK r \in Requests : ReturnAnswer(r) \/ SettleCharge(r)
      BY <3>1
    <3>3. r = q
      BY <1>4, <2>2, <3>2 DEF ReturnAnswer, SettleCharge, Respond
    <3>4. QED
      BY <1>4, <3>2, <3>3 DEF ReturnAnswer, SettleCharge, Respond, TxnStatuses
  <2>3. QED
    BY <2>1, <2>2
<1>5. \* Only refunds look for an existing one.
      ASSUME NEW q \in Requests, pc'[q] = "existing"
      PROVE  Flow[q].kind = "refund"
  <2>1. CASE \E r \in Requests : ReadOriginal(r)
    BY <1>5, <2>1 DEF ReadOriginal, Goto, Respond, FlowPhases
  <2>2. CASE \A r \in Requests : ~ReadOriginal(r)
    <3>1. pc[q] = "existing"
      BY <1>5, <2>2
      DEF Next, vars, GenerateCharge, ResolveCharge, ResolveString, ReadExistingRefund,
          CallOrchestrator, Orchestrate, ReturnAnswer, SettleCharge, FlowFails, Crash,
          Goto, Respond
    <3>2. QED
      BY <3>1 DEF FlowPhases
  <2>3. QED
    BY <2>1, <2>2
<1>6. QED
  BY <1>1, <1>2, <1>3, <1>4, <1>5 DEF FlowPhases

\* What PaidBySuccess says of one charge.
LEMMA PayerOf ==
    ASSUME PaidBySuccess, NEW c \in Charges, charges[c].status = "PAID"
    PROVE  /\ Row(charges[c].paidBy) = [id |-> charges[c].paidBy, status |-> "SUCCESS"]
           /\ \E r \in Requests : /\ Flow[r] = [kind |-> "charge", ref |-> c]
                                 /\ Key[r] = Key[charges[c].paidBy]
                                 /\ answer[r] = "SUCCESS"
BY Zenon DEF PaidBySuccess

\* The charge and its payer: preserved.
LEMMA NextPaidBySuccess == IInv /\ [Next]_vars => PaidBySuccess'
<1> SUFFICES ASSUME IInv, [Next]_vars,
                    NEW c \in Charges, charges'[c].status = "PAID"
             PROVE  /\ txns'[Key[charges'[c].paidBy]]
                           = [id |-> charges'[c].paidBy, status |-> "SUCCESS"]
                    /\ \E r \in Requests : /\ Flow[r] = [kind |-> "charge", ref |-> c]
                                          /\ Key[r] = Key[charges'[c].paidBy]
                                          /\ answer'[r] = "SUCCESS"
  BY DEF PaidBySuccess, Row
<1> USE DEF IInv, TypeOK
<1>0. \A k \in Keys : txns[k].status = "SUCCESS" => txns'[k] = txns[k]
  BY LedgerPart
<1>1. CASE charges[c].status = "PAID"
  <2>1. /\ charges'[c] = charges[c]
        /\ charges[c].paidBy \in Requests
    BY <1>1, PaidStays DEF NoCharge, NewCharge
  <2>2. /\ Row(charges[c].paidBy) = [id |-> charges[c].paidBy, status |-> "SUCCESS"]
        /\ txns'[Key[charges[c].paidBy]] = Row(charges[c].paidBy)
    <3>1. Row(charges[c].paidBy) = [id |-> charges[c].paidBy, status |-> "SUCCESS"]
      BY <1>1, PayerOf
    <3>2. Key[charges[c].paidBy] \in Keys
      BY <2>1, FlowShape
    <3>3. QED
      BY <1>0, <3>1, <3>2 DEF Row
  <2>3. PICK r \in Requests : /\ Flow[r] = [kind |-> "charge", ref |-> c]
                              /\ Key[r] = Key[charges[c].paidBy]
                              /\ answer[r] = "SUCCESS"
    <3> HIDE DEF IInv, TypeOK
    <3>1. PaidBySuccess
      BY DEF IInv
    <3>2. \E r \in Requests : /\ Flow[r] = [kind |-> "charge", ref |-> c]
                              /\ Key[r] = Key[charges[c].paidBy]
                              /\ answer[r] = "SUCCESS"
      BY <1>1, <3>1, PayerOf
    <3>3. QED
      BY <3>2
  <2>4. answer'[r] = "SUCCESS"
    BY <2>3, SuccessIsFinal
  <2>5. QED
    BY <2>1, <2>2, <2>3, <2>4
<1>2. CASE charges[c].status # "PAID"
  <2>1. \E r \in Requests : SettleCharge(r)
    BY <1>2
    DEF Next, vars, GenerateCharge, ResolveCharge, ResolveString, ReadOriginal,
        ReadExistingRefund, CallOrchestrator, Orchestrate, ReturnAnswer, FlowFails, Crash,
        NewCharge
  <2>2. PICK r \in Requests : SettleCharge(r)
    BY <2>1
  <2>3. /\ answer[r] = "SUCCESS"
        /\ Flow[r].kind = "charge"
        /\ Flow[r].ref = c
        /\ charges'[c].paidBy = Row(r).id
        /\ UNCHANGED <<txns, answer>>
    BY <1>2, <2>2 DEF SettleCharge
  <2>4. Flow[r] = [kind |-> "charge", ref |-> c]
    BY <2>3, FlowAssumption DEF Flows
  <2>5. QED
    BY <2>3, <2>4, SettlingTxn DEF Row
<1>3. QED
  BY <1>1, <1>2

\* What payers were told: preserved.
LEMMA NextSuccessMeansPaid == IInv /\ [Next]_vars => SuccessMeansPaid'
<1> SUFFICES ASSUME IInv, [Next]_vars, FlowPhases',
                    NEW q \in Requests, Flow[q].kind = "charge"
             PROVE  /\ outcome'[q] = "ok" /\ answer'[q] = "SUCCESS" =>
                           charges'[Flow[q].ref].status = "PAID"
                    /\ outcome'[q] = "replay" =>
                           /\ charges'[Flow[q].ref].status = "PAID"
                           /\ Key[charges'[Flow[q].ref].paidBy] = Key[q]
  BY NextFlowPhases DEF SuccessMeansPaid
<1> USE DEF IInv, TypeOK
<1> DEFINE c == Flow[q].ref
<1>0. /\ c \in Charges
      /\ charges[c].status = "PAID" => charges'[c] = charges[c]
      /\ charges[c].status \in {"none", "PENDING", "PAID"}
      /\ charges[c].paidBy # "none" => charges[c].status = "PAID"
      /\ charges[c] # NoCharge => charges[c].status # "none"
  BY FlowShape, PaidStays DEF NoCharge, NewCharge
<1>1. ASSUME outcome'[q] = "ok", answer'[q] = "SUCCESS"
      PROVE  charges'[c].status = "PAID"
  <2>1. ASSUME NEW r \in Requests, Orchestrate(r)
        PROVE  charges'[c].status = "PAID"
    <3>1. outcome[q] = "ok" /\ pc[q] = "done" /\ pc[r] = "move" /\ Work(r)
      BY <1>1, <2>1 DEF Orchestrate, FlowPhases
    <3>2. answer'[q] = answer[q]
      BY <3>1, WorkStep
    <3>3. QED
      BY <1>0, <1>1, <3>1, <3>2 DEF SuccessMeansPaid
  <2>2. ASSUME NEW r \in Requests, SettleCharge(r)
        PROVE  charges'[c].status = "PAID"
    <3>1. CASE r = q
      <4>1. /\ charges[c] # NoCharge
            /\ outcome'[q] = "ok"
            /\ Flow[q].kind = "charge"
        BY <1>1, <2>2, <3>1 DEF SettleCharge, FlowPhases
      <4>2. CASE Unsettled(c)
        BY <1>0, <2>2, <3>1, <4>1, <4>2 DEF SettleCharge, Respond
      <4>3. CASE ~Unsettled(c)
        <5>1. charges[c].status = "PAID"
          BY <1>0, <4>1, <4>3 DEF Unsettled
        <5>2. QED
          BY <1>0, <5>1
      <4>4. QED
        BY <4>2, <4>3
    <3>2. CASE r # q
      <4>1. outcome[q] = "ok" /\ answer[q] = "SUCCESS"
        BY <1>1, <2>2, <3>2 DEF SettleCharge, Respond
      <4>2. QED
        BY <1>0, <4>1 DEF SuccessMeansPaid
    <3>3. QED
      BY <3>1, <3>2
  <2>3. ASSUME NEW r \in Requests, ReturnAnswer(r)
        PROVE  charges'[c].status = "PAID"
    <3>1. outcome[q] = "ok" /\ answer[q] = "SUCCESS"
      BY <1>1, <2>3 DEF ReturnAnswer, Respond
    <3>2. QED
      BY <1>0, <3>1 DEF SuccessMeansPaid
  <2>4. CASE \A r \in Requests : ~Orchestrate(r) /\ ~SettleCharge(r) /\ ~ReturnAnswer(r)
    <3>1. outcome[q] = "ok"
      BY <1>1, <2>4
      DEF Next, vars, GenerateCharge, ResolveCharge, ResolveString, ReadOriginal,
          ReadExistingRefund, CallOrchestrator, FlowFails, Crash, Goto, Respond
    <3>2. answer[q] = "SUCCESS"
      BY <1>1, <2>4
      DEF Next, vars, GenerateCharge, ResolveCharge, ResolveString, ReadOriginal,
          ReadExistingRefund, CallOrchestrator, Ask, FlowFails, Crash, LedgerCrash,
          LedgerTypeOK
    <3>3. QED
      BY <1>0, <3>1, <3>2 DEF SuccessMeansPaid
  <2>5. QED
    BY <2>1, <2>2, <2>3, <2>4
<1>2. ASSUME outcome'[q] = "replay"
      PROVE  charges'[c].status = "PAID" /\ Key[charges'[c].paidBy] = Key[q]
  <2>1. CASE outcome[q] = "replay"
    BY <1>0, <2>1 DEF SuccessMeansPaid
  <2>2. CASE outcome[q] # "replay"
    <3>1. \E r \in Requests : ResolveCharge(r)
      BY <1>2, <2>2
      DEF Next, vars, GenerateCharge, ResolveString, ReadOriginal, ReadExistingRefund,
          CallOrchestrator, Orchestrate, ReturnAnswer, SettleCharge, FlowFails, Crash,
          Goto, Respond
    <3>2. PICK r \in Requests : ResolveCharge(r)
      BY <3>1
    <3>3. r = q
      BY <1>2, <2>2, <3>2 DEF ResolveCharge, Goto, Respond
    <3>4. charges[c].status = "PAID" /\ Key[charges[c].paidBy] = Key[q]
      BY <1>2, <2>2, <3>2, <3>3 DEF ResolveCharge, ReplayForCharge, Goto, Respond
    <3>5. QED
      BY <1>0, <3>4
  <2>3. QED
    BY <2>1, <2>2
<1>3. QED
  BY <1>1, <1>2

-----------------------------------------------------------------------------
\* The invariant holds for good.
THEOREM Invariant == Spec => []IInv
<1>1. IInv /\ [Next]_vars => IInv'
  BY LedgerPart, NextTypeOK, NextFlowPhases, NextPaidBySuccess, NextSuccessMeansPaid DEF IInv
<1>2. QED
  BY InitIInv, <1>1, PTL DEF Spec

\* Every variable keeps its type.
THEOREM TypeCorrect == Spec => []TypeOK
<1>1. IInv => TypeOK
  BY DEF IInv
<1>2. QED
  BY Invariant, <1>1, PTL

\* A charge is PAID by a success, under a key with which somebody paid that very charge.
THEOREM Paid == Spec => []PaidBySuccess
<1>1. IInv => PaidBySuccess
  BY DEF IInv
<1>2. QED
  BY Invariant, <1>1, PTL

\* A payer who is told of success, or is given a replay, is told the truth.
THEOREM TruthfulToPayers == Spec => []SuccessMeansPaid
<1>1. IInv => SuccessMeansPaid
  BY DEF IInv
<1>2. QED
  BY Invariant, <1>1, PTL

\* Only what succeeded is refunded.
THEOREM Refundable == Spec => []RefundsOfSuccess
<1>1. ASSUME IInv, NEW r \in Requests, Exists(r), Flow[r].kind = "refund"
      PROVE  Row(Flow[r].ref).status = "SUCCESS"
  <2>1. Row(Flow[r].ref) = [id |-> Flow[r].ref, status |-> "SUCCESS"]
    BY <1>1 DEF IInv, FlowPhases
  <2>2. QED
    BY <2>1
<1>2. IInv => RefundsOfSuccess
  BY <1>1 DEF RefundsOfSuccess
<1>3. QED
  BY Invariant, <1>2, PTL

\* A settled charge keeps its payer.
THEOREM SettledForGood == Spec => PaidForGood
<1> DEFINE Stays == \A c \in Charges : charges[c].status = "PAID" => charges'[c] = charges[c]
<1>1. IInv /\ [Next]_vars => [Stays]_vars
  BY PaidStays
<1>2. Spec => [][Stays]_vars
  BY <1>1, Invariant, PTL DEF Spec
<1>3. QED
  BY <1>2 DEF PaidForGood

-----------------------------------------------------------------------------
(***************************************************************************)
(* The codes.                                                              *)
(*                                                                         *)
(* The argument has three parts.  The checksum is linear: one byte that    *)
(* differs, or two neighbours that do, leave a difference in the register  *)
(* that the rest of the string cannot take back, so a garbled string has   *)
(* another checksum than the one it carries.  What Encode writes, Decode   *)
(* reads back, object by object, whatever the four characters at the end   *)
(* are.  And an amount is printed and read as the same number.             *)
(***************************************************************************)

-----------------------------------------------------------------------------
(* Numbers: a set of them has a least member.                              *)

LEMMA Least ==
    ASSUME NEW T, T \subseteq Nat, T # {}
    PROVE  \E n \in T : \A m \in T : n <= m
<1>1. PICK n \in T : \A m \in T : ~(<<m, n>> \in OpToRel(<, Nat))
  BY NatLessThanWellFounded, WFMin, Zenon
<1>2. \A m \in T : ~(m < n)
  BY <1>1 DEF OpToRel
<1> QED BY <1>2

-----------------------------------------------------------------------------
(* The checksum: what a round does to each bit, and what the eight do.     *)

\* What a round makes of each bit.
LEMMA RoundBits ==
    ASSUME NEW c \in Registers
    PROVE  /\ Round(c) \in Registers
           /\ 0 \in Round(c) <=> 15 \in c
           /\ 1 \in Round(c) <=> 0 \in c
           /\ 2 \in Round(c) <=> 1 \in c
           /\ 3 \in Round(c) <=> 2 \in c
           /\ 4 \in Round(c) <=> 3 \in c
           /\ 5 \in Round(c) <=> ~(4 \in c <=> 15 \in c)
           /\ 6 \in Round(c) <=> 5 \in c
           /\ 7 \in Round(c) <=> 6 \in c
           /\ 8 \in Round(c) <=> 7 \in c
           /\ 9 \in Round(c) <=> 8 \in c
           /\ 10 \in Round(c) <=> 9 \in c
           /\ 11 \in Round(c) <=> 10 \in c
           /\ 12 \in Round(c) <=> ~(11 \in c <=> 15 \in c)
           /\ 13 \in Round(c) <=> 12 \in c
           /\ 14 \in Round(c) <=> 13 \in c
           /\ 15 \in Round(c) <=> 14 \in c
<1> DEFINE shifted == {i + 1 : i \in c \ {15}}
<1>1. \A j \in 0..15 : j \in shifted <=> j - 1 \in c
  BY DEF Registers
<1>2. shifted \in Registers
  <2>1. c \subseteq 0..15
    BY DEF Registers
  <2>2. \A i \in c \ {15} : i + 1 \in 0..15
    BY <2>1
  <2>3. shifted \subseteq 0..15
    BY <2>2
  <2> QED BY <2>3 DEF Registers
<1>3. \A j \in 1..15 : j - 1 \in 0..14
  OBVIOUS
<1>4. -1 \notin c
  BY DEF Registers
<1> HIDE DEF shifted
<1>5. Round(c) = IF 15 \in c THEN Xor(shifted, {0, 5, 12}) ELSE shifted
  BY DEF Round, shifted
<1>6. \A j : j \in Xor(shifted, {0, 5, 12}) <=> ~(j \in shifted <=> j \in {0, 5, 12})
  BY DEF Xor
<1>7. Round(c) \in Registers
  BY <1>2, <1>5 DEF Registers, Xor
<1>8. \A j \in 0..15 : j \in Round(c) <=>
          IF j \in {0, 5, 12} THEN ~(j - 1 \in c <=> 15 \in c) ELSE j - 1 \in c
  BY <1>1, <1>5, <1>6
<1> QED BY <1>4, <1>7, <1>8

\* The low byte of a register.
Low(c) == c \cap 0..7

\* Eight rounds of a byte in the high half; two bytes that leave the same low half are equal.
LEMMA RoundsTellBytes ==
    /\ \A x \in SUBSET (0..7) : Rounds[x] \in Registers
    /\ \A x, y \in SUBSET (0..7) : Low(Rounds[x]) = Low(Rounds[y]) => x = y
<1> DEFINE R0(x) == {i + 8 : i \in x}
           R1(x) == Round(R0(x))
           R2(x) == Round(R1(x))
           R3(x) == Round(R2(x))
           R4(x) == Round(R3(x))
           R5(x) == Round(R4(x))
           R6(x) == Round(R5(x))
           R7(x) == Round(R6(x))
           R8(x) == Round(R7(x))
<1>1. \A x \in SUBSET (0..7) : Rounds[x] = R8(x)
  BY DEF Rounds
<1>2. ASSUME NEW x \in SUBSET (0..7)
      PROVE  /\ R0(x) \in Registers
             /\ 0 \notin R0(x) /\ 1 \notin R0(x) /\ 2 \notin R0(x) /\ 3 \notin R0(x)
             /\ 4 \notin R0(x) /\ 5 \notin R0(x) /\ 6 \notin R0(x) /\ 7 \notin R0(x)
             /\ 8 \in R0(x) <=> 0 \in x
             /\ 9 \in R0(x) <=> 1 \in x
             /\ 10 \in R0(x) <=> 2 \in x
             /\ 11 \in R0(x) <=> 3 \in x
             /\ 12 \in R0(x) <=> 4 \in x
             /\ 13 \in R0(x) <=> 5 \in x
             /\ 14 \in R0(x) <=> 6 \in x
             /\ 15 \in R0(x) <=> 7 \in x
  <2>1. \A j \in 0..15 : j \in R0(x) <=> j - 8 \in x
    OBVIOUS
  <2>2. R0(x) \in Registers
    BY DEF Registers
  <2>3. \A j : j \in x => j \in 0..7
    OBVIOUS
  <2> QED BY <2>1, <2>2, <2>3
<1> HIDE DEF R0
<1>3. ASSUME NEW x \in SUBSET (0..7)
      PROVE  /\ R1(x) \in Registers /\ R2(x) \in Registers /\ R3(x) \in Registers
             /\ R4(x) \in Registers /\ R5(x) \in Registers /\ R6(x) \in Registers
             /\ R7(x) \in Registers /\ R8(x) \in Registers
  BY <1>2, RoundBits
<1> HIDE DEF R1, R2, R3, R4, R5, R6, R7, R8
\* After four rounds the upper half of the byte is spent, after eight all of it.
<1>4. ASSUME NEW x \in SUBSET (0..7)
      PROVE  /\ 0 \in R8(x) <=> ~(0 \in x <=> 4 \in x)
             /\ 1 \in R8(x) <=> ~(1 \in x <=> 5 \in x)
             /\ 2 \in R8(x) <=> ~(2 \in x <=> 6 \in x)
             /\ 3 \in R8(x) <=> ~(3 \in x <=> 7 \in x)
             /\ 4 \in R8(x) <=> 4 \in x
             /\ 5 \in R8(x) <=> ~(5 \in x <=> 0 \in R8(x))
             /\ 6 \in R8(x) <=> ~(6 \in x <=> 1 \in R8(x))
             /\ 7 \in R8(x) <=> ~(7 \in x <=> 2 \in R8(x))
  BY <1>2, <1>3, RoundBits DEF R1, R2, R3, R4, R5, R6, R7, R8
<1>5. ASSUME NEW x \in SUBSET (0..7), NEW y \in SUBSET (0..7), Low(Rounds[x]) = Low(Rounds[y])
      PROVE  x = y
  <2>1. \A j \in 0..7 : j \in R8(x) <=> j \in R8(y)
    BY <1>1, <1>5 DEF Low
  <2>2. /\ 4 \in x <=> 4 \in y
        /\ 5 \in x <=> 5 \in y
        /\ 6 \in x <=> 6 \in y
        /\ 7 \in x <=> 7 \in y
    BY <1>4, <2>1
  <2>3. /\ 0 \in x <=> 0 \in y
        /\ 1 \in x <=> 1 \in y
        /\ 2 \in x <=> 2 \in y
        /\ 3 \in x <=> 3 \in y
    BY <1>4, <2>1, <2>2
  <2>4. \A j \in 0..7 : j \in {0, 1, 2, 3, 4, 5, 6, 7}
    OBVIOUS
  <2>5. \A j \in 0..7 : j \in x <=> j \in y
    BY <2>2, <2>3, <2>4
  <2> QED BY <2>5
<1> QED BY <1>1, <1>3, <1>5

\* A character is known by its bits.
LEMMA BitsTellChars ==
    /\ \A c \in Chars : Bits[c] \in SUBSET (0..7)
    /\ \A c, d \in Chars : Bits[c] = Bits[d] => c = d
<1>1. \A c \in Chars : Bits[c] = {i \in 0..7 : (c \div Weight[i + 1]) % 2 = 1}
  BY DEF Bits
<1>2. /\ Weight[1] = 1 /\ Weight[2] = 2 /\ Weight[3] = 4 /\ Weight[4] = 8
      /\ Weight[5] = 16 /\ Weight[6] = 32 /\ Weight[7] = 64
      /\ Weight[8] = 128
  BY DEF Weight
<1>3. ASSUME NEW c \in Chars
      PROVE  /\ 0 \in Bits[c] <=> (c \div 1) % 2 = 1
             /\ 1 \in Bits[c] <=> (c \div 2) % 2 = 1
             /\ 2 \in Bits[c] <=> (c \div 4) % 2 = 1
             /\ 3 \in Bits[c] <=> (c \div 8) % 2 = 1
             /\ 4 \in Bits[c] <=> (c \div 16) % 2 = 1
             /\ 5 \in Bits[c] <=> (c \div 32) % 2 = 1
             /\ 6 \in Bits[c] <=> (c \div 64) % 2 = 1
             /\ 7 \in Bits[c] <=> (c \div 128) % 2 = 1
  <2>1. \A i \in 0..7 : i \in Bits[c] <=> (c \div Weight[i + 1]) % 2 = 1
    BY <1>1
  <2>2. /\ 0 + 1 = 1 /\ 1 + 1 = 2 /\ 2 + 1 = 3 /\ 3 + 1 = 4 /\ 4 + 1 = 5 /\ 5 + 1 = 6
        /\ 6 + 1 = 7 /\ 7 + 1 = 8
    OBVIOUS
  <2> QED BY <1>2, <2>1, <2>2
<1> DEFINE bit(c, i) == IF i \in Bits[c] THEN 1 ELSE 0
<1>4. ASSUME NEW c \in Chars
      PROVE  /\ c = 2 * (c \div 2) + bit(c, 0)
             /\ c \div 2 = 2 * (c \div 4) + bit(c, 1)
             /\ c \div 4 = 2 * (c \div 8) + bit(c, 2)
             /\ c \div 8 = 2 * (c \div 16) + bit(c, 3)
             /\ c \div 16 = 2 * (c \div 32) + bit(c, 4)
             /\ c \div 32 = 2 * (c \div 64) + bit(c, 5)
             /\ c \div 64 = 2 * (c \div 128) + bit(c, 6)
             /\ c \div 128 = bit(c, 7)
  <2>1. c \in 0..255
    BY DEF Chars
  <2>2. /\ c = 2 * (c \div 2) + ((c \div 1) % 2)
        /\ c \div 2 = 2 * (c \div 4) + ((c \div 2) % 2)
        /\ c \div 4 = 2 * (c \div 8) + ((c \div 4) % 2)
        /\ c \div 8 = 2 * (c \div 16) + ((c \div 8) % 2)
        /\ c \div 16 = 2 * (c \div 32) + ((c \div 16) % 2)
        /\ c \div 32 = 2 * (c \div 64) + ((c \div 32) % 2)
        /\ c \div 64 = 2 * (c \div 128) + ((c \div 64) % 2)
        /\ c \div 128 = (c \div 128) % 2
    BY <2>1
  <2>3. \A k \in Nat : k % 2 = IF k % 2 = 1 THEN 1 ELSE 0
    OBVIOUS
  <2>4. /\ c \div 1 \in Nat /\ c \div 2 \in Nat /\ c \div 4 \in Nat /\ c \div 8 \in Nat
        /\ c \div 16 \in Nat /\ c \div 32 \in Nat /\ c \div 64 \in Nat /\ c \div 128 \in Nat
    BY <2>1
  <2>5. /\ (c \div 1) % 2 = bit(c, 0) /\ (c \div 2) % 2 = bit(c, 1)
        /\ (c \div 4) % 2 = bit(c, 2) /\ (c \div 8) % 2 = bit(c, 3)
        /\ (c \div 16) % 2 = bit(c, 4) /\ (c \div 32) % 2 = bit(c, 5)
        /\ (c \div 64) % 2 = bit(c, 6) /\ (c \div 128) % 2 = bit(c, 7)
    BY <1>3, <2>3, <2>4
  <2> QED BY <2>2, <2>5
<1>5. ASSUME NEW c \in Chars, NEW d \in Chars, Bits[c] = Bits[d] PROVE c = d
  <2>1. \A i : bit(c, i) = bit(d, i)
    BY <1>5
  <2> HIDE DEF bit
  <2>2. c \div 128 = d \div 128 /\ c \div 64 = d \div 64
    BY <1>4, <2>1
  <2>3. c \div 32 = d \div 32
    BY <1>4, <2>1, <2>2
  <2>4. c \div 16 = d \div 16
    BY <1>4, <2>1, <2>3
  <2>5. c \div 8 = d \div 8
    BY <1>4, <2>1, <2>4
  <2>6. c \div 4 = d \div 4
    BY <1>4, <2>1, <2>5
  <2>7. c \div 2 = d \div 2
    BY <1>4, <2>1, <2>6
  <2> QED BY <1>4, <2>1, <2>7
<1> QED BY <1>1, <1>5

\* What was added can be taken off again.
LEMMA XorCancels ==
    ASSUME NEW a, NEW b, NEW c, Xor(a, b) = Xor(a, c)
    PROVE  b = c
<1>1. \A j : j \in Xor(a, b) <=> ~(j \in a <=> j \in b)
  BY DEF Xor
<1>2. \A j : j \in Xor(a, c) <=> ~(j \in a <=> j \in c)
  BY DEF Xor
<1> QED BY <1>1, <1>2

\* The order of what is added does not matter.
LEMMA XorSwaps == \A a, b : Xor(a, b) = Xor(b, a)
BY DEF Xor

\* And the high byte.
High(c) == {i \in 0..7 : i + 8 \in c}

\* What a byte does to the register: where two results agree in their low half, the rounds
\* began with the same byte; where they agree altogether, so did the low halves before.
LEMMA ByteTells ==
    ASSUME NEW r \in Registers, NEW q \in Registers, NEW c \in Chars, NEW d \in Chars
    PROVE  /\ Byte[c][r] \in Registers
           /\ Low(Byte[c][r]) = Low(Byte[d][q]) => Xor(High(r), Bits[c]) = Xor(High(q), Bits[d])
           /\ Byte[c][r] = Byte[d][q] => Low(r) = Low(q)
<1> DEFINE x == Xor(High(r), Bits[c])
           y == Xor(High(q), Bits[d])
           up(t) == {i + 8 : i \in Low(t)}
<1>1. Byte[c][r] = Xor(up(r), Rounds[x]) /\ Byte[d][q] = Xor(up(q), Rounds[y])
  BY DEF Byte, High, Low
<1>2. x \in SUBSET (0..7) /\ y \in SUBSET (0..7)
  BY BitsTellChars DEF Xor, High
<1>3. \A t : \A j \in up(t) : j \in 8..15
  BY DEF Low
<1> HIDE DEF x, y
<1>4. Rounds[x] \in Registers /\ Rounds[y] \in Registers
  BY <1>2, RoundsTellBytes
<1>5. Byte[c][r] \in Registers
  BY <1>1, <1>3, <1>4 DEF Xor, Registers
<1>6. Low(Byte[c][r]) = Low(Rounds[x]) /\ Low(Byte[d][q]) = Low(Rounds[y])
  BY <1>1, <1>3 DEF Xor, Low
<1>7. Low(Byte[c][r]) = Low(Byte[d][q]) => x = y
  BY <1>2, <1>6, RoundsTellBytes
<1>8. ASSUME Byte[c][r] = Byte[d][q] PROVE Low(r) = Low(q)
  <2>1. Xor(Rounds[x], up(r)) = Xor(Rounds[x], up(q))
    BY <1>1, <1>7, <1>8, XorSwaps
  <2>2. up(r) = up(q)
    BY <2>1, XorCancels
  <2>3. \A t : \A j \in 0..7 : j \in Low(t) <=> j + 8 \in up(t)
    BY DEF Low
  <2>4. \A t : Low(t) \subseteq 0..7
    BY DEF Low
  <2> HIDE DEF up
  <2> QED BY <2>2, <2>3, <2>4
<1> QED BY <1>5, <1>7, <1>8 DEF x, y

\* A byte maps registers one to one, and so does it bytes into a register.
LEMMA ByteIsOneToOne ==
    /\ \A c \in Chars : \A r, q \in Registers : Byte[c][r] = Byte[c][q] => r = q
    /\ \A c, d \in Chars : \A r \in Registers : Low(Byte[c][r]) = Low(Byte[d][r]) => c = d
<1>1. ASSUME NEW c \in Chars, NEW r \in Registers, NEW q \in Registers, Byte[c][r] = Byte[c][q]
      PROVE  r = q
  <2>1. Xor(High(r), Bits[c]) = Xor(High(q), Bits[c]) /\ Low(r) = Low(q)
    BY <1>1, ByteTells
  <2>2. High(r) = High(q)
    BY <2>1, XorSwaps, XorCancels
  <2>3. ASSUME NEW s \in Registers
        PROVE  \A j \in 0..15 : j \in s <=> IF j \in 0..7 THEN j \in Low(s) ELSE j - 8 \in High(s)
    BY DEF Low, High
  <2>4. \A j \in 0..15 : j \in r <=> j \in q
    BY <2>1, <2>2, <2>3
  <2> QED BY <2>4 DEF Registers
<1>2. ASSUME NEW c \in Chars, NEW d \in Chars, NEW r \in Registers,
             Low(Byte[c][r]) = Low(Byte[d][r])
      PROVE  c = d
  <2>1. Xor(High(r), Bits[c]) = Xor(High(r), Bits[d])
    BY <1>2, ByteTells
  <2> QED BY <2>1, XorCancels, BitsTellChars
<1> QED BY <1>1, <1>2

-----------------------------------------------------------------------------
(* Recursion.  f[x] is base[x] where the recursion stops and made from     *)
(* f[next[x]] where it does not, and next[x] is smaller than x.            *)

\* Where the recursion takes fewer than k steps.
Below(D, size, k) == {x \in D : size[x] < k}

\* f follows the recursion at x.
Follows(f, x, stop, next, base, step) ==
    f[x] = IF x \in stop THEN base[x] ELSE step[x][f[next[x]]]

\* There is a function that follows such a recursion.
LEMMA LinearRecursion ==
    ASSUME NEW D, NEW V, NEW size \in [D -> Nat], NEW stop \in SUBSET D,
           NEW next \in [D -> D], NEW base \in [D -> V], NEW step \in [D -> [V -> V]],
           \A x \in D \ stop : size[next[x]] < size[x]
    PROVE  \E f \in [D -> V] : \A x \in D : Follows(f, x, stop, next, base, step)
<1> DEFINE B(k) == Below(D, size, k)
           Ok(f, k) == f \in [B(k) -> V] /\ \A x \in B(k) : Follows(f, x, stop, next, base, step)
<1>1. \A k \in Nat : \A x \in B(k) : x \in D /\ size[x] < k /\ (x \notin stop => next[x] \in B(k))
  BY DEF Below
<1>2. \A x \in D : x \in B(size[x] + 1) /\ size[x] + 1 \in Nat
  BY DEF Below
<1>3. \A k \in Nat : \A x \in B(k + 1) : x \notin stop => next[x] \in B(k)
  BY DEF Below
<1>4. \A k, m \in Nat : k <= m => B(k) \subseteq B(m)
  BY DEF Below
<1>5. B(0) = {}
  BY DEF Below
<1> HIDE DEF B
<1>6. \A k \in Nat : \E f : Ok(f, k)
  <2> SUFFICES ASSUME {k \in Nat : ~(\E f : Ok(f, k))} # {}
               PROVE  FALSE
    OBVIOUS
  <2>1. PICK k \in {k \in Nat : ~(\E f : Ok(f, k))} :
           \A m \in {j \in Nat : ~(\E f : Ok(f, j))} : k <= m
    BY Least
  <2>2. CASE k = 0
    <3>1. Ok([x \in B(0) |-> base[x]], 0)
      BY <1>5
    <3> QED BY <2>1, <2>2, <3>1
  <2>3. CASE k # 0
    <3>1. k - 1 \in Nat /\ (k - 1) + 1 = k /\ ~(k <= k - 1)
      BY <2>3
    <3>2. PICK f : Ok(f, k - 1)
      BY <2>1, <3>1
    <3> DEFINE g == [x \in B(k) |-> IF x \in stop THEN base[x] ELSE step[x][f[next[x]]]]
    <3>3. \A x \in B(k) : x \in D /\ (x \notin stop => next[x] \in B(k - 1))
      BY <1>1, <1>3, <3>1
    <3>4. \A x \in B(k - 1) : x \in B(k) /\ g[x] = f[x]
      <4>1. k - 1 <= k
        BY <3>1
      <4>2. B(k - 1) \subseteq B(k)
        BY <4>1, <1>4, <3>1
      <4> QED BY <3>2, <4>2 DEF Follows
    <3>5. g \in [B(k) -> V]
      BY <3>2, <3>3
    <3>6. ASSUME NEW x \in B(k) PROVE Follows(g, x, stop, next, base, step)
      BY <3>3, <3>4 DEF Follows
    <3>7. Ok(g, k)
      BY <3>5, <3>6
    <3> QED BY <2>1, <3>7
  <2> QED BY <2>2, <2>3
<1>7. ASSUME NEW k \in Nat, NEW m \in Nat, NEW f, NEW g, Ok(f, k), Ok(g, m)
      PROVE  \A x \in B(k) \cap B(m) : f[x] = g[x]
  <2> DEFINE Differ == {x \in B(k) \cap B(m) : f[x] # g[x]}
             Sizes == {size[x] : x \in Differ}
  <2> SUFFICES ASSUME Differ # {} PROVE FALSE
    OBVIOUS
  <2>1. Sizes # {} /\ Sizes \subseteq Nat
    BY <1>1
  <2>2. PICK n \in Sizes : \A j \in Sizes : n <= j
    BY <2>1, Least
  <2>3. PICK x \in Differ : size[x] = n
    BY <2>2
  <2>4. /\ x \in B(k) /\ x \in B(m) /\ x \in D
        /\ Follows(f, x, stop, next, base, step) /\ Follows(g, x, stop, next, base, step)
    BY <1>1, <1>7, <2>3
  <2>5. x \notin stop
    BY <2>3, <2>4 DEF Follows
  <2>6. f[next[x]] # g[next[x]]
    BY <2>3, <2>4, <2>5 DEF Follows
  <2>7. next[x] \in Differ
    BY <1>1, <2>4, <2>5, <2>6
  <2>8. size[next[x]] < size[x] /\ size[x] \in Nat /\ size[next[x]] \in Nat
    BY <2>4, <2>5
  <2>9. size[next[x]] \in Sizes
    BY <2>7
  <2> HIDE DEF Sizes, Differ
  <2> QED BY <2>2, <2>3, <2>8, <2>9
<1> DEFINE at(x) == size[x] + 1
           pick(x) == CHOOSE f : Ok(f, at(x))
           F == [x \in D |-> pick(x)[x]]
<1>8. \A x \in D : Ok(pick(x), at(x)) /\ at(x) \in Nat /\ x \in B(at(x))
  BY <1>2, <1>6
<1> HIDE DEF at, pick, Ok
<1>9. \A x \in D : F[x] \in V
  BY <1>8 DEF Ok
<1>10. ASSUME NEW x \in D PROVE Follows(F, x, stop, next, base, step)
  <2>1. Follows(pick(x), x, stop, next, base, step)
    BY <1>8 DEF Ok
  <2>2. CASE x \in stop
    BY <2>1, <2>2 DEF Follows
  <2>3. CASE x \notin stop
    <3>1. next[x] \in D /\ next[x] \in B(at(x)) /\ next[x] \in B(at(next[x]))
      BY <1>1, <1>8, <2>3
    <3>2. pick(x)[next[x]] = pick(next[x])[next[x]]
      BY <1>7, <1>8, <3>1
    <3> QED BY <2>1, <2>3, <3>1, <3>2 DEF Follows
  <2> QED BY <2>2, <2>3
<1>11. F \in [D -> V]
  BY <1>9
<1> QED BY <1>10, <1>11

-----------------------------------------------------------------------------
(* The checksum of a string, character by character.                       *)

\* r has the registers of the loop over s.
Trace(r, s) ==
    /\ r \in [0..Len(s) -> Registers]
    /\ r[0] = 0..15
    /\ \A i \in 1..Len(s) : r[i] = Byte[s[i]][r[i - 1]]

\* The registers of the loop of Crc16, one for each character read.
LEMMA CrcTrace ==
    ASSUME NEW s \in Strings
    PROVE  \E r : Trace(r, s) /\ Crc16(s) = r[Len(s)]
<1> DEFINE n == Len(s)
           D == 0..n
           body(run) == [i \in 0..n |-> IF i = 0 THEN 0..15 ELSE Byte[s[i]][run[i - 1]]]
           run == CHOOSE run : run = body(run)
           id == [i \in D |-> i]
           next == [i \in D |-> IF i = 0 THEN 0 ELSE i - 1]
           base == [i \in D |-> 0..15]
           step == [i \in D |-> IF i = 0 THEN [c \in Registers |-> c] ELSE Byte[s[i]]]
<1>1. n \in Nat /\ \A i \in 1..n : s[i] \in Chars
  BY DEF Strings
<1>2. \A c \in Chars : Byte[c] \in [Registers -> Registers]
  <2>1. \A c \in Chars : Byte[c] = [r \in Registers |-> Byte[c][r]]
    BY DEF Byte
  <2>2. \A c \in Chars, r \in Registers : Byte[c][r] \in Registers
    BY ByteTells
  <2> QED BY <2>1, <2>2
<1> HIDE DEF n
<1>3. /\ id \in [D -> Nat] /\ {0} \in SUBSET D /\ next \in [D -> D] /\ base \in [D -> Registers]
      /\ \A i \in D \ {0} : id[next[i]] < id[i]
  BY <1>1 DEF Registers
<1>4. step \in [D -> [Registers -> Registers]]
  BY <1>1, <1>2
<1>5. PICK f \in [D -> Registers] : \A i \in D : Follows(f, i, {0}, next, base, step)
  <2> HIDE DEF D, id, next, base, step
  <2> QED BY <1>3, <1>4, LinearRecursion
<1>6. \A i \in D : f[i] = IF i = 0 THEN 0..15 ELSE Byte[s[i]][f[i - 1]]
  BY <1>1, <1>5 DEF Follows
<1>7. f = body(f)
  BY <1>5, <1>6
<1>8. run = body(run)
  BY <1>7
<1>9. Crc16(s) = run[n]
  BY DEF Crc16, n
<1> HIDE DEF run
<1>10. \A i \in D : run[i] = IF i = 0 THEN 0..15 ELSE Byte[s[i]][run[i - 1]]
  BY <1>8
<1>11. \A i \in D : run[i] \in Registers
  <2> DEFINE Bad == {i \in D : run[i] \notin Registers}
  <2> SUFFICES ASSUME Bad # {} PROVE FALSE
    OBVIOUS
  <2>0. Bad \subseteq Nat
    OBVIOUS
  <2>1. PICK i \in Bad : \A j \in Bad : i <= j
    <3> HIDE DEF Bad
    <3> QED BY Least, <2>0
  <2>2. i # 0
    BY <1>10, <2>1 DEF Registers
  <2>3. i - 1 \in D /\ i \in 1..n /\ ~(i <= i - 1)
    BY <1>1, <2>1, <2>2
  <2>4. run[i - 1] \in Registers
    BY <2>1, <2>3
  <2> QED BY <1>1, <1>2, <1>10, <2>1, <2>2, <2>3, <2>4
<1>12. run \in [D -> Registers]
  BY <1>8, <1>11
<1>13. Trace(run, s)
  BY <1>1, <1>10, <1>12 DEF Trace, n
<1> QED BY <1>9, <1>13 DEF n

\* Two strings that agree up to i lead to the same register there.
LEMMA SameSoFar ==
    ASSUME NEW s \in Strings, NEW t \in Strings, NEW r, NEW q, Trace(r, s), Trace(q, t),
           NEW i \in Nat, i <= Len(s), i <= Len(t), \A j \in 1..i : s[j] = t[j]
    PROVE  r[i] = q[i]
<1> DEFINE Bad == {j \in 0..i : r[j] # q[j]}
<1> SUFFICES ASSUME Bad # {} PROVE FALSE
  OBVIOUS
<1>0. Bad \subseteq Nat
  OBVIOUS
<1>1. PICK j \in Bad : \A k \in Bad : j <= k
  <2> HIDE DEF Bad
  <2> QED BY Least, <1>0
<1>2. j # 0
  BY <1>1 DEF Trace
<1>3. j - 1 \in 0..i /\ j \in 1..i /\ ~(j <= j - 1) /\ j \in 1..Len(s) /\ j \in 1..Len(t)
  BY <1>1, <1>2 DEF Strings
<1>4. r[j - 1] = q[j - 1]
  BY <1>1, <1>3
<1>5. s[j] = t[j]
  BY <1>3
<1>6. r[j] = Byte[s[j]][r[j - 1]] /\ q[j] = Byte[t[j]][q[j - 1]]
  BY <1>3 DEF Trace
<1> QED BY <1>1, <1>4, <1>5, <1>6

\* Registers that differ stay different while the strings agree.
LEMMA DifferOnwards ==
    ASSUME NEW s \in Strings, NEW t \in Strings, NEW r, NEW q, Trace(r, s), Trace(q, t),
           Len(s) = Len(t), NEW i \in 0..Len(s), \A j \in (i + 1)..Len(s) : s[j] = t[j],
           r[i] # q[i]
    PROVE  r[Len(s)] # q[Len(s)]
<1> DEFINE Bad == {j \in i..Len(s) : r[j] = q[j]}
<1> SUFFICES ASSUME r[Len(s)] = q[Len(s)] PROVE FALSE
  OBVIOUS
<1>1. Len(s) \in Nat /\ Len(s) \in Bad /\ Bad \subseteq Nat
  BY DEF Strings
<1>2. PICK j \in Bad : \A k \in Bad : j <= k
  BY Least, <1>1
<1>3. j # i
  BY <1>2
<1>4. j - 1 \in i..Len(s) /\ j \in (i + 1)..Len(s) /\ ~(j <= j - 1) /\ j \in 1..Len(s)
      /\ j - 1 \in 0..Len(s)
  BY <1>1, <1>2, <1>3
<1>5. r[j - 1] # q[j - 1]
  BY <1>2, <1>4
<1>6. /\ r[j] = Byte[s[j]][r[j - 1]] /\ q[j] = Byte[s[j]][q[j - 1]]
      /\ r[j - 1] \in Registers /\ q[j - 1] \in Registers /\ s[j] \in Chars
  <2>1. s[j] = t[j]
    BY <1>4
  <2>2. j \in 1..Len(t) /\ j - 1 \in 0..Len(t)
    BY <1>4
  <2>3. r[j] = Byte[s[j]][r[j - 1]] /\ q[j] = Byte[t[j]][q[j - 1]]
    BY <1>4, <2>2 DEF Trace
  <2>4. r[j - 1] \in Registers /\ q[j - 1] \in Registers
    BY <1>4, <2>2 DEF Trace
  <2>5. s[j] \in Chars
    BY <1>4 DEF Strings
  <2> QED BY <2>1, <2>3, <2>4, <2>5
<1> QED BY <1>2, <1>5, <1>6, ByteIsOneToOne

\* A character misread, or two neighbours swapped, gives another checksum.
LEMMA MisreadTells ==
    ASSUME NEW s \in Strings, NEW t \in Strings, Len(s) = Len(t), NEW i \in 1..Len(s),
           s[i] # t[i], \A j \in 1..Len(s) : j # i => s[j] = t[j]
    PROVE  Crc16(s) # Crc16(t)
<1>1. PICK r : Trace(r, s) /\ Crc16(s) = r[Len(s)]
  BY CrcTrace
<1>2. PICK q : Trace(q, t) /\ Crc16(t) = q[Len(t)]
  BY CrcTrace
<1>3. Len(s) \in Nat /\ i - 1 \in Nat /\ i - 1 <= Len(s) /\ i \in 0..Len(s) /\ i - 1 \in 0..Len(s)
  BY DEF Strings
<1>4. \A j \in 1..(i - 1) : s[j] = t[j]
  BY <1>3
<1>5. r[i - 1] = q[i - 1]
  BY <1>1, <1>2, <1>3, <1>4, SameSoFar
<1>6. /\ r[i] = Byte[s[i]][r[i - 1]] /\ q[i] = Byte[t[i]][r[i - 1]]
      /\ r[i - 1] \in Registers /\ s[i] \in Chars /\ t[i] \in Chars
  BY <1>1, <1>2, <1>3, <1>5 DEF Trace, Strings
<1>7. r[i] # q[i]
  BY <1>6, ByteIsOneToOne
<1>8. \A j \in (i + 1)..Len(s) : s[j] = t[j]
  BY <1>3
<1>9. r[Len(s)] # q[Len(s)]
  BY <1>1, <1>2, <1>3, <1>7, <1>8, DifferOnwards
<1> QED BY <1>1, <1>2, <1>9

\* Two different neighbours that were swapped change the checksum.
LEMMA SwapTells ==
    ASSUME NEW s \in Strings, NEW t \in Strings, Len(s) = Len(t), NEW i \in 1..(Len(s) - 1),
           s[i] # s[i + 1], t[i] = s[i + 1], t[i + 1] = s[i],
           \A j \in 1..Len(s) : j # i /\ j # i + 1 => s[j] = t[j]
    PROVE  Crc16(s) # Crc16(t)
<1>1. PICK r : Trace(r, s) /\ Crc16(s) = r[Len(s)]
  BY CrcTrace
<1>2. PICK q : Trace(q, t) /\ Crc16(t) = q[Len(t)]
  BY CrcTrace
<1>3. /\ Len(s) \in Nat /\ i - 1 \in Nat /\ i - 1 <= Len(s) /\ i \in 1..Len(s) /\ i + 1 \in 1..Len(s)
      /\ i + 1 \in 0..Len(s) /\ i - 1 \in 0..Len(s) /\ (i + 1) - 1 = i
  BY DEF Strings
<1>4. \A j \in 1..(i - 1) : s[j] = t[j]
  BY <1>3
<1>5. r[i - 1] = q[i - 1]
  BY <1>1, <1>2, <1>3, <1>4, SameSoFar
<1>6. /\ s[i] \in Chars /\ s[i + 1] \in Chars
      /\ r[i - 1] \in Registers
      /\ r[i] = Byte[s[i]][r[i - 1]] /\ q[i] = Byte[s[i + 1]][r[i - 1]]
      /\ r[i + 1] = Byte[s[i + 1]][r[i]] /\ q[i + 1] = Byte[s[i]][q[i]]
      /\ r[i] \in Registers /\ q[i] \in Registers
  <2>1. s[i] \in Chars /\ s[i + 1] \in Chars
    BY <1>3 DEF Strings
  <2>2. /\ i \in 0..Len(s) /\ i \in 1..Len(t) /\ i + 1 \in 1..Len(t) /\ i \in 0..Len(t)
        /\ i - 1 \in 0..Len(t)
    BY <1>3
  <2>3. r[i - 1] \in Registers /\ r[i] \in Registers /\ q[i] \in Registers
    BY <1>1, <1>2, <1>3, <2>2 DEF Trace
  <2>4. r[i] = Byte[s[i]][r[i - 1]] /\ r[i + 1] = Byte[s[i + 1]][r[i]]
    BY <1>1, <1>3 DEF Trace
  <2>5. q[i] = Byte[t[i]][q[i - 1]] /\ q[i + 1] = Byte[t[i + 1]][q[i]]
    BY <1>2, <1>3, <2>2 DEF Trace
  <2> QED BY <1>5, <2>1, <2>3, <2>4, <2>5
<1>7. ASSUME r[i + 1] = q[i + 1] PROVE FALSE
  <2> DEFINE a == s[i]
             b == s[i + 1]
             x == r[i]
             y == q[i]
  <2>0. Byte[b][x] = Byte[a][y] /\ a \in Chars /\ b \in Chars /\ x \in Registers /\ y \in Registers
    BY <1>6, <1>7
  <2>1. Low(x) = Low(y)
    <3> HIDE DEF a, b, x, y
    <3> QED BY <2>0, ByteTells
  <2> QED BY <1>6, <2>1, ByteIsOneToOne
<1>8. \A j \in ((i + 1) + 1)..Len(s) : s[j] = t[j]
  BY <1>3
<1>9. r[Len(s)] # q[Len(s)]
  BY <1>1, <1>2, <1>3, <1>7, <1>8, DifferOnwards
<1> QED BY <1>1, <1>2, <1>9

\* The last character is told by the low half of the checksum alone.
LEMMA LastTells ==
    ASSUME NEW s \in Strings, NEW t \in Strings, Len(s) = Len(t), Len(s) > 0,
           \A j \in 1..(Len(s) - 1) : s[j] = t[j], Low(Crc16(s)) = Low(Crc16(t))
    PROVE  s[Len(s)] = t[Len(s)]
<1>1. PICK r : Trace(r, s) /\ Crc16(s) = r[Len(s)]
  BY CrcTrace
<1>2. PICK q : Trace(q, t) /\ Crc16(t) = q[Len(t)]
  BY CrcTrace
<1> DEFINE i == Len(s)
<1>3. i \in Nat /\ i - 1 \in Nat /\ i - 1 <= i /\ i \in 1..i /\ i - 1 \in 0..i
  BY DEF Strings
<1>5. r[i - 1] = q[i - 1]
  BY <1>1, <1>2, <1>3, SameSoFar
<1>6. /\ r[i] = Byte[s[i]][r[i - 1]] /\ q[i] = Byte[t[i]][r[i - 1]]
      /\ r[i - 1] \in Registers /\ s[i] \in Chars /\ t[i] \in Chars
  BY <1>1, <1>2, <1>3, <1>5 DEF Trace, Strings
<1> QED BY <1>1, <1>2, <1>6, ByteIsOneToOne

-----------------------------------------------------------------------------
(* Strings, as the library has sequences.                                  *)

\* A character is a number.
LEMMA CharsAreIntegers == Chars \subseteq Int
BY DEF Chars

\* The empty string is the only one of length 0.
LEMMA EmptyString ==
    /\ <<>> \in Strings /\ Len(<<>>) = 0
    /\ \A s \in Strings : Len(s) \in Nat /\ (s = <<>> <=> Len(s) = 0)
BY EmptySeq, LenProperties DEF Strings

\* What a string has at its places.
LEMMA CharOfString ==
    ASSUME NEW s \in Strings, NEW i \in 1..Len(s)
    PROVE  s[i] \in Chars /\ s[i] \in Int
BY CharsAreIntegers, ElementOfSeq DEF Strings

\* A string of one character.
LEMMA OneChar ==
    ASSUME NEW c \in Chars
    PROVE  <<c>> \in Strings /\ Len(<<c>>) = 1 /\ <<c>>[1] = c
BY DEF Strings

\* A string of two.
LEMMA TwoChars ==
    ASSUME NEW c \in Chars, NEW d \in Chars
    PROVE  /\ <<c, d>> \in Strings /\ Len(<<c, d>>) = 2 /\ <<c, d>>[1] = c /\ <<c, d>>[2] = d
           /\ <<c, d>> = <<c>> \o <<d>>
<1>1. <<c, d>> \in Strings /\ Len(<<c, d>>) = 2 /\ <<c, d>>[1] = c /\ <<c, d>>[2] = d
  BY DEF Strings
<1>2. <<c, d>> = <<c>> \o <<d>>
  <2>1. /\ <<c>> \o <<d>> \in Seq(Chars) /\ Len(<<c>> \o <<d>>) = 2
        /\ \A i \in 1..2 : (<<c>> \o <<d>>)[i] = IF i <= 1 THEN <<c>>[i] ELSE <<d>>[i - 1]
    BY OneChar, ConcatProperties DEF Strings
  <2>2. \A i \in 1..2 : (<<c>> \o <<d>>)[i] = <<c, d>>[i]
    BY <1>1, <2>1, OneChar
  <2> QED BY <1>1, <2>1, <2>2, SeqEqual DEF Strings
<1> QED BY <1>1, <1>2

\* Strings of the same characters are the same.
LEMMA SameString ==
    ASSUME NEW s \in Strings, NEW t \in Strings, Len(s) = Len(t), \A i \in 1..Len(s) : s[i] = t[i]
    PROVE  s = t
BY SeqEqual DEF Strings

\* What is where in a string put together of two.
LEMMA Joined ==
    ASSUME NEW s \in Strings, NEW t \in Strings
    PROVE  /\ s \o t \in Strings
           /\ Len(s \o t) = Len(s) + Len(t)
           /\ \A i \in 1..Len(s) : (s \o t)[i] = s[i]
           /\ \A i \in 1..Len(t) : (s \o t)[Len(s) + i] = t[i]
<1>1. Len(s) \in Nat /\ Len(t) \in Nat
  BY EmptyString
<1>2. /\ s \o t \in Strings /\ Len(s \o t) = Len(s) + Len(t)
      /\ \A i \in 1..Len(s) + Len(t) : (s \o t)[i] = IF i <= Len(s) THEN s[i] ELSE t[i - Len(s)]
  BY ConcatProperties DEF Strings
<1>3. \A i \in 1..Len(s) : i \in 1..Len(s) + Len(t) /\ i <= Len(s)
  BY <1>1
<1>4. \A i \in 1..Len(t) : /\ Len(s) + i \in 1..Len(s) + Len(t)
                            /\ ~(Len(s) + i <= Len(s)) /\ (Len(s) + i) - Len(s) = i
  BY <1>1
<1> QED BY <1>2, <1>3, <1>4

\* It does not matter which two of three are put together first.
LEMMA JoinedTwice ==
    ASSUME NEW s \in Strings, NEW t \in Strings, NEW u \in Strings
    PROVE  (s \o t) \o u = s \o (t \o u)
BY ConcatAssociative DEF Strings

\* Nothing comes of the empty string.
LEMMA JoinedEmpty ==
    ASSUME NEW s \in Strings
    PROVE  s \o <<>> = s /\ <<>> \o s = s
BY ConcatEmptySeq DEF Strings

\* What is where in a part of a string.
LEMMA Part ==
    ASSUME NEW s \in Strings, NEW m \in Nat \ {0}, NEW n \in Nat, n <= Len(s)
    PROVE  /\ SubSeq(s, m, n) \in Strings
           /\ Len(SubSeq(s, m, n)) = IF m <= n THEN n - m + 1 ELSE 0
           /\ \A i \in 1..(n - m + 1) : SubSeq(s, m, n)[i] = s[m + i - 1]
<1>1. \A i \in m..n : s[i] \in Chars
  BY CharOfString, EmptyString
<1> QED BY <1>1, SubSeqProperties DEF Strings

\* The first of two strings can be cut off again.
LEMMA FirstPart ==
    ASSUME NEW s \in Strings, NEW t \in Strings, NEW n \in Nat, n = Len(s)
    PROVE  SubSeq(s \o t, 1, n) = s
<1>1. /\ s \o t \in Strings /\ Len(s \o t) = n + Len(t) /\ Len(t) \in Nat
      /\ \A i \in 1..n : (s \o t)[i] = s[i]
  BY Joined, EmptyString
<1>2. /\ SubSeq(s \o t, 1, n) \in Strings /\ Len(SubSeq(s \o t, 1, n)) = n
      /\ \A i \in 1..n : SubSeq(s \o t, 1, n)[i] = (s \o t)[1 + i - 1]
  <2>1. n <= Len(s \o t) /\ 1 \in Nat \ {0} /\ n - 1 + 1 = n
    BY <1>1
  <2>2. /\ SubSeq(s \o t, 1, n) \in Strings
        /\ Len(SubSeq(s \o t, 1, n)) = IF 1 <= n THEN n - 1 + 1 ELSE 0
        /\ \A i \in 1..(n - 1 + 1) : SubSeq(s \o t, 1, n)[i] = (s \o t)[1 + i - 1]
    BY <1>1, <2>1, Part
  <2> QED BY <2>1, <2>2
<1>3. \A i \in 1..n : SubSeq(s \o t, 1, n)[i] = s[i]
  BY <1>1, <1>2
<1> QED BY <1>2, <1>3, SameString

\* And the second.
LEMMA LastPart ==
    ASSUME NEW s \in Strings, NEW t \in Strings, NEW m \in Nat, NEW n \in Nat,
           m = Len(s) + 1, n = Len(s) + Len(t)
    PROVE  SubSeq(s \o t, m, n) = t
<1>1. /\ s \o t \in Strings /\ Len(s \o t) = n /\ Len(t) \in Nat /\ Len(s) \in Nat
      /\ \A i \in 1..Len(t) : (s \o t)[Len(s) + i] = t[i]
  BY Joined, EmptyString
<1>2. n <= Len(s \o t) /\ m \in Nat \ {0} /\ n - m + 1 = Len(t)
  BY <1>1
<1>3. /\ SubSeq(s \o t, m, n) \in Strings
      /\ Len(SubSeq(s \o t, m, n)) = IF m <= n THEN n - m + 1 ELSE 0
      /\ \A i \in 1..(n - m + 1) : SubSeq(s \o t, m, n)[i] = (s \o t)[m + i - 1]
  <2> DEFINE u == s \o t
  <2>1. u \in Strings /\ n <= Len(u) /\ m \in Nat \ {0}
    BY <1>1, <1>2
  <2> HIDE DEF u
  <2>2. /\ SubSeq(u, m, n) \in Strings
        /\ Len(SubSeq(u, m, n)) = IF m <= n THEN n - m + 1 ELSE 0
        /\ \A i \in 1..(n - m + 1) : SubSeq(u, m, n)[i] = u[m + i - 1]
    BY <2>1, Part
  <2> QED BY <2>2 DEF u
<1>4. Len(SubSeq(s \o t, m, n)) = Len(t)
  BY <1>1, <1>2, <1>3
<1>5. \A i \in 1..Len(t) : m + i - 1 = Len(s) + i
  BY <1>1
<1>6. \A i \in 1..Len(t) : SubSeq(s \o t, m, n)[i] = t[i]
  BY <1>1, <1>2, <1>3, <1>5
<1> QED BY <1>3, <1>4, <1>6, SameString

-----------------------------------------------------------------------------
(* Numbers in strings.                                                     *)

\* The characters of digits.
Digits == 48..57

\* The loop of Value, digit by digit.
LEMMA ValueSteps ==
    ASSUME NEW s \in Strings
    PROVE  \E f : /\ Value(s) = f[Len(s)] /\ f[0] = 0
                  /\ \A i \in 1..Len(s) : f[i] = 10 * f[i - 1] + s[i] - 48
                  /\ \A i \in 0..Len(s) : f[i] \in Int
<1> DEFINE n == Len(s)
           D == 0..n
           body(read) == [i \in 0..n |-> IF i = 0 THEN 0 ELSE 10 * read[i - 1] + s[i] - 48]
           read == CHOOSE read : read = body(read)
           id == [i \in D |-> i]
           next == [i \in D |-> IF i = 0 THEN 0 ELSE i - 1]
           base == [i \in D |-> 0]
           step == [i \in D |-> [v \in Int |-> IF i = 0 THEN 0 ELSE 10 * v + s[i] - 48]]
<1>1. n \in Nat /\ \A i \in 1..n : s[i] \in Int
  BY EmptyString, CharOfString
<1> HIDE DEF n
<1>2. /\ id \in [D -> Nat] /\ {0} \in SUBSET D /\ next \in [D -> D] /\ base \in [D -> Int]
      /\ \A i \in D \ {0} : id[next[i]] < id[i]
  BY <1>1
<1>3. step \in [D -> [Int -> Int]]
  BY <1>1
<1>4. PICK f \in [D -> Int] : \A i \in D : Follows(f, i, {0}, next, base, step)
  <2> HIDE DEF D, id, next, base, step
  <2> QED BY <1>2, <1>3, LinearRecursion
<1>5. \A i \in D : f[i] = IF i = 0 THEN 0 ELSE 10 * f[i - 1] + s[i] - 48
  <2> SUFFICES ASSUME NEW i \in D PROVE f[i] = IF i = 0 THEN 0 ELSE 10 * f[i - 1] + s[i] - 48
    OBVIOUS
  <2>1. Follows(f, i, {0}, next, base, step)
    BY <1>4
  <2>2. f[i] = IF i = 0 THEN 0 ELSE step[i][f[next[i]]]
    BY <2>1 DEF Follows
  <2>3. i # 0 => next[i] = i - 1 /\ f[i - 1] \in Int
    BY <1>1
  <2> QED BY <2>2, <2>3
<1>6. f = body(f)
  BY <1>4, <1>5
<1>7. read = body(read)
  BY <1>6
<1>8. Value(s) = read[n]
  BY DEF Value, n
<1> HIDE DEF read
<1>9. \A i \in D : read[i] = IF i = 0 THEN 0 ELSE 10 * read[i - 1] + s[i] - 48
  BY <1>7
<1>10. \A i \in D : read[i] \in Int
  <2> DEFINE Bad == {i \in D : read[i] \notin Int}
  <2> SUFFICES ASSUME Bad # {} PROVE FALSE
    OBVIOUS
  <2>0. Bad \subseteq Nat
    OBVIOUS
  <2>1. PICK i \in Bad : \A j \in Bad : i <= j
    <3> HIDE DEF Bad
    <3> QED BY Least, <2>0
  <2>2. i # 0
    BY <1>9, <2>1
  <2>3. i - 1 \in D /\ i \in 1..n /\ ~(i <= i - 1)
    BY <1>1, <2>1, <2>2
  <2>4. read[i - 1] \in Int
    BY <2>1, <2>3
  <2>5. read[i] = 10 * read[i - 1] + s[i] - 48 /\ s[i] \in Int
    BY <1>1, <1>9, <2>1, <2>2, <2>3
  <2> QED BY <2>1, <2>4, <2>5
<1>11. 0 \in D /\ \A i \in 1..n : i \in D /\ i # 0
  BY <1>1
<1>12. /\ read[0] = 0 /\ \A i \in 1..n : read[i] = 10 * read[i - 1] + s[i] - 48
  BY <1>9, <1>11
<1> QED BY <1>8, <1>10, <1>12 DEF n

\* One digit more.
LEMMA ValueAppend ==
    ASSUME NEW s \in Strings, NEW c \in Chars
    PROVE  /\ Value(s) \in Int
           /\ Value(s \o <<c>>) = 10 * Value(s) + c - 48
<1> DEFINE t == s \o <<c>>
           n == Len(s)
<1>1. /\ t \in Strings /\ n \in Nat /\ Len(t) = n + 1 /\ t[n + 1] = c
      /\ \A i \in 1..n : t[i] = s[i]
  <2>1. /\ <<c>> \in Strings /\ Len(<<c>>) = 1 /\ <<c>>[1] = c /\ 1 \in 1..Len(<<c>>)
        /\ n \in Nat
    BY OneChar, EmptyString
  <2> QED BY <2>1, Joined
<1>2. (\A i \in 1..n : s[i] \in Int) /\ c \in Int
  BY CharOfString, CharsAreIntegers
<1> HIDE DEF t
<1>3. PICK f : /\ Value(s) = f[n] /\ f[0] = 0
               /\ \A i \in 1..n : f[i] = 10 * f[i - 1] + s[i] - 48
               /\ \A i \in 0..n : f[i] \in Int
  BY ValueSteps
<1>4. PICK g : /\ Value(t) = g[n + 1] /\ g[0] = 0
               /\ \A i \in 1..(n + 1) : g[i] = 10 * g[i - 1] + t[i] - 48
               /\ \A i \in 0..(n + 1) : g[i] \in Int
  <2>1. t \in Strings /\ Len(t) = n + 1
    BY <1>1
  <2>2. PICK h : /\ Value(t) = h[Len(t)] /\ h[0] = 0
                 /\ \A i \in 1..Len(t) : h[i] = 10 * h[i - 1] + t[i] - 48
                 /\ \A i \in 0..Len(t) : h[i] \in Int
    BY <2>1, ValueSteps, Zenon
  <2>3. /\ Value(t) = h[n + 1] /\ h[0] = 0
        /\ \A i \in 1..(n + 1) : h[i] = 10 * h[i - 1] + t[i] - 48
        /\ \A i \in 0..(n + 1) : h[i] \in Int
    BY <2>1, <2>2, Zenon
  <2> QED BY <2>3, Zenon
<1>5. f[n] = g[n]
  <2> DEFINE Bad == {i \in 0..n : f[i] # g[i]}
  <2> SUFFICES ASSUME Bad # {} PROVE FALSE
    BY <1>1
  <2>0. Bad \subseteq Nat
    OBVIOUS
  <2>1. PICK i \in Bad : \A j \in Bad : i <= j
    <3> HIDE DEF Bad
    <3> QED BY Least, <2>0
  <2>2. i # 0
    BY <1>3, <1>4, <2>1
  <2>3. i - 1 \in 0..n /\ i \in 1..n /\ i \in 1..(n + 1) /\ ~(i <= i - 1)
    BY <1>1, <2>1, <2>2
  <2>4. f[i - 1] = g[i - 1]
    BY <2>1, <2>3
  <2>5. f[i] = 10 * f[i - 1] + s[i] - 48 /\ g[i] = 10 * g[i - 1] + t[i] - 48 /\ s[i] = t[i]
    BY <1>1, <1>3, <1>4, <2>3
  <2> QED BY <2>1, <2>4, <2>5
<1>6. n \in 0..n /\ n + 1 \in 1..(n + 1) /\ (n + 1) - 1 = n
  BY <1>1
<1>7. Value(t) = 10 * g[n] + c - 48
  BY <1>1, <1>4, <1>6
<1> QED BY <1>3, <1>5, <1>6, <1>7 DEF t

\* No digits, no value.
LEMMA ValueEmpty == Value(<<>>) = 0
BY EmptyString, ValueSteps

\* Two digits read back as the number they were written of.
LEMMA TwoDigitsReadBack ==
    ASSUME NEW n \in 0..99
    PROVE  /\ TwoDigits(n, 10) \in Strings /\ Len(TwoDigits(n, 10)) = 2
           /\ TwoDigits(n, 10)[1] \in Digits /\ TwoDigits(n, 10)[2] \in Digits
           /\ IsNumber(TwoDigits(n, 10)) /\ Number(TwoDigits(n, 10)) = n
<1> DEFINE a == Digit(n \div 10)
           b == Digit(n % 10)
<1>1. n \div 10 \in 0..9 /\ n % 10 \in 0..9 /\ n = 10 * (n \div 10) + (n % 10)
  OBVIOUS
<1>2. a = 48 + n \div 10 /\ b = 48 + (n % 10) /\ a \in Digits /\ b \in Digits
  BY <1>1 DEF Digit, Digits
<1>3. TwoDigits(n, 10) = <<a, b>>
  BY DEF TwoDigits
<1> HIDE DEF a, b
<1>4. a \in Chars /\ b \in Chars /\ a \in Int
  BY <1>2 DEF Digits, Chars
<1>5. /\ <<>> \in Strings /\ <<a>> \in Strings /\ <<a, b>> \in Strings /\ Len(<<a, b>>) = 2
      /\ <<a>> = <<>> \o <<a>> /\ <<a, b>> = <<a>> \o <<b>>
  BY <1>4, OneChar, TwoChars, EmptyString, JoinedEmpty
<1>6. Value(<<a>>) = a - 48
  <2>1. Value(<<>> \o <<a>>) = 10 * Value(<<>>) + a - 48
    BY <1>4, <1>5, ValueAppend
  <2> QED BY <1>4, <1>5, <2>1, ValueEmpty
<1>7. Value(<<a, b>>) = n
  <2>1. Value(<<a, b>>) = 10 * Value(<<a>>) + b - 48
    BY <1>4, <1>5, ValueAppend
  <2> QED BY <1>1, <1>2, <1>6, <2>1
<1>8. ~Signed(<<a, b>>) /\ <<a, b>>[1] = a
  BY <1>2 DEF Signed, Digits
<1>9. IsNumber(<<a, b>>)
  BY <1>2, <1>8 DEF IsNumber, IsDigits, Digits
<1>10. Number(<<a, b>>) = n
  BY <1>2, <1>7, <1>8 DEF Number, Digits
<1>11. <<a, b>>[2] = b
  OBVIOUS
<1> QED BY <1>2, <1>3, <1>5, <1>8, <1>9, <1>10, <1>11

\* How %d makes its digits.
LEMMA DecimalSteps ==
    \A n \in Nat : Decimal[n] = IF n < 10 THEN <<Digit(n)>> ELSE Decimal[n \div 10] \o <<Digit(n % 10)>>
<1> DEFINE Ints == Seq(Int)
           body(d) == [n \in Nat |-> IF n < 10 THEN <<Digit(n)>> ELSE d[n \div 10] \o <<Digit(n % 10)>>]
           small == 0..9
           id == [n \in Nat |-> n]
           next == [n \in Nat |-> n \div 10]
           base == [n \in Nat |-> <<Digit(n)>>]
           step == [n \in Nat |-> [v \in Ints |-> v \o <<Digit(n % 10)>>]]
<1>1. \A n \in Nat : Digit(n) \in Int /\ n % 10 \in Nat /\ n \div 10 \in Nat
  BY DEF Digit
<1>2. /\ id \in [Nat -> Nat] /\ small \in SUBSET Nat /\ next \in [Nat -> Nat]
      /\ \A n \in Nat \ small : id[next[n]] < id[n]
  OBVIOUS
<1>3. base \in [Nat -> Ints]
  BY <1>1
<1>4. step \in [Nat -> [Ints -> Ints]]
  BY <1>1
<1>5. PICK f \in [Nat -> Ints] : \A n \in Nat : Follows(f, n, small, next, base, step)
  <2> HIDE DEF id, next, base, step, small, Ints
  <2> QED BY <1>2, <1>3, <1>4, LinearRecursion
<1>6. \A n \in Nat : f[n] = IF n < 10 THEN <<Digit(n)>> ELSE f[n \div 10] \o <<Digit(n % 10)>>
  <2> SUFFICES ASSUME NEW n \in Nat
               PROVE  f[n] = IF n < 10 THEN <<Digit(n)>> ELSE f[n \div 10] \o <<Digit(n % 10)>>
    OBVIOUS
  <2>1. Follows(f, n, small, next, base, step)
    BY <1>5
  <2>2. f[n] = IF n \in small THEN base[n] ELSE step[n][f[next[n]]]
    BY <2>1 DEF Follows
  <2>3. next[n] = n \div 10 /\ f[n \div 10] \in Ints /\ base[n] = <<Digit(n)>>
    BY <1>1
  <2>4. step[n][f[n \div 10]] = f[n \div 10] \o <<Digit(n % 10)>>
    <3> DEFINE v == f[n \div 10]
    <3>1. v \in Ints
      BY <2>3
    <3>2. step[n] = [u \in Ints |-> u \o <<Digit(n % 10)>>]
      OBVIOUS
    <3> HIDE DEF v, Ints, step
    <3>3. step[n][v] = v \o <<Digit(n % 10)>>
      BY <3>1, <3>2
    <3> QED BY <3>3 DEF v
  <2>5. n \in small <=> n < 10
    OBVIOUS
  <2> HIDE DEF step, base, next, small
  <2> QED BY <2>2, <2>3, <2>4, <2>5
<1>7. f = body(f)
  BY <1>5, <1>6
<1>8. Decimal = CHOOSE d : d = body(d)
  BY DEF Decimal
<1>9. Decimal = body(Decimal)
  BY <1>7, <1>8
<1> QED BY <1>9

\* A number is written in digits that read back as it.
LEMMA DecimalReadsBack ==
    ASSUME NEW n \in Nat
    PROVE  /\ Decimal[n] \in Strings /\ Decimal[n] # <<>>
           /\ \A i \in 1..Len(Decimal[n]) : Decimal[n][i] \in Digits
           /\ Value(Decimal[n]) = n
<1> DEFINE Good(k) == /\ Decimal[k] \in Strings /\ Decimal[k] # <<>>
                      /\ \A i \in 1..Len(Decimal[k]) : Decimal[k][i] \in Digits
                      /\ Value(Decimal[k]) = k
           Bad == {k \in Nat : ~Good(k)}
<1> SUFFICES ASSUME Bad # {} PROVE FALSE
  OBVIOUS
<1>1. PICK k \in Bad : \A j \in Bad : k <= j
  <2>1. Bad \subseteq Nat
    OBVIOUS
  <2> HIDE DEF Bad
  <2> QED BY <2>1, Least
<1>2. k \in Nat /\ ~Good(k)
  BY <1>1
<1> SUFFICES Good(k)
  BY <1>2
<1> DEFINE c == Digit(k % 10)
<1>3. /\ k % 10 \in 0..9 /\ c = 48 + (k % 10) /\ c \in Chars /\ c \in Digits
      /\ k = 10 * (k \div 10) + (k % 10)
  BY <1>2 DEF Digit, Chars, Digits
<1>4. CASE k < 10
  <2>0. k % 10 = k
    BY <1>2, <1>4
  <2>1. k % 10 = k /\ Decimal[k] = <<c>>
    BY <1>2, <1>4, <2>0, DecimalSteps
  <2> HIDE DEF c
  <2>2. Value(<<>> \o <<c>>) = 10 * 0 + c - 48 /\ <<c>> = <<>> \o <<c>> /\ <<>> \in Strings
    <3>1. <<>> \in Strings /\ <<c>> \in Strings /\ <<c>> = <<>> \o <<c>>
      BY <1>3, EmptyString, OneChar, JoinedEmpty
    <3> QED BY <3>1, <1>3, ValueAppend, ValueEmpty
  <2>3. Value(<<c>>) = k
    BY <1>3, <2>1, <2>2
  <2>4. <<c>> \in Strings /\ <<c>> # <<>> /\ Len(<<c>>) = 1 /\ <<c>>[1] = c
    BY <1>3, OneChar
  <2> QED BY <1>3, <2>1, <2>3, <2>4
<1>5. CASE ~(k < 10)
  <2>1. k \div 10 \in Nat /\ ~(k <= k \div 10)
    BY <1>2, <1>5
  <2>2. Good(k \div 10)
    BY <1>1, <2>1
  <2> DEFINE s == Decimal[k \div 10]
  <2>3. Decimal[k] = s \o <<c>>
    BY <1>2, <1>5, DecimalSteps
  <2>4. s \in Strings /\ s # <<>> /\ Value(s) = k \div 10 /\ \A i \in 1..Len(s) : s[i] \in Digits
    BY <2>2
  <2> HIDE DEF s, c
  <2>5. Value(s \o <<c>>) = 10 * (k \div 10) + c - 48
    BY <1>3, <2>4, ValueAppend
  <2>6. Value(Decimal[k]) = k
    BY <1>3, <2>1, <2>3, <2>5
  <2>7. s \o <<c>> \in Strings /\ s \o <<c>> # <<>> /\ Len(s \o <<c>>) = Len(s) + 1
    BY <1>3, <2>4 DEF Strings
  <2>8. \A i \in 1..(Len(s) + 1) : (s \o <<c>>)[i] \in Digits
    BY <1>3, <2>4 DEF Strings
  <2> QED BY <2>3, <2>6, <2>7, <2>8
<1> QED BY <1>4, <1>5

\* What is printed of an amount is read back as that amount.
LEMMA AmountReadsBack ==
    ASSUME NEW a \in Nat
    PROVE  /\ MinorToMajor(a) \in Strings /\ MinorToMajor(a) # <<>>
           /\ MajorToMinor(MinorToMajor(a)) = {a}
<1> DEFINE d == Decimal[a \div 100]
           f == TwoDigits(a % 100, 10)
           n == Len(d)
           s == MinorToMajor(a)
           whole == SubSeq(s, 1, WholePart(s))
           rest == SubSeq(s, WholePart(s) + 2, Len(s))
           frac == SubSeq(rest \o <<48, 48>>, 1, 2)
<1>1. a \div 100 \in Nat /\ a % 100 \in 0..99 /\ 100 * (a \div 100) + (a % 100) = a
  OBVIOUS
<1>2. /\ d \in Strings /\ d # <<>> /\ \A i \in 1..n : d[i] \in Digits
      /\ Value(d) = a \div 100
  BY <1>1, DecimalReadsBack
<1>3. /\ f \in Strings /\ Len(f) = 2 /\ IsNumber(f) /\ Number(f) = a % 100
      /\ f[1] \in Digits /\ f[2] \in Digits
  BY <1>1, TwoDigitsReadBack
<1>4. s = d \o <<46>> \o f
  BY DEF MinorToMajor
<1> HIDE DEF d, f, s
<1>5. /\ n \in Nat /\ n > 0 /\ Len(s) = n + 3 /\ s \in Strings /\ s # <<>>
      /\ \A i \in 1..n : s[i] = d[i]
      /\ s[n + 1] = 46 /\ s[n + 2] = f[1] /\ s[n + 3] = f[2]
  <2> DEFINE p == <<46>>
             dp == d \o p
  <2>1. p \in Strings /\ Len(p) = 1 /\ p[1] = 46
    <3>1. 46 \in Chars
      BY DEF Chars
    <3> QED BY <3>1, OneChar
  <2> HIDE DEF p
  <2>2. n \in Nat /\ n > 0
    BY <1>2, EmptyString
  <2>3. /\ dp \in Strings /\ Len(dp) = n + 1 /\ dp[n + 1] = 46
        /\ \A i \in 1..n : dp[i] = d[i]
    <3>1. 1 \in 1..Len(p)
      BY <2>1
    <3>2. /\ dp \in Strings /\ Len(dp) = Len(d) + Len(p)
          /\ \A i \in 1..Len(d) : dp[i] = d[i]
          /\ \A i \in 1..Len(p) : dp[Len(d) + i] = p[i]
      BY <1>2, <2>1, Joined
    <3> QED BY <2>1, <2>2, <3>1, <3>2
  <2> HIDE DEF dp
  <2>4. /\ s \in Strings /\ Len(s) = (n + 1) + 2
        /\ \A i \in 1..(n + 1) : s[i] = dp[i]
        /\ s[(n + 1) + 1] = f[1] /\ s[(n + 1) + 2] = f[2]
    <3>1. 1 \in 1..Len(f) /\ 2 \in 1..Len(f) /\ s = dp \o f
      BY <1>3, <1>4 DEF dp, p
    <3>2. /\ dp \o f \in Strings /\ Len(dp \o f) = Len(dp) + Len(f)
          /\ \A i \in 1..Len(dp) : (dp \o f)[i] = dp[i]
          /\ \A i \in 1..Len(f) : (dp \o f)[Len(dp) + i] = f[i]
      BY <1>3, <2>3, Joined
    <3> QED BY <1>3, <2>3, <3>1, <3>2
  <2>5. (n + 1) + 1 = n + 2 /\ (n + 1) + 2 = n + 3 /\ n + 1 \in 1..(n + 1)
        /\ \A i \in 1..n : i \in 1..(n + 1)
    BY <2>2
  <2>6. s # <<>>
    BY <2>2, <2>4, EmptyString
  <2> QED BY <2>2, <2>3, <2>4, <2>5, <2>6
<1>6. \A i \in 1..n : s[i] # 46
  <2> SUFFICES ASSUME NEW i \in 1..n PROVE s[i] # 46
    OBVIOUS
  <2>1. s[i] = d[i]
    BY <1>5
  <2>2. d[i] \in Digits
    BY <1>2
  <2>3. 46 \notin Digits
    BY DEF Digits
  <2> QED BY <2>1, <2>2, <2>3
<1>7. WholePart(s) = n
  <2> DEFINE P(k) == (\A i \in 1..k : s[i] # 46) /\ (k < Len(s) => s[k + 1] = 46)
  <2>1. n \in 0..Len(s) /\ P(n)
    BY <1>5, <1>6
  <2>2. ASSUME NEW k \in 0..Len(s), P(k) PROVE k = n
    <3>1. ~(k < n)
      <4>1. k < n => k + 1 \in 1..n /\ k < Len(s)
        BY <1>5
      <4> QED BY <1>6, <2>2, <4>1
    <3>2. ~(n < k)
      <4>1. n < k => n + 1 \in 1..k
        BY <1>5
      <4> QED BY <1>5, <2>2, <4>1
    <3> QED BY <1>5, <3>1, <3>2
  <2>3. WholePart(s) = CHOOSE k \in 0..Len(s) : P(k)
    BY DEF WholePart
  <2> HIDE DEF P
  <2> QED BY <2>1, <2>2, <2>3
<1>8. whole = d
  <2>1. whole = SubSeq(s, 1, n)
    BY <1>7
  <2>2. /\ SubSeq(s, 1, n) \in Strings
        /\ Len(SubSeq(s, 1, n)) = IF 1 <= n THEN n - 1 + 1 ELSE 0
        /\ \A i \in 1..(n - 1 + 1) : SubSeq(s, 1, n)[i] = s[1 + i - 1]
    BY <1>5, Part
  <2>3. n - 1 + 1 = n /\ 1 <= n /\ \A i \in 1..n : 1 + i - 1 = i
    BY <1>5
  <2>4. Len(SubSeq(s, 1, n)) = n /\ \A i \in 1..n : SubSeq(s, 1, n)[i] = d[i]
    BY <1>5, <2>2, <2>3
  <2> QED BY <1>2, <2>1, <2>2, <2>4, SameString
<1>9. frac = f
  <2>1. rest = SubSeq(s, n + 2, n + 3)
    BY <1>5, <1>7
  <2>2. /\ SubSeq(s, n + 2, n + 3) \in Strings
        /\ Len(SubSeq(s, n + 2, n + 3)) = IF n + 2 <= n + 3 THEN (n + 3) - (n + 2) + 1 ELSE 0
        /\ \A i \in 1..((n + 3) - (n + 2) + 1) : SubSeq(s, n + 2, n + 3)[i] = s[(n + 2) + i - 1]
    BY <1>5, Part
  <2>3. /\ n + 2 <= n + 3 /\ (n + 3) - (n + 2) + 1 = 2
        /\ (n + 2) + 1 - 1 = n + 2 /\ (n + 2) + 2 - 1 = n + 3 /\ 1 \in 1..2 /\ 2 \in 1..2
    BY <1>5
  <2>4. rest \in Strings /\ Len(rest) = 2 /\ rest[1] = f[1] /\ rest[2] = f[2]
    <3> DEFINE u == SubSeq(s, n + 2, n + 3)
    <3>1. u \in Strings /\ Len(u) = 2
      BY <2>2, <2>3
    <3>2. u[1] = s[(n + 2) + 1 - 1] /\ u[2] = s[(n + 2) + 2 - 1]
      BY <2>2, <2>3
    <3>3. u[1] = f[1] /\ u[2] = f[2]
      BY <1>5, <2>3, <3>2
    <3> HIDE DEF u
    <3>4. rest = u
      BY <2>1 DEF u
    <3> HIDE DEF rest
    <3> QED BY <3>1, <3>3, <3>4
  <2> HIDE DEF rest
  <2>5. \A i \in 1..Len(rest) : rest[i] = f[i]
    <3>1. \A i \in 1..2 : i = 1 \/ i = 2
      OBVIOUS
    <3> QED BY <2>4, <3>1
  <2>6. rest = f
    BY <1>3, <2>4, <2>5, SameString
  <2>7. <<48, 48>> \in Strings
    <3>1. 48 \in Chars
      BY DEF Chars
    <3> QED BY <3>1, TwoChars
  <2> QED BY <1>3, <2>6, <2>7, FirstPart
<1>10. IsNumber(d) /\ Number(d) = a \div 100
  <2>1. 1 \in 1..n
    BY <1>5
  <2>2. d[1] \in Digits
    BY <1>2, <2>1
  <2>3. d[1] # 43 /\ d[1] # 45
    BY <2>2 DEF Digits
  <2> QED BY <1>2, <2>3 DEF IsNumber, IsDigits, Signed, Number, Digits
<1>11. MajorToMinor(s) = IF IsNumber(whole) /\ IsNumber(frac)
                         THEN {100 * Number(whole) + Number(frac)} ELSE {}
  BY DEF MajorToMinor
<1> HIDE DEF whole, frac
<1>12. MajorToMinor(s) = {a}
  BY <1>1, <1>3, <1>8, <1>9, <1>10, <1>11
<1> QED BY <1>5, <1>12 DEF s

-----------------------------------------------------------------------------
(* Parsing, one object at a time.                                          *)

\* The length an object has in its header.
Size(s) == Number(SubSeq(s, 3, 4))

\* No object stands at the front of s.
Broken(s) == Len(s) < 4 \/ ~IsNumber(SubSeq(s, 3, 4)) \/ Size(s) < 0 \/ Size(s) > Len(s) - 4

\* What stands behind the object at the front.
Behind(s) == SubSeq(s, 5 + Size(s), Len(s))

\* What is parsed of the empty string.
Nothing == [ok |-> TRUE, at |-> [tag \in {} |-> <<>>]]

\* One object before the rest; an object of the same tag further on hides it.
Extended(rest, tag, value) ==
    IF ~rest.ok THEN Malformed
    ELSE [ok |-> TRUE,
          at |-> [t \in DOMAIN rest.at \cup {tag} |->
                     IF t \in DOMAIN rest.at THEN rest.at[t] ELSE value]]

\* What is parsed of s, of which rest was parsed behind the first object.
Parsed(rest, s) == Extended(rest, SubSeq(s, 1, 2), SubSeq(s, 5, 4 + Size(s)))

\* What is left to parse behind an object is shorter.
LEMMA BehindIsShorter ==
    ASSUME NEW s \in Strings, ~Broken(s)
    PROVE  /\ Size(s) \in Nat /\ Len(s) >= 4 /\ Size(s) <= Len(s) - 4
           /\ Behind(s) \in Strings /\ Len(Behind(s)) < Len(s)
           /\ SubSeq(s, 1, 2) \in Strings /\ SubSeq(s, 5, 4 + Size(s)) \in Strings
<1> DEFINE h == SubSeq(s, 3, 4)
           n == Len(s)
<1>1. n \in Nat /\ n >= 4 /\ IsNumber(h) /\ ~(Size(s) < 0) /\ ~(Size(s) > n - 4)
  BY EmptyString DEF Broken
<1>2. h \in Strings
  BY <1>1, Part
<1>3. Size(s) \in Int
  <2>1. 48 \in Chars
    BY DEF Chars
  <2>2. \A t \in Strings : Value(t) \in Int
    BY <2>1, ValueAppend
  <2>3. h # <<>> => Tail(h) \in Strings
    BY <1>2, HeadTailProperties DEF Strings
  <2>4. Size(s) = Number(h)
    BY DEF Size
  <2> HIDE DEF h
  <2>5. h # <<>> => Value(Tail(h)) \in Int /\ -Value(Tail(h)) \in Int
    BY <2>2, <2>3
  <2> QED BY <1>2, <2>2, <2>4, <2>5 DEF Number
<1> HIDE DEF h
<1>4. Size(s) \in Nat /\ Size(s) <= n - 4
  BY <1>1, <1>3
<1>5. /\ Behind(s) \in Strings
      /\ Len(Behind(s)) = IF 5 + Size(s) <= n THEN n - (5 + Size(s)) + 1 ELSE 0
  <2>1. 5 + Size(s) \in Nat \ {0} /\ n <= n
    BY <1>1, <1>4
  <2> QED BY <1>1, <2>1, Part DEF Behind
<1>6. SubSeq(s, 1, 2) \in Strings
  <2>1. 1 \in Nat \ {0} /\ 2 \in Nat /\ 2 <= n
    BY <1>1
  <2> QED BY <2>1, Part
<1>7. SubSeq(s, 5, 4 + Size(s)) \in Strings
  <2>1. 5 \in Nat \ {0} /\ 4 + Size(s) \in Nat /\ 4 + Size(s) <= n
    BY <1>1, <1>4
  <2> QED BY <2>1, Part
<1> QED BY <1>1, <1>4, <1>5, <1>6, <1>7

\* How Parse goes on: by the object at the front, and what is behind it.
LEMMA ParseSteps ==
    ASSUME NEW s \in Strings
    PROVE  Parse[s] = IF s = <<>> THEN Nothing
                      ELSE IF Broken(s) THEN Malformed ELSE Parsed(Parse[Behind(s)], s)
<1> DEFINE Tables == UNION {[X -> Strings] : X \in SUBSET Strings}
           V == {Malformed} \cup {[ok |-> TRUE, at |-> g] : g \in Tables}
           body(p) == [t \in Strings |->
                         IF t = <<>> THEN Nothing
                         ELSE IF Broken(t) THEN Malformed ELSE Parsed(p[Behind(t)], t)]
           len == [t \in Strings |-> Len(t)]
           stop == {t \in Strings : t = <<>> \/ Broken(t)}
           next == [t \in Strings |-> IF t \in stop THEN t ELSE Behind(t)]
           base == [t \in Strings |-> IF t = <<>> THEN Nothing ELSE Malformed]
           step == [t \in Strings |-> [v \in V |-> IF t \in stop THEN v ELSE Parsed(v, t)]]
<1>1. Parse = CHOOSE p : p = body(p)
  BY DEF Parse, Nothing, Broken, Size, Parsed, Extended, Behind
<1>2. len \in [Strings -> Nat] /\ stop \in SUBSET Strings
  BY EmptyString
<1>3. next \in [Strings -> Strings] /\ \A t \in Strings \ stop : len[next[t]] < len[t]
  BY BehindIsShorter
<1>4. Nothing \in V /\ Malformed \in V
  <2>1. [tag \in {} |-> <<>>] \in [{} -> Strings]
    OBVIOUS
  <2>2. [{} -> Strings] \in {[X -> Strings] : X \in SUBSET Strings}
    OBVIOUS
  <2>3. [tag \in {} |-> <<>>] \in Tables
    BY <2>1, <2>2
  <2> HIDE DEF Tables
  <2> QED BY <2>3 DEF Nothing
<1>5. base \in [Strings -> V]
  BY <1>4
<1>6. ASSUME NEW v \in V, NEW tag \in Strings, NEW value \in Strings
      PROVE  Extended(v, tag, value) \in V
  <2>1. CASE ~v.ok
    BY <1>4, <2>1 DEF Extended
  <2>2. CASE v.ok
    <3>1. PICK g \in Tables : v = [ok |-> TRUE, at |-> g]
      BY <2>2 DEF Malformed
    <3>2. PICK X \in SUBSET Strings : g \in [X -> Strings]
      BY <3>1
    <3> DEFINE k == [t \in X \cup {tag} |-> IF t \in X THEN g[t] ELSE value]
    <3>3. X \cup {tag} \in SUBSET Strings /\ k \in [X \cup {tag} -> Strings]
      BY <3>2
    <3>4. k \in Tables
      BY <3>3
    <3>5. v.ok = TRUE /\ v.at = g /\ DOMAIN g = X
      BY <3>1, <3>2
    <3>6. Extended(v, tag, value) = [ok |-> TRUE, at |-> k]
      BY <3>5 DEF Extended
    <3> HIDE DEF k, Tables
    <3> QED BY <3>4, <3>6
  <2> QED BY <2>1, <2>2
<1>7. step \in [Strings -> [V -> V]]
  <2>1. ASSUME NEW t \in Strings, NEW v \in V
        PROVE  (IF t \in stop THEN v ELSE Parsed(v, t)) \in V
    BY <1>6, BehindIsShorter DEF Parsed
  <2> HIDE DEF V, stop
  <2> QED BY <2>1
<1>8. PICK f \in [Strings -> V] : \A t \in Strings : Follows(f, t, stop, next, base, step)
  <2> HIDE DEF V, len, next, base, step, stop
  <2> QED BY <1>2, <1>3, <1>5, <1>7, LinearRecursion
<1>9. ASSUME NEW t \in Strings
      PROVE  f[t] = IF t = <<>> THEN Nothing
                    ELSE IF Broken(t) THEN Malformed ELSE Parsed(f[Behind(t)], t)
  <2>1. f[t] = IF t \in stop THEN base[t] ELSE step[t][f[next[t]]]
    BY <1>8 DEF Follows
  <2>2. base[t] = IF t = <<>> THEN Nothing ELSE Malformed
    OBVIOUS
  <2>3. t \in stop <=> t = <<>> \/ Broken(t)
    OBVIOUS
  <2>4. ASSUME t \notin stop PROVE step[t][f[next[t]]] = Parsed(f[Behind(t)], t)
    <3>1. next[t] = Behind(t) /\ Behind(t) \in Strings
      BY <2>4, BehindIsShorter
    <3>2. step[t] = [v \in V |-> Parsed(v, t)]
      BY <2>4
    <3>3. f[Behind(t)] \in V
      BY <3>1
    <3> HIDE DEF step, next, V
    <3> QED BY <3>1, <3>2, <3>3
  <2> HIDE DEF step, next, stop, base, V
  <2> QED BY <2>1, <2>2, <2>3, <2>4
<1>10. f = body(f)
  <2> HIDE DEF V
  <2> QED BY <1>8, <1>9
<1>11. Parse = body(Parse)
  <2> HIDE DEF body
  <2> QED BY <1>1, <1>10
<1> QED BY <1>11

\* Nothing is parsed of the empty string.
LEMMA ParseEmpty == Parse[<<>>] = Nothing
BY ParseSteps, EmptyString

-----------------------------------------------------------------------------
(* Writing objects, and reading them back.                                 *)

\* Two tags are written alike only if they are the same.
LEMMA TagsDiffer == \A m, n \in 0..99 : Tag(m) = Tag(n) => m = n
<1>1. \A n \in 0..99 : Number(Tag(n)) = n
  BY TwoDigitsReadBack DEF Tag
<1> QED BY <1>1

\* What is where in two or three strings put together.
FirstOf(a, b) == SubSeq(a \o b, 1, Len(a)) = a

LastOf(a, b) == SubSeq(a \o b, Len(a) + 1, Len(a) + Len(b)) = b

MiddleOf(a, b, c) == SubSeq((a \o b) \o c, Len(a) + 1, Len(a) + Len(b)) = b

\* The second of three strings can be cut out.
LEMMA MiddlePart ==
    ASSUME NEW a \in Strings, NEW b \in Strings, NEW c \in Strings, NEW m \in Nat, NEW n \in Nat,
           m = Len(a) + 1, n = Len(a) + Len(b)
    PROVE  SubSeq((a \o b) \o c, m, n) = b
<1>1. Len(a) \in Nat /\ Len(b) \in Nat /\ Len(c) \in Nat
  BY EmptyString
<1>2. /\ a \o b \in Strings /\ Len(a \o b) = n
      /\ \A i \in 1..Len(b) : (a \o b)[Len(a) + i] = b[i]
  BY Joined
<1>3. \A t \in Strings : /\ t \o c \in Strings /\ Len(t \o c) = Len(t) + Len(c)
                         /\ \A i \in 1..Len(t) : (t \o c)[i] = t[i]
  BY Joined
<1> DEFINE s == (a \o b) \o c
<1>4. s \in Strings /\ Len(s) = n + Len(c) /\ \A i \in 1..n : s[i] = (a \o b)[i]
  BY <1>2, <1>3
<1>5. n <= Len(s) /\ m \in Nat \ {0}
  BY <1>1, <1>4
<1> HIDE DEF s
<1>6. /\ SubSeq(s, m, n) \in Strings
      /\ Len(SubSeq(s, m, n)) = IF m <= n THEN n - m + 1 ELSE 0
      /\ \A i \in 1..(n - m + 1) : SubSeq(s, m, n)[i] = s[m + i - 1]
  BY <1>4, <1>5, Part
<1>7. n - m + 1 = Len(b) /\ \A i \in 1..Len(b) : m + i - 1 = Len(a) + i /\ Len(a) + i \in 1..n
  BY <1>1
<1>8. Len(SubSeq(s, m, n)) = Len(b) /\ \A i \in 1..Len(b) : SubSeq(s, m, n)[i] = b[i]
  <2>1. Len(SubSeq(s, m, n)) = Len(b)
    BY <1>1, <1>6
  <2>2. \A i \in 1..Len(b) : SubSeq(s, m, n)[i] = s[m + i - 1]
    BY <1>6, <1>7
  <2>3. \A i \in 1..Len(b) : s[m + i - 1] = b[i]
    BY <1>2, <1>4, <1>7
  <2> QED BY <2>1, <2>2, <2>3
<1>9. SubSeq(s, m, n) = b
  BY <1>6, <1>8, SameString
<1> QED BY <1>9 DEF s

\* The same, under names the provers find.
LEMMA PartsNamed ==
    /\ \A a, b \in Strings : FirstOf(a, b) /\ LastOf(a, b)
    /\ \A a, b, c \in Strings : MiddleOf(a, b, c)
<1>1. ASSUME NEW a \in Strings, NEW b \in Strings PROVE FirstOf(a, b)
  <2>1. Len(a) \in Nat
    BY EmptyString
  <2> QED BY <2>1, FirstPart DEF FirstOf
<1>2. ASSUME NEW a \in Strings, NEW b \in Strings PROVE LastOf(a, b)
  <2>1. Len(a) + 1 \in Nat /\ Len(a) + Len(b) \in Nat
    BY EmptyString
  <2> QED BY <2>1, LastPart DEF LastOf
<1>3. ASSUME NEW a \in Strings, NEW b \in Strings, NEW c \in Strings PROVE MiddleOf(a, b, c)
  <2>1. Len(a) + 1 \in Nat /\ Len(a) + Len(b) \in Nat
    BY EmptyString
  <2> QED BY <2>1, MiddlePart DEF MiddleOf
<1> QED BY <1>1, <1>2, <1>3

\* What is where in four strings put together.
Joins(a, b, c, d) ==
    /\ a \o b \in Strings /\ c \o d \in Strings
    /\ (a \o b) \o c \in Strings /\ b \o (c \o d) \in Strings
    /\ ((a \o b) \o c) \o d \in Strings
    /\ ((a \o b) \o c) \o d = (a \o b) \o (c \o d)
    /\ ((a \o b) \o c) \o d = a \o (b \o (c \o d))
    /\ Len(a \o b) = Len(a) + Len(b)
    /\ Len((a \o b) \o c) = Len(a) + Len(b) + Len(c)
    /\ Len(((a \o b) \o c) \o d) = Len(a) + Len(b) + Len(c) + Len(d)

\* Four strings put together come apart again.
LEMMA FourJoined ==
    ASSUME NEW a \in Strings, NEW b \in Strings, NEW c \in Strings, NEW d \in Strings
    PROVE  Joins(a, b, c, d)
<1>1. a \o b \in Strings /\ Len(a \o b) = Len(a) + Len(b)
  BY Joined
<1>2. c \o d \in Strings
  BY Joined
<1>3. b \o (c \o d) \in Strings
  BY <1>2, Joined
<1>4. (a \o b) \o c \in Strings /\ Len((a \o b) \o c) = Len(a \o b) + Len(c)
  BY <1>1, Joined
<1>5. ((a \o b) \o c) \o d \in Strings /\ Len(((a \o b) \o c) \o d) = Len((a \o b) \o c) + Len(d)
  BY <1>4, Joined
<1>6. ((a \o b) \o c) \o d = (a \o b) \o (c \o d)
  BY <1>1, JoinedTwice
<1>7. (a \o b) \o (c \o d) = a \o (b \o (c \o d))
  BY <1>2, JoinedTwice
<1>8. Len(a) \in Nat /\ Len(b) \in Nat /\ Len(c) \in Nat /\ Len(d) \in Nat
  BY EmptyString
<1>9. Len((a \o b) \o c) = Len(a) + Len(b) + Len(c)
  BY <1>1, <1>4, <1>8
<1>10. Len(((a \o b) \o c) \o d) = Len(a) + Len(b) + Len(c) + Len(d)
  BY <1>5, <1>8, <1>9
<1> QED BY <1>1, <1>2, <1>3, <1>4, <1>5, <1>6, <1>7, <1>9, <1>10 DEF Joins

\* The parts of an object, a tag and a length of two characters each, and of what follows it.
ObjectThen(a, b, c, d) ==
    LET all == ((a \o b) \o c) \o d
    IN  /\ (a \o b) \o c \in Strings /\ all \in Strings /\ Len(all) = 4 + Len(c) + Len(d)
        /\ SubSeq(all, 1, 2) = a /\ SubSeq(all, 3, 4) = b
        /\ SubSeq(all, 5, 4 + Len(c)) = c /\ SubSeq(all, 5 + Len(c), Len(all)) = d

\* A tag, a length and a value come apart again, whatever follows.
LEMMA PartsOfObject ==
    ASSUME NEW a \in Strings, NEW b \in Strings, NEW c \in Strings, NEW d \in Strings,
           Len(a) = 2, Len(b) = 2
    PROVE  ObjectThen(a, b, c, d)
<1> DEFINE all == ((a \o b) \o c) \o d
<1>1. Len(c) \in Nat /\ Len(d) \in Nat
  BY EmptyString
<1>2. Joins(a, b, c, d)
  BY FourJoined
<1>3. Len(a \o b) = 4 /\ Len((a \o b) \o c) = 4 + Len(c) /\ Len(all) = 4 + Len(c) + Len(d)
  BY <1>1, <1>2 DEF Joins
<1>4. SubSeq(all, 1, 2) = a
  <2>1. FirstOf(a, b \o (c \o d))
    BY <1>2, PartsNamed DEF Joins
  <2> QED BY <1>2, <2>1 DEF Joins, FirstOf
<1>5. SubSeq(all, 3, 4) = b
  <2>1. MiddleOf(a, b, c \o d)
    BY <1>2, PartsNamed DEF Joins
  <2>2. Len(a) + 1 = 3 /\ Len(a) + Len(b) = 4
    OBVIOUS
  <2> QED BY <1>2, <2>1, <2>2 DEF Joins, MiddleOf
<1>6. SubSeq(all, 5, 4 + Len(c)) = c
  <2>1. MiddleOf(a \o b, c, d)
    BY <1>2, PartsNamed DEF Joins
  <2>2. Len(a \o b) + 1 = 5 /\ Len(a \o b) + Len(c) = 4 + Len(c)
    BY <1>3
  <2> QED BY <2>1, <2>2 DEF MiddleOf
<1>7. SubSeq(all, 5 + Len(c), Len(all)) = d
  <2>1. LastOf((a \o b) \o c, d)
    BY <1>2, PartsNamed DEF Joins
  <2>2. Len((a \o b) \o c) + 1 = 5 + Len(c) /\ Len((a \o b) \o c) + Len(d) = Len(all)
    BY <1>1, <1>3
  <2> QED BY <2>1, <2>2 DEF LastOf
<1>8. (a \o b) \o c \in Strings /\ all \in Strings
  BY <1>2 DEF Joins
<1> HIDE DEF all
<1> QED BY <1>3, <1>4, <1>5, <1>6, <1>7, <1>8 DEF ObjectThen, all

\* One object before any string is read as that object and what the string is read as.
LEMMA ParseObject ==
    ASSUME NEW n \in 0..99, NEW v \in Strings, Len(v) <= 99, NEW w \in Strings
    PROVE  /\ (Tag(n) \o TwoDigits(Len(v), 10) \o v) \in Strings
           /\ Parse[(Tag(n) \o TwoDigits(Len(v), 10) \o v) \o w] = Extended(Parse[w], Tag(n), v)
<1>1. PICK l \in 0..99 : Len(v) = l
  <2>1. Len(v) \in Nat
    BY EmptyString
  <2>2. Len(v) \in 0..99
    <3> DEFINE l == Len(v)
    <3>1. l \in Nat /\ l <= 99
      BY <2>1
    <3> HIDE DEF l
    <3>2. l \in 0..99
      BY <3>1
    <3> QED BY <3>2 DEF l
  <2> QED BY <2>2, Zenon
<1> DEFINE tag == Tag(n)
           size == TwoDigits(l, 10)
           all == ((tag \o size) \o v) \o w
<1>2. tag \in Strings /\ Len(tag) = 2
  BY TwoDigitsReadBack DEF Tag
<1>3. size \in Strings /\ Len(size) = 2 /\ IsNumber(size) /\ Number(size) = l
  BY <1>1, TwoDigitsReadBack
<1> HIDE DEF tag, size
<1>5. /\ (tag \o size) \o v \in Strings /\ all \in Strings /\ Len(all) = 4 + l + Len(w)
      /\ SubSeq(all, 1, 2) = tag /\ SubSeq(all, 3, 4) = size
      /\ SubSeq(all, 5, 4 + l) = v /\ SubSeq(all, 5 + l, Len(all)) = w
  <2>1. ObjectThen(tag, size, v, w)
    BY <1>2, <1>3, PartsOfObject
  <2> QED BY <1>1, <2>1 DEF ObjectThen
<1> HIDE DEF all
<1>6. Size(all) = l
  BY <1>3, <1>5 DEF Size
<1>7. Len(w) \in Nat /\ Len(all) \in Nat /\ Len(all) >= 4 /\ ~(l > Len(all) - 4)
  BY <1>1, <1>5, EmptyString
<1>8. all # <<>> /\ ~Broken(all)
  <2>1. all # <<>>
    BY <1>5, <1>7, EmptyString
  <2>2. ~(Len(all) < 4) /\ ~(l < 0)
    BY <1>1, <1>7
  <2> QED BY <1>3, <1>5, <1>6, <1>7, <2>1, <2>2 DEF Broken
<1>9. Parse[all] = Parsed(Parse[Behind(all)], all)
  BY <1>5, <1>8, ParseSteps
<1>10. Behind(all) = w
  BY <1>5, <1>6 DEF Behind
<1>11. Parse[all] = Extended(Parse[w], tag, v)
  BY <1>5, <1>6, <1>9, <1>10 DEF Parsed
<1>12. (tag \o size) \o v \in Strings
  BY <1>5
<1> QED BY <1>1, <1>11, <1>12 DEF tag, size, all

-----------------------------------------------------------------------------
(* Templates.                                                              *)

\* Objects that have a tag each.
Listed(objects) ==
    /\ Len(objects) \in Nat
    /\ \A i \in 1..Len(objects) : objects[i][1] \in 0..99 /\ objects[i][2] \in Strings
    /\ \A i, j \in 1..Len(objects) : objects[i][1] = objects[j][1] => i = j

\* The tags from the i-th object on.
TagsFrom(objects, i) == {Tag(objects[j][1]) : j \in i..Len(objects)}

\* A string that is the objects from i on, with u after it.
ReadFrom(objects, i, b, u) ==
    /\ b \in Strings
    /\ Parse[b \o u].ok
    /\ DOMAIN Parse[b \o u].at \subseteq TagsFrom(objects, i) \cup DOMAIN Parse[u].at
    /\ \A j \in i..Len(objects) : Field(Parse[b \o u].at, objects[j][1]) = objects[j][2]

\* A string of X and then one of Y.
Combined(X, Y) == {a \o b : a \in X, b \in Y}

\* What is put together of members of two sets.
LEMMA CombinedIn ==
    /\ \A X, Y, c : c \in Combined(X, Y) <=> \E a \in X, b \in Y : c = a \o b
    /\ \A X, Y \in SUBSET Strings : Combined(X, Y) \in SUBSET Strings
<1>1. \A X, Y, c : c \in Combined(X, Y) <=> \E a \in X, b \in Y : c = a \o b
  BY DEF Combined
<1>2. ASSUME NEW X \in SUBSET Strings, NEW Y \in SUBSET Strings, NEW c \in Combined(X, Y)
      PROVE  c \in Strings
  <2>1. PICK a \in X, b \in Y : c = a \o b
    BY <1>1
  <2> QED BY <2>1, Joined
<1> QED BY <1>1, <1>2

\* f has what is written from each object on.
Chain(f, objects) ==
    /\ f[Len(objects) + 1] = {<<>>}
    /\ \A i \in 1..Len(objects) : f[i] = Combined(Object(objects[i]), f[i + 1])

\* What is written of an object.
LEMMA ObjectStrings ==
    ASSUME NEW o, o[1] \in 0..99, o[2] \in Strings
    PROVE  /\ Object(o) \subseteq Strings
           /\ o[2] = <<>> => Object(o) = {<<>>}
           /\ o[2] # <<>> => \A a \in Object(o) :
                                Len(o[2]) <= 99 /\ a = Tag(o[1]) \o TwoDigits(Len(o[2]), 10) \o o[2]
<1>1. <<>> \in Strings /\ Len(o[2]) \in Nat
  BY EmptyString
<1>2. ASSUME Len(o[2]) <= 99
      PROVE  (Tag(o[1]) \o TwoDigits(Len(o[2]), 10) \o o[2]) \in Strings
  BY <1>1, <1>2, ParseObject
<1>3. Object(o) = IF o[2] = <<>> THEN {<<>>}
                  ELSE IF Len(o[2]) > 99 THEN {}
                  ELSE {Tag(o[1]) \o TwoDigits(Len(o[2]), 10) \o o[2]}
  BY DEF Object, TLV
<1>4. CASE o[2] = <<>>
  BY <1>1, <1>3, <1>4
<1>5. CASE o[2] # <<>> /\ Len(o[2]) > 99
  BY <1>3, <1>5
<1>6. CASE o[2] # <<>> /\ ~(Len(o[2]) > 99)
  <2>1. Len(o[2]) <= 99
    BY <1>1, <1>6
  <2> QED BY <1>2, <1>3, <1>6, <2>1
<1> QED BY <1>4, <1>5, <1>6

\* How a template is written, from its last object on.
LEMMA TemplateSteps ==
    ASSUME NEW objects, Listed(objects)
    PROVE  \E f : Template(objects) = f[1] /\ Chain(f, objects)
<1> DEFINE n == Len(objects)
           D == 1..(n + 1)
           V == SUBSET Strings
           body(from) == [i \in 1..(n + 1) |->
                            IF i > n THEN {<<>>}
                            ELSE Combined(Object(objects[i]), from[i + 1])]
           from == CHOOSE from : from = body(from)
           size == [i \in D |-> n + 1 - i]
           stop == {n + 1}
           next == [i \in D |-> IF i = n + 1 THEN i ELSE i + 1]
           base == [i \in D |-> {<<>>}]
           step == [i \in D |-> [v \in V |-> IF i = n + 1 THEN v
                                             ELSE Combined(Object(objects[i]), v)]]
<1>1. n \in Nat
  BY DEF Listed
<1>2. Template(objects) = from[1]
  BY DEF Template, Combined
<1> HIDE DEF n
<1>3. /\ size \in [D -> Nat] /\ stop \in SUBSET D /\ next \in [D -> D]
      /\ \A i \in D \ stop : size[next[i]] < size[i]
  BY <1>1
<1>4. base \in [D -> V]
  BY EmptyString
<1>5. step \in [D -> [V -> V]]
  <2>1. ASSUME NEW i \in D, i # n + 1 PROVE Object(objects[i]) \in SUBSET Strings
    <3>1. i \in 1..n
      BY <1>1, <2>1
    <3> QED BY <3>1, ObjectStrings DEF Listed, n
  <2>2. ASSUME NEW i \in D, NEW v \in V
        PROVE  (IF i = n + 1 THEN v ELSE Combined(Object(objects[i]), v)) \in V
    BY <2>1, CombinedIn
  <2> HIDE DEF V, D
  <2> QED BY <2>2
<1>6. PICK f \in [D -> V] : \A i \in D : Follows(f, i, stop, next, base, step)
  <2> HIDE DEF D, V, size, next, base, step, stop
  <2> QED BY <1>3, <1>4, <1>5, LinearRecursion
<1>7. ASSUME NEW i \in D
      PROVE  f[i] = IF i > n THEN {<<>>} ELSE Combined(Object(objects[i]), f[i + 1])
  <2>1. f[i] = IF i \in stop THEN base[i] ELSE step[i][f[next[i]]]
    <3>1. Follows(f, i, stop, next, base, step)
      BY <1>6
    <3> HIDE DEF stop, next, base, step
    <3> QED BY <3>1 DEF Follows
  <2>2. i > n <=> i = n + 1
    BY <1>1
  <2>3. CASE i = n + 1
    BY <2>1, <2>2, <2>3
  <2>4. CASE i # n + 1
    <3>1. next[i] = i + 1 /\ i + 1 \in D
      BY <1>1, <2>4
    <3>2. f[i + 1] \in V
      BY <3>1
    <3>3. step[i] = [v \in V |-> Combined(Object(objects[i]), v)]
      BY <2>4
    <3>4. i \notin stop
      BY <2>4
    <3> HIDE DEF step, next, V, stop
    <3> QED BY <2>1, <2>2, <2>4, <3>1, <3>2, <3>3, <3>4
  <2> QED BY <2>3, <2>4
<1>8. f = body(f)
  <2> HIDE DEF V
  <2> QED BY <1>6, <1>7
<1>9. from = body(from)
  <2> HIDE DEF body
  <2> QED BY <1>8
<1> HIDE DEF from
<1>10. from[n + 1] = {<<>>}
  BY <1>1, <1>9
<1>11. \A i \in 1..n : i \in D /\ ~(i > n)
  BY <1>1
<1>12. \A i \in 1..n : from[i] = Combined(Object(objects[i]), from[i + 1])
  BY <1>9, <1>11
<1>13. Chain(from, objects)
  BY <1>10, <1>12 DEF Chain, n
<1> QED BY <1>2, <1>13

\* An object before a template that reads back reads back with it.
LEMMA ReadStep ==
    ASSUME NEW objects, Listed(objects), NEW i \in 1..Len(objects), NEW u \in Strings,
           Parse[u].ok, Tag(objects[i][1]) \notin DOMAIN Parse[u].at,
           NEW a \in Object(objects[i]), NEW c, ReadFrom(objects, i + 1, c, u)
    PROVE  ReadFrom(objects, i, a \o c, u)
<1> DEFINE n == Len(objects)
           o == objects[i]
           tag == Tag(o[1])
           w == c \o u
           rest == Parse[w]
<1>1. /\ n \in Nat /\ o[1] \in 0..99 /\ o[2] \in Strings
      /\ \A j \in 1..n : j # i => objects[j][1] \in 0..99 /\ objects[j][1] # o[1]
  BY DEF Listed
<1>2. /\ c \in Strings /\ rest.ok
      /\ DOMAIN rest.at \subseteq TagsFrom(objects, i + 1) \cup DOMAIN Parse[u].at
      /\ \A j \in (i + 1)..n : Field(rest.at, objects[j][1]) = objects[j][2]
  BY DEF ReadFrom
<1>3. a \in Strings /\ w \in Strings /\ a \o c \in Strings /\ (a \o c) \o u = a \o w
  <2>1. a \in Strings
    BY <1>1, ObjectStrings
  <2> QED BY <1>2, <2>1, Joined, JoinedTwice
<1>4. \A j \in i..n : j = i \/ (j \in (i + 1)..n /\ j \in 1..n /\ j # i)
  BY <1>1
<1>5. \A j \in (i + 1)..n : Tag(objects[j][1]) # tag
  <2>1. \A j \in (i + 1)..n : j \in 1..n /\ j # i
    BY <1>1
  <2> QED BY <1>1, <2>1, TagsDiffer
<1>6. tag \notin DOMAIN rest.at
  BY <1>2, <1>5 DEF TagsFrom
<1>7. TagsFrom(objects, i + 1) \subseteq TagsFrom(objects, i) /\ tag \in TagsFrom(objects, i)
  <2>1. i \in i..n /\ \A j \in (i + 1)..n : j \in i..n
    BY <1>1
  <2> QED BY <2>1 DEF TagsFrom
<1>8. CASE o[2] = <<>>
  <2>1. a \o w = w
    BY <1>1, <1>3, <1>8, ObjectStrings, JoinedEmpty
  <2>2. Field(rest.at, o[1]) = o[2]
    BY <1>6, <1>8 DEF Field
  <2> QED BY <1>2, <1>3, <1>4, <1>7, <2>1, <2>2 DEF ReadFrom
<1>9. CASE o[2] # <<>>
  <2>1. Len(o[2]) <= 99 /\ a = Tag(o[1]) \o TwoDigits(Len(o[2]), 10) \o o[2]
    BY <1>1, <1>9, ObjectStrings
  <2>2. Parse[a \o w] = Extended(rest, tag, o[2])
    BY <1>1, <1>3, <2>1, ParseObject
  <2>3. /\ Parse[a \o w].ok
        /\ DOMAIN Parse[a \o w].at = DOMAIN rest.at \cup {tag}
        /\ Parse[a \o w].at[tag] = o[2]
        /\ \A t \in DOMAIN rest.at : Parse[a \o w].at[t] = rest.at[t]
    BY <1>2, <1>6, <2>2 DEF Extended
  <2>4. Field(Parse[a \o w].at, o[1]) = o[2]
    BY <2>3 DEF Field
  <2>5. \A j \in (i + 1)..n : Field(Parse[a \o w].at, objects[j][1]) = objects[j][2]
    <3>1. \A j \in (i + 1)..n :
             Tag(objects[j][1]) \in DOMAIN Parse[a \o w].at <=> Tag(objects[j][1]) \in DOMAIN rest.at
      BY <1>5, <2>3
    <3> QED BY <1>2, <2>3, <3>1 DEF Field
  <2>6. DOMAIN Parse[a \o w].at \subseteq TagsFrom(objects, i) \cup DOMAIN Parse[u].at
    BY <1>2, <1>7, <2>3
  <2> QED BY <1>3, <1>4, <2>3, <2>4, <2>5, <2>6 DEF ReadFrom
<1> QED BY <1>8, <1>9

\* What was written of the objects is read back as them, whatever follows.
LEMMA TemplateReads ==
    ASSUME NEW objects, Listed(objects), NEW u \in Strings, Parse[u].ok,
           \A i \in 1..Len(objects) : Tag(objects[i][1]) \notin DOMAIN Parse[u].at,
           NEW b \in Template(objects)
    PROVE  ReadFrom(objects, 1, b, u)
<1> DEFINE n == Len(objects)
<1>1. n \in Nat
  BY DEF Listed
<1>2. PICK f : Template(objects) = f[1] /\ Chain(f, objects)
  BY TemplateSteps
<1> DEFINE Bad == {k \in 0..n : \E c \in f[n + 1 - k] : ~ReadFrom(objects, n + 1 - k, c, u)}
<1>3. Bad = {}
  <2> SUFFICES ASSUME Bad # {} PROVE FALSE
    OBVIOUS
  <2>1. Bad \subseteq Nat
    OBVIOUS
  <2>2. PICK k \in Bad : \A j \in Bad : k <= j
    <3> HIDE DEF Bad
    <3> QED BY <2>1, Least
  <2>3. PICK i \in 1..(n + 1) : i = n + 1 - k /\ (i <= n => i + 1 = n + 1 - (k - 1) /\ k - 1 \in 0..n)
    <3>1. /\ n + 1 - k \in 1..(n + 1)
          /\ n + 1 - k <= n => (n + 1 - k) + 1 = n + 1 - (k - 1) /\ k - 1 \in 0..n
      BY <1>1, <2>2
    <3> QED BY <3>1, Zenon
  <2>4. PICK c \in f[i] : ~ReadFrom(objects, i, c, u)
    BY <2>2, <2>3
  <2>5. CASE i = n + 1
    <3>1. c = <<>>
      BY <1>2, <2>4, <2>5 DEF Chain
    <3>2. \A j : j \notin i..n
      BY <1>1, <2>5
    <3> QED BY <2>4, <3>1, <3>2, EmptyString, JoinedEmpty DEF ReadFrom
  <2>6. CASE i # n + 1
    <3>1. i \in 1..n /\ i <= n
      BY <1>1, <2>6
    <3>2. PICK a \in Object(objects[i]), d \in f[i + 1] : c = a \o d
      <4>1. c \in Combined(Object(objects[i]), f[i + 1])
        BY <1>2, <2>4, <3>1 DEF Chain
      <4> QED BY <4>1 DEF Combined
    <3>3. ReadFrom(objects, i + 1, d, u)
      <4>1. k - 1 \in 0..n /\ ~(k <= k - 1) /\ i + 1 = n + 1 - (k - 1)
        BY <1>1, <2>2, <2>3, <3>1
      <4>2. k - 1 \notin Bad
        BY <2>2, <4>1
      <4> QED BY <3>2, <4>1, <4>2
    <3>4. ReadFrom(objects, i, c, u)
      BY <3>1, <3>2, <3>3, ReadStep
    <3> QED BY <2>4, <3>4
  <2> QED BY <2>5, <2>6
<1>4. n \in 0..n /\ n + 1 - n = 1
  BY <1>1
<1> QED BY <1>2, <1>3, <1>4

-----------------------------------------------------------------------------
(* The checksum in hexadecimal, and what a code garbled once still says.   *)

\* What Hex calls a bit and a nibble.
Bit(c, i) == IF i \in c THEN 1 ELSE 0

Nibble(c, k) == 8 * Bit(c, k + 3) + 4 * Bit(c, k + 2) + 2 * Bit(c, k + 1) + Bit(c, k)

\* A hexadecimal digit tells the four bits it stands for.
LEMMA NibbleTells ==
    /\ \A c, k : Nibble(c, k) \in 0..15
    /\ \A c, d, k : Digit(Nibble(c, k)) = Digit(Nibble(d, k)) =>
          /\ k \in c <=> k \in d
          /\ k + 1 \in c <=> k + 1 \in d
          /\ k + 2 \in c <=> k + 2 \in d
          /\ k + 3 \in c <=> k + 3 \in d
<1>1. \A c, i : Bit(c, i) \in {0, 1} /\ (Bit(c, i) = 1 <=> i \in c)
  BY DEF Bit
<1>2. \A c, k : Nibble(c, k) \in 0..15
  BY <1>1 DEF Nibble
<1>3. \A x, y \in 0..15 : Digit(x) = Digit(y) => x = y
  BY DEF Digit
<1>4. ASSUME NEW c, NEW d, NEW k, Digit(Nibble(c, k)) = Digit(Nibble(d, k))
      PROVE  /\ k \in c <=> k \in d
             /\ k + 1 \in c <=> k + 1 \in d
             /\ k + 2 \in c <=> k + 2 \in d
             /\ k + 3 \in c <=> k + 3 \in d
  <2>1. Nibble(c, k) = Nibble(d, k)
    BY <1>2, <1>3, <1>4
  <2>2. /\ Bit(c, k) = Bit(d, k) /\ Bit(c, k + 1) = Bit(d, k + 1)
        /\ Bit(c, k + 2) = Bit(d, k + 2) /\ Bit(c, k + 3) = Bit(d, k + 3)
    BY <1>1, <2>1 DEF Nibble
  <2> QED BY <1>1, <2>2
<1> QED BY <1>2, <1>4

\* The four digits of a checksum.
LEMMA HexIs ==
    \A c : Hex(c) = <<Digit(Nibble(c, 12)), Digit(Nibble(c, 8)), Digit(Nibble(c, 4)), Digit(Nibble(c, 0))>>
BY DEF Hex, Nibble, Bit

\* Printed checksums are the same only if the checksums are; the last two digits tell the low byte.
LEMMA HexTells ==
    ASSUME NEW c \in Registers, NEW d \in Registers
    PROVE  /\ Hex(c) \in Strings /\ Len(Hex(c)) = 4
           /\ \A i \in 1..4 : Upper(Hex(c)[i]) = Hex(c)[i]
           /\ Hex(c)[3] = Hex(d)[3] /\ Hex(c)[4] = Hex(d)[4] => Low(c) = Low(d)
           /\ Hex(c) = Hex(d) => c = d
<1>1. \A r : /\ Hex(r)[1] = Digit(Nibble(r, 12)) /\ Hex(r)[2] = Digit(Nibble(r, 8))
             /\ Hex(r)[3] = Digit(Nibble(r, 4)) /\ Hex(r)[4] = Digit(Nibble(r, 0))
  BY HexIs
<1>2. \A x \in 0..15 : Digit(x) \in Chars /\ Upper(Digit(x)) = Digit(x)
  BY DEF Digit, Chars, Upper
<1>3. \A i \in 1..4 : Hex(c)[i] \in Chars /\ Upper(Hex(c)[i]) = Hex(c)[i]
  <2>1. \A i \in 1..4 : i = 1 \/ i = 2 \/ i = 3 \/ i = 4
    OBVIOUS
  <2> QED BY <1>1, <1>2, <2>1, NibbleTells
<1>4. Len(Hex(c)) = 4 /\ Hex(c) \in Strings
  <2>1. \A w, x, y, z \in Chars : <<w, x, y, z>> \in Seq(Chars) /\ Len(<<w, x, y, z>>) = 4
    OBVIOUS
  <2> QED BY <1>2, <2>1, HexIs, NibbleTells DEF Strings
<1>5. ASSUME Hex(c)[3] = Hex(d)[3], Hex(c)[4] = Hex(d)[4]
      PROVE  \A j \in 0..7 : j \in c <=> j \in d
  <2>1. /\ 0 \in c <=> 0 \in d
        /\ 0 + 1 \in c <=> 0 + 1 \in d
        /\ 0 + 2 \in c <=> 0 + 2 \in d
        /\ 0 + 3 \in c <=> 0 + 3 \in d
    BY <1>1, <1>5, NibbleTells
  <2>2. /\ 4 \in c <=> 4 \in d
        /\ 4 + 1 \in c <=> 4 + 1 \in d
        /\ 4 + 2 \in c <=> 4 + 2 \in d
        /\ 4 + 3 \in c <=> 4 + 3 \in d
    BY <1>1, <1>5, NibbleTells
  <2>3. \A j \in 0..7 : j \in {0, 0 + 1, 0 + 2, 0 + 3, 4, 4 + 1, 4 + 2, 4 + 3}
    OBVIOUS
  <2> QED BY <2>1, <2>2, <2>3
<1>6. ASSUME Hex(c) = Hex(d) PROVE c = d
  <2>1. /\ 8 \in c <=> 8 \in d
        /\ 8 + 1 \in c <=> 8 + 1 \in d
        /\ 8 + 2 \in c <=> 8 + 2 \in d
        /\ 8 + 3 \in c <=> 8 + 3 \in d
    BY <1>1, <1>6, NibbleTells
  <2>2. /\ 12 \in c <=> 12 \in d
        /\ 12 + 1 \in c <=> 12 + 1 \in d
        /\ 12 + 2 \in c <=> 12 + 2 \in d
        /\ 12 + 3 \in c <=> 12 + 3 \in d
    BY <1>1, <1>6, NibbleTells
  <2>3. \A j \in 8..15 : j \in {8, 8 + 1, 8 + 2, 8 + 3, 12, 12 + 1, 12 + 2, 12 + 3}
    OBVIOUS
  <2>4. \A j \in 8..15 : j \in c <=> j \in d
    BY <2>1, <2>2, <2>3
  <2>5. \A j \in 0..7 : j \in c <=> j \in d
    BY <1>5, <1>6
  <2>6. \A j \in 0..15 : j \in c <=> j \in d
    BY <2>4, <2>5
  <2> QED BY <2>6 DEF Registers
<1> QED BY <1>3, <1>4, <1>5, <1>6 DEF Low

\* A checksum is a register.
LEMMA CrcIsARegister == \A s \in Strings : Crc16(s) \in Registers
<1> SUFFICES ASSUME NEW s \in Strings PROVE Crc16(s) \in Registers
  OBVIOUS
<1>1. PICK r : Trace(r, s) /\ Crc16(s) = r[Len(s)]
  BY CrcTrace
<1>2. Len(s) \in 0..Len(s)
  <2>1. Len(s) \in Nat
    BY EmptyString
  <2> QED BY <2>1
<1> QED BY <1>1, <1>2 DEF Trace

\* A string whose last four characters stand for its checksum.
LEMMA MatchesWhen ==
    ASSUME NEW g \in Strings, NEW x \in Strings, Len(x) = 4
    PROVE  CrcMatches(g \o x) <=> [i \in 1..4 |-> Upper(x[i])] = Hex(Crc16(g))
<1> DEFINE n == Len(g)
           t == g \o x
<1>1. n \in Nat /\ t \in Strings /\ Len(t) = n + 4
  <2>1. t \in Strings
    BY Joined
  <2>2. Len(t) = n + Len(x)
    BY Joined
  <2> QED BY <2>1, <2>2, EmptyString
<1>2. Len(t) - 3 = n + 1 /\ Len(t) - 4 = n /\ Len(t) = n + Len(x)
  BY <1>1
<1>3. SubSeq(t, Len(t) - 3, Len(t)) = x
  BY <1>2, PartsNamed DEF LastOf
<1>4. SubSeq(t, 1, Len(t) - 4) = g
  BY <1>2, PartsNamed DEF FirstOf
<1> HIDE DEF t
<1>5. CrcMatches(t) <=> [i \in 1..4 |-> Upper(x[i])] = Hex(Crc16(g))
  BY <1>3, <1>4 DEF CrcMatches
<1> QED BY <1>5 DEF t

\* What Garble makes of a string: a character misread, or two neighbours swapped.
MisreadAt(s, t, i, c) == i \in 1..Len(s) /\ c \in Misread /\ t = [s EXCEPT ![i] = c]

\* t is s with the i-th character and the next one swapped.
SwappedAt(s, t, i) ==
    i \in 1..(Len(s) - 1) /\ t = [s EXCEPT ![i] = s[i + 1], ![i + 1] = s[i]]

\* What Garble makes of a string.
Garbled(s, t) == (\E i, c : MisreadAt(s, t, i, c)) \/ (\E i : SwappedAt(s, t, i))

\* A garbled string is a string of the same length.
LEMMA GarbledString ==
    ASSUME NEW s \in Strings, NEW t
    PROVE  /\ \A i, c : MisreadAt(s, t, i, c) =>
                 /\ t \in Strings /\ Len(t) = Len(s) /\ t[i] = c
                 /\ \A j \in 1..Len(s) : j # i => t[j] = s[j]
           /\ \A i : SwappedAt(s, t, i) =>
                 /\ t \in Strings /\ Len(t) = Len(s) /\ t[i] = s[i + 1] /\ t[i + 1] = s[i]
                 /\ \A j \in 1..Len(s) : j # i /\ j # i + 1 => t[j] = s[j]
<1>1. Misread \subseteq Chars
  BY CodeAssumption
<1>2. ASSUME NEW i, NEW c, MisreadAt(s, t, i, c)
      PROVE  /\ t \in Strings /\ Len(t) = Len(s) /\ t[i] = c
             /\ \A j \in 1..Len(s) : j # i => t[j] = s[j]
  <2>1. i \in 1..Len(s) /\ c \in Chars /\ t = [s EXCEPT ![i] = c]
    BY <1>1, <1>2 DEF MisreadAt
  <2> QED BY <2>1, ExceptSeq DEF Strings
<1>3. ASSUME NEW i, SwappedAt(s, t, i)
      PROVE  /\ t \in Strings /\ Len(t) = Len(s) /\ t[i] = s[i + 1] /\ t[i + 1] = s[i]
             /\ \A j \in 1..Len(s) : j # i /\ j # i + 1 => t[j] = s[j]
  <2>1. i \in 1..(Len(s) - 1) /\ t = [s EXCEPT ![i] = s[i + 1], ![i + 1] = s[i]]
    BY <1>3 DEF SwappedAt
  <2>2. /\ i \in 1..Len(s) /\ i + 1 \in 1..Len(s) /\ i # i + 1
    BY <2>1, EmptyString
  <2>3. s[i] \in Chars /\ s[i + 1] \in Chars
    BY <2>2, CharOfString
  <2> DEFINE u == [s EXCEPT ![i] = s[i + 1]]
  <2>4. /\ u \in Strings /\ Len(u) = Len(s)
        /\ \A j \in 1..Len(s) : u[j] = IF j = i THEN s[i + 1] ELSE s[j]
    BY <2>2, <2>3, ExceptSeq DEF Strings
  <2>5. t = [u EXCEPT ![i + 1] = s[i]]
    BY <2>1
  <2> HIDE DEF u
  <2>6. /\ t \in Strings /\ Len(t) = Len(s)
        /\ \A j \in 1..Len(s) : t[j] = IF j = i + 1 THEN s[i] ELSE u[j]
    BY <2>2, <2>3, <2>4, <2>5, ExceptSeq DEF Strings
  <2> QED BY <2>2, <2>4, <2>6
<1> QED BY <1>2, <1>3

\* A string comes apart before its last four characters.
LEMMA Splits ==
    ASSUME NEW t \in Strings, NEW n \in Nat, Len(t) = n + 4
    PROVE  \E g, y \in Strings :
              /\ t = g \o y /\ Len(g) = n /\ Len(y) = 4
              /\ \A i \in 1..n : g[i] = t[i]
              /\ \A i \in 1..4 : y[i] = t[n + i]
<1> DEFINE g == SubSeq(t, 1, n)
           y == SubSeq(t, n + 1, n + 4)
<1>1. /\ g \in Strings /\ Len(g) = IF 1 <= n THEN n - 1 + 1 ELSE 0
      /\ \A i \in 1..(n - 1 + 1) : g[i] = t[1 + i - 1]
  <2>1. 1 \in Nat \ {0} /\ n <= Len(t)
    OBVIOUS
  <2> QED BY <2>1, Part
<1>2. /\ y \in Strings /\ Len(y) = IF n + 1 <= n + 4 THEN (n + 4) - (n + 1) + 1 ELSE 0
      /\ \A i \in 1..((n + 4) - (n + 1) + 1) : y[i] = t[(n + 1) + i - 1]
  <2>1. n + 1 \in Nat \ {0} /\ n + 4 \in Nat /\ n + 4 <= Len(t)
    OBVIOUS
  <2> QED BY <2>1, Part
<1> HIDE DEF g, y
<1>3. n - 1 + 1 = n /\ (1 <= n \/ n = 0) /\ \A i \in 1..n : 1 + i - 1 = i
  OBVIOUS
<1>4. n + 1 <= n + 4 /\ (n + 4) - (n + 1) + 1 = 4 /\ \A i \in 1..4 : (n + 1) + i - 1 = n + i
  OBVIOUS
<1>5. Len(g) = n /\ \A i \in 1..n : g[i] = t[i]
  BY <1>1, <1>3
<1>6. Len(y) = 4 /\ \A i \in 1..4 : y[i] = t[n + i]
  BY <1>2, <1>4
<1>7. g \o y \in Strings /\ Len(g \o y) = n + 4
      /\ (\A i \in 1..n : (g \o y)[i] = g[i]) /\ (\A i \in 1..4 : (g \o y)[n + i] = y[i])
  <2>1. /\ g \o y \in Strings /\ Len(g \o y) = Len(g) + Len(y)
        /\ \A i \in 1..Len(g) : (g \o y)[i] = g[i]
        /\ \A i \in 1..Len(y) : (g \o y)[Len(g) + i] = y[i]
    BY <1>1, <1>2, Joined
  <2> QED BY <1>5, <1>6, <2>1
<1>8. \A i \in 1..(n + 4) : i \in 1..n \/ (i - n \in 1..4 /\ n + (i - n) = i)
  OBVIOUS
<1>9. \A i \in 1..(n + 4) : (g \o y)[i] = t[i]
  BY <1>5, <1>6, <1>7, <1>8
<1>10. g \o y = t
  BY <1>7, <1>9, SameString
<1> QED BY <1>1, <1>2, <1>5, <1>6, <1>10

\* Garbled once, a code still matches its checksum only if nothing before the checksum changed.
LEMMA GarblingShows ==
    ASSUME NEW h \in Strings, h # <<>>, NEW t, Garbled(h \o Hex(Crc16(h)), t)
    PROVE  \E g, y \in Strings :
              t = g \o y /\ Len(g) = Len(h) /\ Len(y) = 4 /\ (g = h \/ ~CrcMatches(t))
<1> DEFINE n == Len(h)
           x == Hex(Crc16(h))
           s == h \o x
<1>1. /\ x \in Strings /\ Len(x) = 4 /\ \A i \in 1..4 : Upper(x[i]) = x[i]
  BY CrcIsARegister, HexTells
<1>2. n \in Nat /\ n > 0
  BY EmptyString
<1>3. /\ s \in Strings /\ Len(s) = n + 4
      /\ (\A i \in 1..n : s[i] = h[i]) /\ (\A i \in 1..4 : s[n + i] = x[i])
  <2>1. /\ h \o x \in Strings /\ Len(h \o x) = Len(h) + Len(x)
        /\ \A i \in 1..Len(h) : (h \o x)[i] = h[i]
        /\ \A i \in 1..Len(x) : (h \o x)[Len(h) + i] = x[i]
    BY <1>1, Joined
  <2> HIDE DEF x
  <2> QED BY <1>1, <2>1
<1>4. Garbled(s, t)
  OBVIOUS
<1> HIDE DEF n, x, s
<1>5. t \in Strings /\ Len(t) = n + 4
  BY <1>3, <1>4, GarbledString DEF Garbled
<1>6. PICK g, y \in Strings :
              /\ t = g \o y /\ Len(g) = n /\ Len(y) = 4
              /\ \A i \in 1..n : g[i] = t[i]
              /\ \A i \in 1..4 : y[i] = t[n + i]
  BY <1>2, <1>5, Splits
<1> SUFFICES ASSUME g # h, CrcMatches(t) PROVE FALSE
  BY <1>6 DEF n
<1>7. [i \in 1..4 |-> Upper(y[i])] = Hex(Crc16(g))
  BY <1>6, MatchesWhen
<1>8. \A i \in 1..4 : Hex(Crc16(g))[i] = Upper(y[i])
  BY <1>7
<1>9. Crc16(g) \in Registers /\ Crc16(h) \in Registers
  BY CrcIsARegister
\* Where the checksum itself is what was printed, that of the rest has changed.
<1>10. ASSUME \A i \in 1..4 : y[i] = x[i], Crc16(h) # Crc16(g) PROVE FALSE
  <2>1. \A i \in 1..4 : Hex(Crc16(g))[i] = x[i]
    BY <1>1, <1>8, <1>10
  <2>2. Hex(Crc16(g)) \in Strings /\ Len(Hex(Crc16(g))) = 4
    BY <1>9, HexTells
  <2>3. Hex(Crc16(g)) = Hex(Crc16(h))
    <3>1. Hex(Crc16(g)) = x
      BY <1>1, <2>1, <2>2, SameString
    <3> QED BY <3>1 DEF x
  <2> QED BY <1>9, <1>10, <2>3, HexTells
<1>11. \A j \in 1..n : j \in 1..(n + 4) /\ (t[j] = s[j] => g[j] = h[j])
  BY <1>2, <1>3, <1>6
<1>12. \A j \in 1..4 : n + j \in 1..(n + 4) /\ (t[n + j] = s[n + j] => y[j] = x[j])
  <2>1. \A j \in 1..4 : n + j \in 1..(n + 4)
    BY <1>2
  <2>2. \A j \in 1..4 : y[j] = t[n + j] /\ s[n + j] = x[j]
    BY <1>3, <1>6
  <2> QED BY <2>1, <2>2
<1>13. \E j \in 1..n : g[j] # h[j]
  BY <1>6, SameString DEF n
<1>14. ASSUME NEW i, NEW c, MisreadAt(s, t, i, c) PROVE FALSE
  <2>1. /\ \A j \in 1..(n + 4) : j # i => t[j] = s[j]
        /\ i \in 1..(n + 4)
    BY <1>3, <1>14, GarbledString DEF MisreadAt
  <2>2. i \in 1..n /\ g[i] # h[i]
    BY <1>11, <1>13, <2>1
  <2>3. \A j \in 1..n : j # i => h[j] = g[j]
    BY <1>11, <2>1
  <2>4. \A j \in 1..4 : n + j # i
    BY <1>2, <2>2
  <2>5. \A j \in 1..4 : y[j] = x[j]
    BY <1>12, <2>1, <2>4
  <2>6. Crc16(h) # Crc16(g)
    BY <1>6, <2>2, <2>3, MisreadTells DEF n
  <2> QED BY <1>10, <2>5, <2>6
<1>15. ASSUME NEW i, SwappedAt(s, t, i) PROVE FALSE
  <2>1. /\ \A j \in 1..(n + 4) : j # i /\ j # i + 1 => t[j] = s[j]
        /\ i \in 1..(n + 3) /\ t[i] = s[i + 1] /\ t[i + 1] = s[i]
    <3>0. i \in 1..(Len(s) - 1)
      BY <1>15 DEF SwappedAt
    <3>1. Len(s) - 1 = n + 3
      BY <1>2, <1>3
    <3>2. i \in 1..(n + 3)
      BY <3>0, <3>1
    <3> QED BY <1>3, <1>15, <3>1, <3>2, GarbledString
  <2>2. CASE i > n
    <3>1. \A j \in 1..n : j # i /\ j # i + 1
      BY <1>2, <2>1, <2>2
    <3> QED BY <1>11, <1>13, <2>1, <3>1
  <2>3. CASE i = n
    <3>1. /\ \A j \in 1..(n - 1) : j \in 1..n /\ j # i /\ j # i + 1
          /\ \A j \in {2, 3, 4} : j \in 1..4 /\ n + j # i /\ n + j # i + 1
          /\ n \in 1..n /\ \A j \in 1..n : j = n \/ j \in 1..(n - 1)
      BY <1>2, <2>3
    <3>2. \A j \in 1..(n - 1) : h[j] = g[j]
      BY <1>11, <2>1, <3>1
    <3>3. h[n] # g[n]
      BY <1>13, <3>1, <3>2
    <3>4. y[3] = x[3] /\ y[4] = x[4]
      BY <1>12, <2>1, <3>1
    <3>5. Hex(Crc16(g))[3] = x[3] /\ Hex(Crc16(g))[4] = x[4]
      BY <1>1, <1>8, <3>4
    <3>6. Low(Crc16(h)) = Low(Crc16(g))
      BY <1>9, <3>5, HexTells DEF x
    <3> QED BY <1>2, <1>6, <3>2, <3>3, <3>6, LastTells DEF n
  <2>4. CASE i < n
    <3>1. /\ i \in 1..n /\ i + 1 \in 1..n /\ i \in 1..(n - 1)
          /\ \A j \in 1..4 : n + j # i /\ n + j # i + 1
      BY <1>2, <2>1, <2>4
    <3>2. \A j \in 1..4 : y[j] = x[j]
      BY <1>12, <2>1, <3>1
    <3>3. \A j \in 1..n : j # i /\ j # i + 1 => h[j] = g[j]
      BY <1>11, <2>1
    <3>4. g[i] = h[i + 1] /\ g[i + 1] = h[i]
      BY <1>3, <1>6, <2>1, <3>1
    <3>5. h[i] # h[i + 1]
      BY <1>13, <3>3, <3>4
    <3>6. Crc16(h) # Crc16(g)
      BY <1>6, <3>1, <3>3, <3>4, <3>5, SwapTells DEF n
    <3> QED BY <1>10, <3>2, <3>6
  <2> QED BY <1>2, <2>1, <2>2, <2>3, <2>4
<1> QED BY <1>4, <1>14, <1>15 DEF Garbled

-----------------------------------------------------------------------------
(* A payload, encoded and decoded.                                         *)

\* The form of a payload: its fields are strings.
IsPayload(p) ==
    /\ p.initiation \in Strings /\ p.amount \in Strings /\ p.nmid \in Strings
    /\ p.mcc \in Strings /\ p.name \in Strings /\ p.city \in Strings
    /\ p.postal \in Strings /\ p.label \in Strings

\* What Encode writes, object by object.
AccountObjects(p) == << <<0, AcquirerGUID>>, <<1, p.nmid>> >>

MoreObjects(p) == << <<5, p.label>> >>

RootObjects(p, account, additional) ==
    << <<0, <<48, 49>>>>, <<1, p.initiation>>, <<26, account>>,
       <<52, p.mcc>>, <<53, <<51, 54, 48>>>>, <<54, p.amount>>,
       <<58, <<73, 68>>>>, <<59, p.name>>, <<60, p.city>>,
       <<61, p.postal>>, <<62, additional>> >>

\* body is the body of a code for p.
BodyOf(p, body) ==
    \E account \in Template(AccountObjects(p)), additional \in Template(MoreObjects(p)) :
        body \in Template(RootObjects(p, account, additional))

\* A body with the head of the checksum.
Headed(body) == body \o Tag(63) \o <<48, 52>>

\* What Encode writes: the body, the head of the checksum and the checksum.
LEMMA EncodeIs ==
    ASSUME NEW p
    PROVE  /\ \A s \in Encode(p) : \E body : BodyOf(p, body) /\ s = Headed(body) \o Hex(Crc16(Headed(body)))
           /\ \A body : BodyOf(p, body) => Headed(body) \o Hex(Crc16(Headed(body))) \in Encode(p)
<1> DEFINE Bodies == UNION {Template(RootObjects(p, account, additional)) :
                              account \in Template(AccountObjects(p)),
                              additional \in Template(MoreObjects(p))}
<1>1. Encode(p) = {Sealed(body) : body \in Bodies}
  BY DEF Encode, RootObjects, AccountObjects, MoreObjects
<1>2. \A body : body \in Bodies <=> BodyOf(p, body)
  BY DEF BodyOf
<1> HIDE DEF Bodies
<1>3. \A body : Sealed(body) = Headed(body) \o Hex(Crc16(Headed(body)))
  BY DEF Sealed, Headed
<1> QED BY <1>1, <1>2, <1>3

\* The objects of a payload have a tag each.
LEMMA ObjectsListed ==
    ASSUME NEW p, IsPayload(p), NEW account \in Strings, NEW additional \in Strings
    PROVE  /\ Listed(AccountObjects(p)) /\ Listed(MoreObjects(p))
           /\ Listed(RootObjects(p, account, additional))
<1>1. <<48, 49>> \in Strings /\ <<73, 68>> \in Strings /\ <<51, 54, 48>> \in Strings
  BY DEF Strings, Chars
<1>2. AcquirerGUID \in Strings
  BY CodeAssumption
<1>3. Listed(AccountObjects(p))
  <2> DEFINE o == AccountObjects(p)
  <2>1. Len(o) = 2 /\ o[1] = <<0, AcquirerGUID>> /\ o[2] = <<1, p.nmid>>
    BY DEF AccountObjects
  <2> HIDE DEF o
  <2>2. \A i \in 1..2 : i = 1 \/ i = 2
    OBVIOUS
  <2> QED BY <1>2, <2>1, <2>2 DEF Listed, IsPayload, o
<1>4. Listed(MoreObjects(p))
  <2> DEFINE o == MoreObjects(p)
  <2>1. Len(o) = 1 /\ o[1] = <<5, p.label>>
    BY DEF MoreObjects
  <2> HIDE DEF o
  <2>2. \A i \in 1..1 : i = 1
    OBVIOUS
  <2> QED BY <2>1, <2>2 DEF Listed, IsPayload, o
<1>5. Listed(RootObjects(p, account, additional))
  <2> DEFINE o == RootObjects(p, account, additional)
  <2>1. /\ Len(o) = 11
        /\ o[1] = <<0, <<48, 49>>>> /\ o[2] = <<1, p.initiation>> /\ o[3] = <<26, account>>
        /\ o[4] = <<52, p.mcc>> /\ o[5] = <<53, <<51, 54, 48>>>> /\ o[6] = <<54, p.amount>>
        /\ o[7] = <<58, <<73, 68>>>> /\ o[8] = <<59, p.name>> /\ o[9] = <<60, p.city>>
        /\ o[10] = <<61, p.postal>> /\ o[11] = <<62, additional>>
    BY DEF RootObjects
  <2> HIDE DEF o
  <2>2. \A i \in 1..11 : \/ i = 1 \/ i = 2 \/ i = 3 \/ i = 4 \/ i = 5 \/ i = 6 \/ i = 7
                         \/ i = 8 \/ i = 9 \/ i = 10 \/ i = 11
    OBVIOUS
  <2>3. /\ o[1][1] = 0 /\ o[2][1] = 1 /\ o[3][1] = 26 /\ o[4][1] = 52 /\ o[5][1] = 53
        /\ o[6][1] = 54 /\ o[7][1] = 58 /\ o[8][1] = 59 /\ o[9][1] = 60 /\ o[10][1] = 61
        /\ o[11][1] = 62
    BY <2>1
  <2>4. /\ o[1][2] \in Strings /\ o[2][2] \in Strings /\ o[3][2] \in Strings
        /\ o[4][2] \in Strings /\ o[5][2] \in Strings /\ o[6][2] \in Strings
        /\ o[7][2] \in Strings /\ o[8][2] \in Strings /\ o[9][2] \in Strings
        /\ o[10][2] \in Strings /\ o[11][2] \in Strings
    BY <1>1, <2>1 DEF IsPayload
  <2>5. \A i \in 1..11 : o[i][1] \in 0..99 /\ o[i][2] \in Strings
    BY <2>2, <2>3, <2>4
  <2>6. \A i, j \in 1..11 : o[i][1] = o[j][1] => i = j
    BY <2>2, <2>3
  <2>7. Listed(o)
    BY <2>1, <2>5, <2>6 DEF Listed
  <2> QED BY <2>7 DEF o
<1> QED BY <1>3, <1>4, <1>5

\* What is decoded of an encoded payload, whatever stands for its checksum.
Reading(p, s) ==
    [nmid |-> p.nmid, initiation |-> p.initiation, amount |-> p.amount, name |-> p.name,
     city |-> p.city, mcc |-> p.mcc, label |-> p.label, crcValid |-> CrcMatches(s)]

\* A template with nothing behind it reads back.
LEMMA TemplateAlone ==
    ASSUME NEW objects, Listed(objects), NEW b \in Template(objects)
    PROVE  /\ b \in Strings /\ Parse[b].ok
           /\ \A i \in 1..Len(objects) : Field(Parse[b].at, objects[i][1]) = objects[i][2]
<1>1. /\ <<>> \in Strings /\ Parse[<<>>].ok
      /\ \A i \in 1..Len(objects) : Tag(objects[i][1]) \notin DOMAIN Parse[<<>>].at
  BY EmptyString, ParseEmpty DEF Nothing
<1>2. ReadFrom(objects, 1, b, <<>>)
  BY <1>1, TemplateReads
<1>3. b \o <<>> = b
  BY <1>2, JoinedEmpty DEF ReadFrom
<1> QED BY <1>2, <1>3 DEF ReadFrom

\* Decode reads of a body what Encode wrote into it, whatever the checksum.
LEMMA DecodeEncoded ==
    ASSUME NEW p, IsPayload(p), NEW body, BodyOf(p, body), NEW y \in Strings, Len(y) = 4
    PROVE  /\ Headed(body) \in Strings /\ Headed(body) # <<>>
           /\ Decode(Headed(body) \o y) = {Reading(p, Headed(body) \o y)}
<1>1. PICK account \in Template(AccountObjects(p)), additional \in Template(MoreObjects(p)) :
         body \in Template(RootObjects(p, account, additional))
  BY DEF BodyOf
<1>2. Listed(AccountObjects(p)) /\ Listed(MoreObjects(p))
  BY EmptyString, ObjectsListed
<1>3. /\ account \in Strings /\ Parse[account].ok /\ Field(Parse[account].at, 1) = p.nmid
  <2>1. Len(AccountObjects(p)) = 2 /\ AccountObjects(p)[2] = <<1, p.nmid>>
    BY DEF AccountObjects
  <2>2. 2 \in 1..2 /\ AccountObjects(p)[2][1] = 1 /\ AccountObjects(p)[2][2] = p.nmid
    BY <2>1
  <2>3. /\ account \in Strings /\ Parse[account].ok
        /\ \A i \in 1..Len(AccountObjects(p)) :
              Field(Parse[account].at, AccountObjects(p)[i][1]) = AccountObjects(p)[i][2]
    BY <1>1, <1>2, TemplateAlone
  <2> QED BY <2>1, <2>2, <2>3
<1>4. /\ additional \in Strings /\ Parse[additional].ok /\ Field(Parse[additional].at, 5) = p.label
  <2>1. Len(MoreObjects(p)) = 1 /\ MoreObjects(p)[1] = <<5, p.label>>
    BY DEF MoreObjects
  <2>2. 1 \in 1..1 /\ MoreObjects(p)[1][1] = 5 /\ MoreObjects(p)[1][2] = p.label
    BY <2>1
  <2>3. /\ additional \in Strings /\ Parse[additional].ok
        /\ \A i \in 1..Len(MoreObjects(p)) :
              Field(Parse[additional].at, MoreObjects(p)[i][1]) = MoreObjects(p)[i][2]
    BY <1>1, <1>2, TemplateAlone
  <2> QED BY <2>1, <2>2, <2>3
<1> DEFINE o == RootObjects(p, account, additional)
           u == Tag(63) \o <<48, 52>> \o y
           s == Headed(body) \o y
<1>5. Listed(o) /\ Len(o) = 11
  BY <1>3, <1>4, ObjectsListed DEF RootObjects
<1>6. u \in Strings /\ Parse[u] = Extended(Nothing, Tag(63), y)
  <2>1. TwoDigits(4, 10) = <<48, 52>>
    BY DEF TwoDigits, Digit
  <2>2. 63 \in 0..99 /\ Len(y) <= 99 /\ <<>> \in Strings
    BY EmptyString
  <2>3. /\ Tag(63) \o TwoDigits(Len(y), 10) \o y \in Strings
        /\ Parse[(Tag(63) \o TwoDigits(Len(y), 10) \o y) \o <<>>] = Extended(Parse[<<>>], Tag(63), y)
    BY <2>2, ParseObject
  <2>4. u \in Strings /\ Parse[u \o <<>>] = Extended(Parse[<<>>], Tag(63), y)
    BY <2>1, <2>3
  <2> HIDE DEF u
  <2> QED BY <2>4, ParseEmpty, JoinedEmpty
<1>7. Parse[u].ok /\ DOMAIN Parse[u].at = {Tag(63)}
  BY <1>6 DEF Extended, Nothing
<1>8. \A i \in 1..11 : Tag(o[i][1]) # Tag(63)
  <2>1. \A i \in 1..11 : o[i][1] \in 0..99 /\ o[i][1] # 63
    <3>1. \A i \in 1..11 : \/ i = 1 \/ i = 2 \/ i = 3 \/ i = 4 \/ i = 5 \/ i = 6 \/ i = 7
                         \/ i = 8 \/ i = 9 \/ i = 10 \/ i = 11
      OBVIOUS
    <3>2. /\ o[1][1] = 0 /\ o[2][1] = 1 /\ o[3][1] = 26 /\ o[4][1] = 52 /\ o[5][1] = 53
          /\ o[6][1] = 54 /\ o[7][1] = 58 /\ o[8][1] = 59 /\ o[9][1] = 60 /\ o[10][1] = 61
          /\ o[11][1] = 62
      BY DEF RootObjects
    <3> HIDE DEF o
    <3> QED BY <3>1, <3>2
  <2>2. 63 \in 0..99
    OBVIOUS
  <2> HIDE DEF o
  <2> QED BY <2>1, <2>2, TagsDiffer
<1>9. ReadFrom(o, 1, body, u)
  <2> HIDE DEF u, o
  <2> QED BY <1>1, <1>5, <1>6, <1>7, <1>8, TemplateReads DEF o
<1>10. body \in Strings
  BY <1>9 DEF ReadFrom
<1>11. /\ Tag(63) \in Strings /\ Len(Tag(63)) = 2
       /\ <<48, 52>> \in Strings /\ Len(<<48, 52>>) = 2
  <2>1. 63 \in 0..99 /\ 48 \in Chars /\ 52 \in Chars
    BY DEF Chars
  <2> QED BY <2>1, TwoDigitsReadBack, TwoChars DEF Tag
<1>12. /\ Headed(body) \in Strings /\ Headed(body) # <<>>
       /\ s \in Strings /\ s = body \o u /\ Len(s) >= 4
  <2> DEFINE a == Tag(63)
             b == <<48, 52>>
  <2>1. PICK n \in Nat : n = Len(body)
    BY <1>10, EmptyString
  <2> HIDE DEF a, b
  <2>2. Joins(body, a, b, y)
    BY <1>10, <1>11, FourJoined DEF a, b
  <2>3. /\ Headed(body) = (body \o a) \o b
        /\ s = ((body \o a) \o b) \o y /\ u = (a \o b) \o y
    BY DEF Headed, a, b
  <2>4. (body \o a) \o b \in Strings /\ ((body \o a) \o b) \o y \in Strings
        /\ ((body \o a) \o b) \o y = body \o (a \o (b \o y))
        /\ Len((body \o a) \o b) = n + 4
        /\ Len(((body \o a) \o b) \o y) = n + 8
    <3>1. Len(a) = 2 /\ Len(b) = 2
      BY <1>11 DEF a, b
    <3>2. Len((body \o a) \o b) = n + 2 + 2 /\ Len(((body \o a) \o b) \o y) = n + 2 + 2 + 4
      BY <2>1, <2>2, <3>1 DEF Joins
    <3>3. n + 2 + 2 = n + 4 /\ n + 2 + 2 + 4 = n + 8
      OBVIOUS
    <3> QED BY <2>2, <3>2, <3>3 DEF Joins
  <2>5. (a \o b) \o y = a \o (b \o y)
    BY <1>11, JoinedTwice DEF a, b
  <2>6. n + 8 >= 4 /\ n + 4 # 0
    OBVIOUS
  <2>7. Headed(body) # <<>>
    BY <2>3, <2>4, <2>6, EmptyString
  <2> HIDE DEF s, u
  <2> QED BY <2>3, <2>4, <2>5, <2>6, <2>7
<1> DEFINE root == Parse[s]
<1>13. /\ root.ok
       /\ Field(root.at, 1) = p.initiation /\ Field(root.at, 26) = account
       /\ Field(root.at, 52) = p.mcc /\ Field(root.at, 54) = p.amount
       /\ Field(root.at, 59) = p.name /\ Field(root.at, 60) = p.city
       /\ Field(root.at, 62) = additional
  <2>1. root.ok /\ \A i \in 1..11 : Field(root.at, o[i][1]) = o[i][2]
    BY <1>5, <1>9, <1>12 DEF ReadFrom
  <2>2. /\ o[2] = <<1, p.initiation>> /\ o[3] = <<26, account>>
        /\ o[4] = <<52, p.mcc>> /\ o[6] = <<54, p.amount>>
        /\ o[8] = <<59, p.name>> /\ o[9] = <<60, p.city>> /\ o[11] = <<62, additional>>
    BY DEF RootObjects
  <2> HIDE DEF o, s
  <2>3. /\ 2 \in 1..11 /\ 3 \in 1..11 /\ 4 \in 1..11 /\ 6 \in 1..11 /\ 8 \in 1..11
        /\ 9 \in 1..11 /\ 11 \in 1..11
    OBVIOUS
  <2> QED BY <2>1, <2>2, <2>3
<1>14. Decode(s) = {Reading(p, s)}
  <2> HIDE DEF s, u, o
  <2>1. (Len(s) >= 4 /\ CrcMatches(s)) = CrcMatches(s)
    BY <1>12 DEF CrcMatches
  <2> QED BY <1>3, <1>4, <1>13, <2>1 DEF Decode, Reading
<1> QED BY <1>12, <1>14

-----------------------------------------------------------------------------
(* From the printing of a code to its payment.                             *)

\* The payload of GenerateCharge is of that form, and says what was asked for.
LEMMA PayloadIs ==
    ASSUME NEW m \in Merchants, NEW order \in Orders
    PROVE  LET p == PayloadOf(m, order)
           IN  /\ IsPayload(p) /\ p.nmid = m.nmid
               /\ order.type = "DYNAMIC" =>
                     IsDynamic(p) /\ p.amount # <<>> /\ MajorToMinor(p.amount) = {order.amount}
               /\ order.type # "DYNAMIC" => ~IsDynamic(p)
<1> DEFINE p == PayloadOf(m, order)
<1>1. /\ m.nmid \in Strings /\ m.name \in Strings /\ m.city \in Strings /\ m.mcc \in Strings
      /\ m.postal \in Strings
      /\ order.type \in {"STATIC", "DYNAMIC"} /\ order.amount \in Nat /\ order.label \in Strings
  BY CodeAssumption
<1>2. /\ p.nmid = m.nmid /\ p.mcc = m.mcc /\ p.name = m.name /\ p.city = m.city
      /\ p.postal = m.postal /\ p.label = order.label
      /\ p.initiation = IF order.type = "STATIC" THEN <<49, 49>> ELSE <<49, 50>>
      /\ p.amount = IF order.type = "DYNAMIC" THEN MinorToMajor(order.amount) ELSE <<>>
  BY DEF PayloadOf
<1> HIDE DEF p
<1>3. /\ MinorToMajor(order.amount) \in Strings /\ MinorToMajor(order.amount) # <<>>
      /\ MajorToMinor(MinorToMajor(order.amount)) = {order.amount}
  BY <1>1, AmountReadsBack
<1>4. <<49, 49>> \in Strings /\ <<49, 50>> \in Strings
  <2>1. 49 \in Chars /\ 50 \in Chars
    BY DEF Chars
  <2> QED BY <2>1, TwoChars
<1>5. p.initiation \in Strings /\ p.amount \in Strings
  BY <1>2, <1>3, <1>4, EmptyString
<1>6. IsPayload(p)
  BY <1>1, <1>2, <1>5 DEF IsPayload
<1>7. <<49, 49>> # <<49, 50>>
  OBVIOUS
<1>8. order.type = "DYNAMIC" => IsDynamic(p) /\ p.amount # <<>> /\ MajorToMinor(p.amount) = {order.amount}
  BY <1>2, <1>3 DEF IsDynamic
<1>9. order.type # "DYNAMIC" => ~IsDynamic(p)
  BY <1>1, <1>2, <1>7 DEF IsDynamic
<1> QED BY <1>2, <1>6, <1>8, <1>9 DEF p

\* Decode has one answer.
LEMMA DecodeIsOne ==
    ASSUME NEW s
    PROVE  /\ \A a, b \in Decode(s) : a = b
           /\ \A a \in Decode(s) : a.crcValid => CrcMatches(s)
           /\ \A a \in Decode(s) : a.crcValid \in BOOLEAN
<1> DEFINE one ==
             [nmid |-> Field(Parse[Field(Parse[s].at, 26)].at, 1), initiation |-> Field(Parse[s].at, 1),
              amount |-> Field(Parse[s].at, 54), name |-> Field(Parse[s].at, 59),
              city |-> Field(Parse[s].at, 60), mcc |-> Field(Parse[s].at, 52),
              label |-> Field(Parse[Field(Parse[s].at, 62)].at, 5),
              crcValid |-> Len(s) >= 4 /\ CrcMatches(s)]
<1>1. \A a \in Decode(s) : a = one
  BY DEF Decode
<1>2. one.crcValid = (Len(s) >= 4 /\ CrcMatches(s))
  OBVIOUS
<1> HIDE DEF one
<1> QED BY <1>1, <1>2

\* What is in the payer's hands: the code printed, or that garbled once.
InHand(qr, s) == s = qr \/ Garbled(qr, s)

\* What can be paid of a printed string, in whatever form it is in hand, says what was printed;
\* and as it was printed it can be paid.
LEMMA InHandReads ==
    ASSUME NEW p, IsPayload(p), NEW qr \in Encode(p), NEW s, InHand(qr, s)
    PROVE  /\ qr \in Strings /\ s \in Strings
           /\ \A a \in Payable(s) : a.nmid = p.nmid /\ a.initiation = p.initiation /\ a.amount = p.amount
           /\ Payable(qr) # {}
<1>1. PICK body : BodyOf(p, body) /\ qr = Headed(body) \o Hex(Crc16(Headed(body)))
  BY EncodeIs
<1> DEFINE h == Headed(body)
           x == Hex(Crc16(h))
<1>2. h \in Strings /\ h # <<>>
  <2>1. 48 \in Chars
    BY DEF Chars
  <2>2. <<48>> \o <<48>> \o <<48>> \o <<48>> \in Strings /\ Len(<<48>> \o <<48>> \o <<48>> \o <<48>>) = 4
    BY <2>1 DEF Strings
  <2> QED BY <1>1, <2>2, DecodeEncoded
<1>3. /\ x \in Strings /\ Len(x) = 4 /\ \A i \in 1..4 : Upper(x[i]) = x[i]
  BY <1>2, CrcIsARegister, HexTells
<1>4. \A y \in Strings : Len(y) = 4 => Decode(h \o y) = {Reading(p, h \o y)}
  BY <1>1, DecodeEncoded
<1> HIDE DEF h
<1>5. qr = h \o x
  BY <1>1 DEF h
<1>6. qr \in Strings
  BY <1>2, <1>3, <1>5, Joined
<1>7. CrcMatches(qr)
  <2>1. x \in [1..4 -> Chars]
    BY <1>3, LenProperties DEF Strings
  <2>2. [i \in 1..4 |-> Upper(x[i])] = x
    BY <1>3, <2>1
  <2> QED BY <1>2, <1>3, <1>5, <2>2, MatchesWhen
<1>8. Payable(qr) # {}
  <2>1. Reading(p, qr) \in Decode(qr) /\ Reading(p, qr).crcValid
    BY <1>3, <1>4, <1>5, <1>7 DEF Reading
  <2> QED BY <2>1 DEF Payable
<1>9. ASSUME NEW y \in Strings, Len(y) = 4, NEW a \in Payable(h \o y)
      PROVE  a.nmid = p.nmid /\ a.initiation = p.initiation /\ a.amount = p.amount
  <2>1. a = Reading(p, h \o y)
    BY <1>4, <1>9 DEF Payable
  <2> QED BY <2>1 DEF Reading
<1>10. CASE s = qr
  BY <1>3, <1>5, <1>6, <1>8, <1>9, <1>10
<1>11. CASE Garbled(qr, s)
  <2>1. PICK g, y \in Strings : s = g \o y /\ Len(g) = Len(h) /\ Len(y) = 4 /\ (g = h \/ ~CrcMatches(s))
    BY <1>2, <1>5, <1>11, GarblingShows
  <2>2. s \in Strings
    BY <2>1, Joined
  <2>3. \A a \in Payable(s) : CrcMatches(s)
    BY DecodeIsOne DEF Payable
  <2>4. \A a \in Payable(s) : a.nmid = p.nmid /\ a.initiation = p.initiation /\ a.amount = p.amount
    BY <1>9, <2>1, <2>3
  <2> QED BY <1>6, <1>8, <2>2, <2>4
<1> QED BY <1>10, <1>11 DEF InHand

-----------------------------------------------------------------------------
(* The inductive invariant of CodeSpec.                                    *)

\* RegisterMerchant lets an NMID in once.
OneOfEach == \A m, k \in registry : m.nmid = k.nmid => m = k

\* The charge and the string that goes with it.
Printed ==
    IF charge.kind = "printed"
    THEN /\ charge.merchant \in registry /\ charge.order \in Orders
         /\ charge.qr \in Encode(PayloadOf(charge.merchant, charge.order))
         /\ InHand(charge.qr, scan)
    ELSE screen = None /\ payment = None /\ scan = <<>>

\* The screen shows what Decode answers.
ScreenShows ==
    screen.kind = "shown" =>
        \E p \in Decode(scan) :
            /\ screen.nmid = p.nmid
            /\ screen.amount = IF p.amount = <<>> THEN {} ELSE MajorToMinor(p.amount)
            /\ screen.dynamic = IsDynamic(p)
            /\ screen.crcValid = p.crcValid

\* A payment was of a string that may be paid; one refused was of none, or of no amount.
Settled ==
    /\ payment.kind = "paid" =>
          /\ Payable(scan) # {}
          /\ payment.account = charge.merchant.account
          /\ payment.amount = Asked(payment.entered)
    /\ payment.kind = "refused" =>
          \/ Payable(scan) = {}
          \/ charge.order.type # "DYNAMIC" /\ payment.entered = 0

\* The inductive invariant.
CodeInv == CodeTypeOK /\ OneOfEach /\ Printed /\ ScreenShows /\ Settled

\* It holds at first.
LEMMA CodeInitInv == CodeInit => CodeInv
BY EmptyString DEF CodeInit, CodeInv, CodeTypeOK, OneOfEach, Printed, ScreenShows, Settled, None

\* What may be paid of the string in hand, for the charge that was printed.
LEMMA PayableIs ==
    ASSUME CodeInv, charge.kind = "printed"
    PROVE  /\ charge.merchant \in Merchants /\ Owner(charge.merchant.nmid) = {charge.merchant}
           /\ scan \in Strings
           /\ Payable(charge.qr) # {}
           /\ \A p \in Payable(scan) :
                 /\ p.nmid = charge.merchant.nmid
                 /\ charge.order.type = "DYNAMIC" =>
                       IsDynamic(p) /\ p.amount # <<>> /\ MajorToMinor(p.amount) = {charge.order.amount}
                 /\ charge.order.type # "DYNAMIC" => ~IsDynamic(p)
<1>1. /\ charge.merchant \in registry /\ charge.merchant \in Merchants /\ charge.order \in Orders
      /\ charge.qr \in Encode(PayloadOf(charge.merchant, charge.order))
      /\ InHand(charge.qr, scan)
  BY DEF CodeInv, Printed, CodeTypeOK
<1>2. Owner(charge.merchant.nmid) = {charge.merchant}
  BY <1>1 DEF Owner, CodeInv, OneOfEach
<1> DEFINE q == PayloadOf(charge.merchant, charge.order)
<1>3. /\ IsPayload(q) /\ q.nmid = charge.merchant.nmid
      /\ charge.order.type = "DYNAMIC" =>
            IsDynamic(q) /\ q.amount # <<>> /\ MajorToMinor(q.amount) = {charge.order.amount}
      /\ charge.order.type # "DYNAMIC" => ~IsDynamic(q)
  BY <1>1, PayloadIs
<1> HIDE DEF q
<1>4. /\ scan \in Strings /\ Payable(charge.qr) # {}
      /\ \A p \in Payable(scan) : p.nmid = q.nmid /\ p.initiation = q.initiation /\ p.amount = q.amount
  <2>1. charge.qr \in Encode(q)
    BY <1>1 DEF q
  <2> QED BY <1>1, <1>3, <2>1, InHandReads
<1> QED BY <1>1, <1>2, <1>3, <1>4 DEF IsDynamic

\* And each step keeps it.
LEMMA CodeStepInv ==
    ASSUME CodeInv, [CodeNext]_codeVars
    PROVE  CodeInv'
<1> USE DEF CodeInv
<1>1. ASSUME NEW m \in Merchants, RegisterMerchant(m) PROVE CodeInv'
  <2>1. /\ \A k \in registry : k.nmid # m.nmid
        /\ registry' = registry \cup {m}
        /\ UNCHANGED <<charge, scan, screen, payment>>
    BY <1>1 DEF RegisterMerchant, Owner
  <2>2. CodeTypeOK' /\ OneOfEach' /\ Printed'
    BY <1>1, <2>1 DEF CodeTypeOK, OneOfEach, Printed
  <2>3. ScreenShows' /\ Settled'
    BY <2>1 DEF ScreenShows, Settled, Asked
  <2> QED BY <2>2, <2>3
<1>2. ASSUME NEW m \in registry, NEW order \in Orders, PrintCharge(m, order) PROVE CodeInv'
  <2>1. PICK s \in Encode(PayloadOf(m, order)) :
           /\ charge' = [kind |-> "printed", merchant |-> m, order |-> order, qr |-> s]
           /\ scan' = s
    BY <1>2 DEF PrintCharge
  <2>2. charge = None /\ UNCHANGED <<registry, screen, payment>>
    BY <1>2 DEF PrintCharge
  <2>3. screen = None /\ payment = None
    BY <2>2 DEF Printed, None
  <2>4. InHand(s, s)
    BY DEF InHand
  <2>5. s \in Strings
    <3>1. m \in Merchants
      BY DEF CodeTypeOK
    <3>2. IsPayload(PayloadOf(m, order))
      BY <3>1, PayloadIs
    <3> QED BY <2>4, <3>2, InHandReads
  <2> QED BY <2>1, <2>2, <2>3, <2>4, <2>5
          DEF CodeTypeOK, OneOfEach, Printed, ScreenShows, Settled, None
<1>3. ASSUME NEW m \in registry, NEW order \in Orders, GenerateFails(m, order) PROVE CodeInv'
  BY <1>3 DEF GenerateFails, CodeTypeOK, OneOfEach, Printed, ScreenShows, Settled, None, Refused
<1>4. ASSUME Garble PROVE CodeInv'
  <2>1. /\ charge.kind = "printed" /\ scan = charge.qr /\ screen = None /\ payment = None
        /\ UNCHANGED <<registry, charge, screen, payment>>
    BY <1>4 DEF Garble
  <2>2. Garbled(charge.qr, scan')
    BY <1>4 DEF Garble, Garbled, MisreadAt, SwappedAt
  <2>3. charge.qr \in Strings
    BY <2>1, PayableIs
  <2>4. scan' \in Strings
    BY <2>2, <2>3, GarbledString DEF Garbled
  <2> QED BY <2>1, <2>2, <2>4
          DEF CodeTypeOK, OneOfEach, Printed, ScreenShows, Settled, InHand, None
<1>5. ASSUME Show PROVE CodeInv'
  <2>1. charge.kind = "printed" /\ UNCHANGED <<registry, charge, scan, payment>>
    BY <1>5 DEF Show
  <2>2. CASE screen' = Refused
    BY <2>1, <2>2 DEF CodeTypeOK, OneOfEach, Printed, ScreenShows, Settled, Refused, Asked
  <2>3. CASE \E p \in Decode(scan) :
               screen' = [kind |-> "shown", nmid |-> p.nmid, name |-> p.name,
                          amount |-> IF p.amount = <<>> THEN {} ELSE MajorToMinor(p.amount),
                          dynamic |-> IsDynamic(p), crcValid |-> p.crcValid]
    <3>1. ScreenShows'
      BY <2>1, <2>3 DEF ScreenShows
    <3>2. screen'.kind = "shown"
      BY <2>3
    <3> QED BY <2>1, <3>1, <3>2 DEF CodeTypeOK, OneOfEach, Printed, Settled, Asked
  <2> QED BY <1>5, <2>2, <2>3 DEF Show
<1>6. ASSUME NEW entered \in Tendered \cup {0}, PayScanned(entered) PROVE CodeInv'
  <2>1. charge.kind = "printed" /\ UNCHANGED <<registry, charge, scan, screen>>
    BY <1>6 DEF PayScanned
  <2>2. OneOfEach' /\ Printed' /\ ScreenShows'
    BY <2>1 DEF OneOfEach, Printed, ScreenShows
  <2>3. /\ Owner(charge.merchant.nmid) = {charge.merchant}
        /\ \A p \in Payable(scan) :
              /\ p.nmid = charge.merchant.nmid
              /\ charge.order.type = "DYNAMIC" => AmountForDecoded(p, entered) = {charge.order.amount}
              /\ charge.order.type # "DYNAMIC" => AmountForDecoded(p, entered) = {entered} \ {0}
    BY <2>1, PayableIs DEF AmountForDecoded
  <2>4. ASSUME NEW p \in Payable(scan), NEW m \in Owner(p.nmid), NEW amount \in AmountForDecoded(p, entered),
               payment' = [kind |-> "paid", account |-> m.account, amount |-> amount, entered |-> entered]
        PROVE  CodeTypeOK' /\ Settled'
    <3>1. m = charge.merchant /\ amount = Asked(entered)
      BY <2>3, <2>4 DEF Asked
    <3> QED BY <2>1, <2>4, <3>1 DEF CodeTypeOK, Settled, Asked
  <2>5. ASSUME \A p \in Payable(scan) : Owner(p.nmid) = {} \/ AmountForDecoded(p, entered) = {},
               payment' = [kind |-> "refused", entered |-> entered]
        PROVE  CodeTypeOK' /\ Settled'
    <3>1. Payable(scan) # {} => charge.order.type # "DYNAMIC" /\ entered = 0
      BY <2>3, <2>5
    <3> QED BY <2>1, <2>5, <3>1 DEF CodeTypeOK, Settled
  <2>6. CodeTypeOK' /\ Settled'
    BY <1>6, <2>4, <2>5 DEF PayScanned
  <2> QED BY <2>2, <2>6
<1>7. ASSUME UNCHANGED codeVars PROVE CodeInv'
  BY <1>7 DEF codeVars, CodeTypeOK, OneOfEach, Printed, ScreenShows, Settled, Asked
<1> QED BY <1>1, <1>2, <1>3, <1>4, <1>5, <1>6, <1>7 DEF CodeNext

\* The invariant of a printed code, of the string in hand, the screen and the payment.
THEOREM CodeInvHolds == CodeSpec => []CodeInv
BY CodeInitInv, CodeStepInv, PTL DEF CodeSpec

\* The type invariant.
THEOREM CodeTypeCorrect == CodeSpec => []CodeTypeOK
<1>1. CodeInv => CodeTypeOK
  BY DEF CodeInv
<1> QED BY <1>1, CodeInvHolds, PTL

\* Whoever pays by a scanned string, misread or not, pays the merchant and the amount that were
\* printed into it, and what was read correctly can be paid: Encode, the scanner and resolveQRStringPayment.
THEOREM PaymentIsAsPrinted == CodeSpec => []PaidAsPrinted
<1>1. CodeInv => PaidAsPrinted
  <2> SUFFICES ASSUME CodeInv PROVE PaidAsPrinted
    OBVIOUS
  <2>1. payment.kind \in {"paid", "refused"} => charge.kind = "printed"
    BY DEF CodeInv, Printed, None
  <2>2. payment.kind = "paid" =>
           payment.account = charge.merchant.account /\ payment.amount = Asked(payment.entered)
    BY DEF CodeInv, Settled
  <2>3. ASSUME payment.kind = "refused", scan = charge.qr PROVE Asked(payment.entered) = 0
    <3>1. Payable(scan) # {}
      BY <2>1, <2>3, PayableIs
    <3> QED BY <2>3, <3>1 DEF CodeInv, Settled, Asked
  <2> QED BY <2>2, <2>3 DEF PaidAsPrinted
<1> QED BY <1>1, CodeInvHolds, PTL

\* A payment is of what Decode showed the payer, and taken exactly when the checksum was shown as right.
THEOREM PaymentIsAsShown == CodeSpec => []ShownIsPaid
<1>1. CodeInv => ShownIsPaid
  <2> SUFFICES ASSUME CodeInv, screen.kind = "shown"
               PROVE  /\ payment.kind = "paid" =>
                            /\ screen.crcValid
                            /\ screen.nmid = charge.merchant.nmid
                            /\ screen.dynamic => screen.amount = {payment.amount}
                      /\ payment.kind = "refused" /\ screen.crcValid =>
                            ~screen.dynamic /\ payment.entered = 0
    BY DEF ShownIsPaid
  <2>1. charge.kind = "printed"
    BY DEF CodeInv, Printed, None
  <2>2. PICK p \in Decode(scan) :
            /\ screen.nmid = p.nmid
            /\ screen.amount = IF p.amount = <<>> THEN {} ELSE MajorToMinor(p.amount)
            /\ screen.dynamic = IsDynamic(p)
            /\ screen.crcValid = p.crcValid
    BY DEF CodeInv, ScreenShows
  <2>3. p.crcValid <=> p \in Payable(scan)
    BY <2>2 DEF Payable
  <2>4. p \in Payable(scan) =>
           /\ p.nmid = charge.merchant.nmid
           /\ charge.order.type = "DYNAMIC" =>
                 IsDynamic(p) /\ p.amount # <<>> /\ MajorToMinor(p.amount) = {charge.order.amount}
           /\ charge.order.type # "DYNAMIC" => ~IsDynamic(p)
    BY <2>1, PayableIs
  <2>5. ASSUME payment.kind = "paid"
        PROVE  /\ screen.crcValid
               /\ screen.nmid = charge.merchant.nmid
               /\ screen.dynamic => screen.amount = {payment.amount}
    <3>1. Payable(scan) # {} /\ payment.amount = Asked(payment.entered)
      BY <2>5 DEF CodeInv, Settled
    <3>2. p \in Payable(scan)
      BY <2>2, <3>1, DecodeIsOne DEF Payable
    <3> QED BY <2>2, <2>3, <2>4, <3>1, <3>2 DEF Asked
  <2>6. ASSUME payment.kind = "refused", screen.crcValid
        PROVE  ~screen.dynamic /\ payment.entered = 0
    <3>1. p \in Payable(scan)
      BY <2>2, <2>3, <2>6
    <3> QED BY <2>2, <2>4, <2>6, <3>1 DEF CodeInv, Settled
  <2> QED BY <2>5, <2>6
<1> QED BY <1>1, CodeInvHolds, PTL
============================================================================
