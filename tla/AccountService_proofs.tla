----------------------- MODULE AccountService_proofs -----------------------
(***************************************************************************)
(* What holds of AccountService for any accounts, any number of concurrent *)
(* requests and any amounts.                                               *)
(*                                                                         *)
(* The argument: a request that is about to write holds a row no newer     *)
(* than the stored one, and when it is exactly as new, it is the stored    *)
(* row with the request's own amount added (RowIsFresh).  Hence the UPDATE *)
(* that finds its version moves an ACTIVE account by exactly that amount.  *)
(* Each such UPDATE is one posting of the book, whose balances remain the  *)
(* sums of its postings (AccountBook_proofs).                              *)
(***************************************************************************)
EXTENDS AccountService, TLAPS

\* Where a request stands determines what is known of it.
RequestPhases ==
    \A r \in Requests :
        /\ pc[r] = "idle" => /\ call[r] = NoCall
                             /\ reply[r] = "none"
        /\ pc[r] \in {"read", "write"} => /\ call[r] \in Calls
                                          /\ reply[r] \in {"none", "timeout"}
        /\ pc[r] # "done" => ~applied[r]
        /\ applied[r] => call[r] \in Calls

\* The row a request is about to write, against the stored one.
RowIsFresh ==
    \A r \in Requests :
        pc[r] = "write" =>
            LET stored == accounts[call[r].account]
            IN  /\ row[r].status = "ACTIVE"
                /\ row[r].version <= stored.version
                /\ row[r].version = stored.version =>
                       /\ stored.status = "ACTIVE"
                       /\ row[r].balance = stored.balance + Delta(call[r])

\* The inductive invariant.
IInv == TypeOK /\ RequestPhases /\ RowIsFresh /\ ReplyTruthful

-----------------------------------------------------------------------------
\* A row is absent or has a positive version.
LEMMA RowShape ==
    ASSUME NEW w \in Rows
    PROVE  /\ w.version \in Nat
           /\ w.balance \in 0..MaxBalance
           /\ w = Absent <=> w.version = 0
           /\ w = Absent <=> w.status = "ABSENT"
           /\ w # Absent => /\ w \in [status : Statuses, balance : 0..MaxBalance,
                                      version : Nat \ {0}]
                            /\ w.version >= 1
BY AccountAssumption DEF Rows, Absent, Statuses

\* A call that Credit or Debit does not refuse finds an active account that can take it.
LEMMA NoRefusal ==
    ASSUME NEW c \in Calls, NEW w \in Rows,
           \A why \in Refusals : ~Refused(c, w, why)
    PROVE  /\ w # Absent
           /\ w.status = "ACTIVE"
           /\ w.balance + Delta(c) \in 0..MaxBalance
<1>1. /\ c.amount \in Nat
      /\ c.op \in {"credit", "debit"}
      /\ w.balance \in 0..MaxBalance
      /\ MaxBalance \in Nat
  BY RowShape, AccountAssumption DEF Calls
<1>2. w # Absent /\ w.status = "ACTIVE"
  BY DEF Refused, Refusals
<1>3. CASE c.op = "credit"
  <2>1. ~(w.balance > MaxBalance - c.amount)
    BY <1>2, <1>3 DEF Refused, Refusals
  <2>2. QED
    BY <2>1, <1>1, <1>2, <1>3 DEF Delta
<1>4. CASE c.op = "debit"
  <2>1. ~(w.balance < c.amount)
    BY <1>2, <1>4 DEF Refused, Refusals
  <2>2. QED
    BY <2>1, <1>1, <1>2, <1>4 DEF Delta
<1>5. QED
  BY <1>1, <1>2, <1>3, <1>4

\* The UPDATE that finds its version moves an active account by the request's amount.
LEMMA MatchedUpdate ==
    ASSUME IInv, NEW r \in Requests, pc[r] = "write", VersionMatches(r)
    PROVE  /\ call[r] \in Calls
           /\ call[r].account \in Accounts
           /\ ~applied[r]
           /\ accounts[call[r].account] # Absent
           /\ accounts[call[r].account].status = "ACTIVE"
           /\ Written(r).status = "ACTIVE"
           /\ Written(r).balance = accounts[call[r].account].balance + Delta(call[r])
           /\ Written(r).version = accounts[call[r].account].version + 1
           /\ Written(r) \in Rows
<1>1. call[r] \in Calls /\ ~applied[r]
  BY DEF IInv, RequestPhases
<1>2. call[r].account \in Accounts
  BY <1>1 DEF Calls
<1>3. /\ row[r] \in Rows
      /\ accounts[call[r].account] \in Rows
  BY <1>2 DEF IInv, TypeOK
<1>4. /\ row[r].status = "ACTIVE"
      /\ accounts[call[r].account].status = "ACTIVE"
      /\ row[r].balance = accounts[call[r].account].balance + Delta(call[r])
  BY DEF IInv, RowIsFresh, VersionMatches
<1>5. accounts[call[r].account] # Absent
  BY <1>4 DEF Absent
<1>6. accounts[call[r].account].version \in Nat
  BY <1>3, RowShape
<1>7. Written(r) \in Rows
  <2>1. row[r].balance \in 0..MaxBalance
    BY <1>3, RowShape
  <2>2. accounts[call[r].account].version + 1 \in Nat \ {0}
    BY <1>6
  <2>3. QED
    BY <2>1, <2>2, <1>4 DEF Written, Rows, Statuses
<1>8. QED
  BY <1>1, <1>2, <1>4, <1>5, <1>7 DEF Written

\* The initial states satisfy the invariant.
LEMMA InitIInv == Init => IInv
BY AccountAssumption, RowShape
DEF Init, IInv, TypeOK, RequestPhases, RowIsFresh, ReplyTruthful, Rows, Absent, Replies,
    Refusals

\* Every step preserves the invariant.
LEMMA NextIInv == IInv /\ [Next]_vars => IInv'
<1> SUFFICES ASSUME IInv, [Next]_vars
             PROVE  IInv'
  OBVIOUS
<1> USE DEF IInv
<1>1. ASSUME NEW r \in Requests, NEW a \in Accounts, CreateAccount(r, a)
      PROVE  IInv'
  <2>1. TypeOK'
    <3>1. [status |-> "PENDING", balance |-> 0, version |-> 1] \in Rows
      BY AccountAssumption DEF Rows, Statuses
    <3>2. QED
      BY <1>1, <3>1 DEF CreateAccount, NewAccount, Finish, TypeOK, Replies
  <2>2. RequestPhases'
    BY <1>1 DEF CreateAccount, NewAccount, Finish, TypeOK, RequestPhases
  <2>3. RowIsFresh'
    <3>1. /\ pc' = [pc EXCEPT ![r] = "done"]
          /\ \A b \in Accounts : accounts[b] # Absent => accounts'[b] = accounts[b]
          /\ UNCHANGED <<call, row>>
      BY <1>1 DEF CreateAccount, NewAccount, Finish, TypeOK
    <3>2. ASSUME NEW q \in Requests, pc'[q] = "write"
          PROVE  /\ pc[q] = "write"
                 /\ accounts'[call[q].account] = accounts[call[q].account]
      <4>1. pc[q] = "write"
        BY <3>1, <3>2 DEF TypeOK
      <4>2. call[q].account \in Accounts
        BY <4>1 DEF RequestPhases, Calls
      <4>3. /\ row[q].status = "ACTIVE"
            /\ row[q].version <= accounts[call[q].account].version
        BY <4>1 DEF RowIsFresh
      <4>4. row[q].version \in Nat /\ row[q].version >= 1
        BY <4>3, RowShape DEF TypeOK, Absent
      <4>5. accounts[call[q].account] # Absent
        <5>1. Absent.version = 0
          BY DEF Absent
        <5>2. QED
          BY <4>3, <4>4, <5>1
      <4>6. QED
        BY <3>1, <4>1, <4>2, <4>5
    <3>3. QED
      BY <3>1, <3>2 DEF RowIsFresh
  <2>4. ReplyTruthful'
    BY <1>1 DEF CreateAccount, NewAccount, Finish, TypeOK, RequestPhases, ReplyTruthful, Refusals
  <2>5. QED
    BY <2>1, <2>2, <2>3, <2>4
<1>2. ASSUME NEW r \in Requests, NEW c \in Calls, Arrive(r, c)
      PROVE  IInv'
  <2>1. TypeOK'
    BY <1>2 DEF Arrive, Finish, TypeOK, Replies, Refusals
  <2>2. RequestPhases'
    BY <1>2 DEF Arrive, Finish, TypeOK, RequestPhases
  <2>3. RowIsFresh'
    BY <1>2 DEF Arrive, Finish, TypeOK, RowIsFresh
  <2>4. ReplyTruthful'
    BY <1>2 DEF Arrive, Finish, TypeOK, RequestPhases, ReplyTruthful, Refusals
  <2>5. QED
    BY <2>1, <2>2, <2>3, <2>4
<1>3. ASSUME NEW r \in Requests, Read(r)
      PROVE  IInv'
  <2> DEFINE stored == accounts[call[r].account]
  <2>1. /\ call[r] \in Calls
        /\ stored \in Rows
        /\ reply[r] \in {"none", "timeout"}
        /\ ~applied[r]
    BY <1>3 DEF Read, TypeOK, RequestPhases, Calls
  <2>2. CASE /\ \A why \in Refusals : ~Refused(call[r], stored, why)
             /\ row' = [row EXCEPT ![r] = [stored EXCEPT !.balance = @ + Delta(call[r])]]
             /\ pc' = [pc EXCEPT ![r] = "write"]
             /\ UNCHANGED reply
    <3>1. /\ stored # Absent
          /\ stored.status = "ACTIVE"
          /\ stored.balance + Delta(call[r]) \in 0..MaxBalance
      BY <2>1, <2>2, NoRefusal
    <3>2. [stored EXCEPT !.balance = @ + Delta(call[r])] \in Rows
      BY <2>1, <3>1, RowShape DEF Rows
    <3>3. TypeOK'
      BY <1>3, <2>2, <3>2 DEF Read, TypeOK
    <3>4. RequestPhases'
      BY <1>3, <2>1, <2>2 DEF Read, TypeOK, RequestPhases
    <3>5. RowIsFresh'
      <4>1. /\ row'[r].status = "ACTIVE"
            /\ row'[r].version = stored.version
            /\ row'[r].balance = stored.balance + Delta(call[r])
            /\ stored.version \in Nat
        BY <2>1, <2>2, <3>1, RowShape DEF TypeOK, Rows
      <4>2. QED
        BY <1>3, <2>2, <3>1, <4>1 DEF Read, TypeOK, RowIsFresh
    <3>6. ReplyTruthful'
      BY <1>3, <2>2 DEF Read, ReplyTruthful
    <3>7. QED
      BY <3>3, <3>4, <3>5, <3>6
  <2>3. ASSUME NEW why \in Refusals, Finish(r, why), UNCHANGED row
        PROVE  IInv'
    <3>1. TypeOK'
      BY <1>3, <2>3 DEF Read, Finish, TypeOK, Replies
    <3>2. RequestPhases'
      BY <1>3, <2>1, <2>3 DEF Read, Finish, TypeOK, RequestPhases
    <3>3. RowIsFresh'
      BY <1>3, <2>3 DEF Read, Finish, TypeOK, RowIsFresh
    <3>4. ReplyTruthful'
      BY <1>3, <2>1, <2>3 DEF Read, Finish, TypeOK, ReplyTruthful, Refusals
    <3>5. QED
      BY <3>1, <3>2, <3>3, <3>4
  <2>4. QED
    BY <1>3, <2>2, <2>3 DEF Read
<1>4. ASSUME NEW r \in Requests, UpdateMatches(r)
      PROVE  IInv'
  <2>1. /\ call[r] \in Calls
        /\ call[r].account \in Accounts
        /\ Written(r) \in Rows
        /\ Written(r).version = accounts[call[r].account].version + 1
        /\ accounts[call[r].account] \in Rows
    BY <1>4, MatchedUpdate DEF UpdateMatches, TypeOK
  <2>2. /\ pc' = [pc EXCEPT ![r] = "done"]
        /\ \E answer \in {"ok", "error"} :
               reply' = [reply EXCEPT ![r] = IF @ = "none" THEN answer ELSE @]
    BY <1>4 DEF UpdateMatches, Finish
  <2>3. TypeOK'
    BY <1>4, <2>1, <2>2 DEF UpdateMatches, TypeOK, Replies
  <2>4. RequestPhases'
    BY <1>4, <2>1, <2>2 DEF UpdateMatches, TypeOK, RequestPhases
  <2>5. RowIsFresh'
    <3> SUFFICES ASSUME NEW q \in Requests, pc'[q] = "write"
                 PROVE  LET stored == accounts'[call[q].account]
                        IN  /\ row[q].status = "ACTIVE"
                            /\ row[q].version <= stored.version
                            /\ row[q].version = stored.version =>
                                   /\ stored.status = "ACTIVE"
                                   /\ row[q].balance = stored.balance + Delta(call[q])
      BY <1>4 DEF UpdateMatches, RowIsFresh
    <3>1. /\ q # r
          /\ pc[q] = "write"
      BY <2>2 DEF TypeOK
    <3>2. /\ call[q].account \in Accounts
          /\ row[q] \in Rows
          /\ accounts[call[q].account] \in Rows
      BY <3>1 DEF RequestPhases, Calls, TypeOK
    <3>3. CASE call[q].account = call[r].account
      <4>1. accounts'[call[q].account] = Written(r)
        BY <1>4, <2>1, <3>3 DEF UpdateMatches, TypeOK
      <4>2. /\ row[q].version \in Nat
            /\ accounts[call[q].account].version \in Nat
        BY <3>2, RowShape
      <4>3. /\ row[q].status = "ACTIVE"
            /\ row[q].version <= accounts[call[q].account].version
        BY <3>1 DEF RowIsFresh
      <4>4. row[q].version < Written(r).version
        BY <2>1, <3>3, <4>2, <4>3
      <4>5. QED
        BY <4>1, <4>2, <4>3, <4>4, <2>1, <3>3
    <3>4. CASE call[q].account # call[r].account
      <4>1. accounts'[call[q].account] = accounts[call[q].account]
        BY <1>4, <2>1, <3>2, <3>4 DEF UpdateMatches, TypeOK
      <4>2. QED
        BY <3>1, <4>1 DEF RowIsFresh
    <3>5. QED
      BY <3>3, <3>4
  <2>6. ReplyTruthful'
    <3>1. reply[r] \in {"none", "timeout"}
      BY <1>4 DEF UpdateMatches, RequestPhases
    <3>2. QED
      BY <1>4, <2>2, <3>1 DEF UpdateMatches, TypeOK, ReplyTruthful, Refusals
  <2>7. QED
    BY <2>3, <2>4, <2>5, <2>6
<1>5. ASSUME NEW r \in Requests, UpdateConflicts(r) \/ StatementFails(r)
      PROVE  IInv'
  <2>1. /\ pc[r] \in {"read", "write"}
        /\ pc' = [pc EXCEPT ![r] = "done"]
        /\ \E answer \in {"conflict", "error"} :
               reply' = [reply EXCEPT ![r] = IF @ = "none" THEN answer ELSE @]
        /\ UNCHANGED <<accounts, call, row, applied>>
    BY <1>5 DEF UpdateConflicts, StatementFails, Finish
  <2>2. TypeOK'
    BY <2>1 DEF TypeOK, Replies, Refusals
  <2>3. RequestPhases'
    BY <2>1 DEF TypeOK, RequestPhases
  <2>4. RowIsFresh'
    BY <2>1 DEF TypeOK, RowIsFresh
  <2>5. ReplyTruthful'
    <3>1. reply[r] \in {"none", "timeout"} /\ ~applied[r]
      BY <2>1 DEF RequestPhases
    <3>2. QED
      BY <2>1, <3>1 DEF TypeOK, ReplyTruthful, Refusals
  <2>6. QED
    BY <2>2, <2>3, <2>4, <2>5
<1>6. ASSUME NEW r \in Requests, Timeout(r)
      PROVE  IInv'
  BY <1>6 DEF Timeout, TypeOK, RequestPhases, RowIsFresh, ReplyTruthful, Replies, Refusals
<1>7. CASE Crash
  <2>1. TypeOK'
    BY <1>7 DEF Crash, TypeOK, Replies
  <2>2. RequestPhases'
    BY <1>7 DEF Crash, TypeOK, RequestPhases
  <2>3. RowIsFresh'
    BY <1>7 DEF Crash, TypeOK, RowIsFresh
  <2>4. ReplyTruthful'
    BY <1>7 DEF Crash, TypeOK, ReplyTruthful, Refusals
  <2>5. QED
    BY <2>1, <2>2, <2>3, <2>4
<1>8. ASSUME NEW a \in Accounts, NEW s \in Statuses, SetStatus(a, s)
      PROVE  IInv'
  <2>1. /\ accounts[a] \in Rows
        /\ accounts[a] # Absent
        /\ accounts[a].version \in Nat
    BY <1>8, RowShape DEF SetStatus, TypeOK
  <2>2. /\ accounts' = [accounts EXCEPT ![a] = [accounts[a] EXCEPT !.status = s,
                                                                !.version = @ + 1]]
        /\ UNCHANGED <<pc, call, row, reply, applied>>
    BY <1>8 DEF SetStatus
  <2>3. [accounts[a] EXCEPT !.status = s, !.version = @ + 1] \in Rows
    <3>1. accounts[a] \in [status : Statuses, balance : 0..MaxBalance, version : Nat \ {0}]
      BY <2>1, RowShape
    <3>2. accounts[a].version + 1 \in Nat \ {0}
      BY <2>1
    <3>3. QED
      BY <3>1, <3>2 DEF Rows
  <2>4. TypeOK'
    BY <2>2, <2>3 DEF TypeOK
  <2>5. RequestPhases'
    BY <2>2 DEF RequestPhases
  <2>6. RowIsFresh'
    <3> SUFFICES ASSUME NEW q \in Requests, pc[q] = "write"
                 PROVE  LET stored == accounts'[call[q].account]
                        IN  /\ row[q].status = "ACTIVE"
                            /\ row[q].version <= stored.version
                            /\ row[q].version = stored.version =>
                                   /\ stored.status = "ACTIVE"
                                   /\ row[q].balance = stored.balance + Delta(call[q])
      BY <2>2 DEF RowIsFresh
    <3>1. /\ call[q].account \in Accounts
          /\ row[q].version \in Nat
      BY RowShape DEF RequestPhases, Calls, TypeOK
    <3>2. CASE call[q].account = a
      <4>1. accounts'[call[q].account].version = accounts[a].version + 1
        BY <2>1, <2>2, <3>1, <3>2, RowShape DEF TypeOK
      <4>2. /\ row[q].status = "ACTIVE"
            /\ row[q].version <= accounts[a].version
        BY <3>2 DEF RowIsFresh
      <4>3. QED
        BY <2>1, <3>1, <4>1, <4>2
    <3>3. CASE call[q].account # a
      BY <2>2, <3>1, <3>3 DEF RowIsFresh, TypeOK
    <3>4. QED
      BY <3>2, <3>3
  <2>7. ReplyTruthful'
    BY <2>2 DEF ReplyTruthful
  <2>8. QED
    BY <2>4, <2>5, <2>6, <2>7
<1>9. CASE UNCHANGED vars
  BY <1>9 DEF vars, TypeOK, RequestPhases, RowIsFresh, ReplyTruthful
<1>10. QED
  BY <1>1, <1>2, <1>3, <1>4, <1>5, <1>6, <1>7, <1>8, <1>9 DEF Next

\* The invariant holds in every reachable state.
THEOREM Invariant == Spec => []IInv
BY InitIInv, NextIInv, PTL DEF Spec

-----------------------------------------------------------------------------
\* Every variable keeps its type; in particular no balance leaves 0..MaxBalance,
\* whatever the requests that race for it.
THEOREM TypeCorrect == Spec => []TypeOK
<1>1. IInv => TypeOK
  BY DEF IInv
<1>2. QED
  BY <1>1, Invariant, PTL

\* The answers of Credit and Debit are truthful: "ok" only after the UPDATE took effect,
\* a refusal or a version conflict only when it never will.
THEOREM TruthfulReplies == Spec => []ReplyTruthful
<1>1. IInv => ReplyTruthful
  BY DEF IInv
<1>2. QED
  BY <1>1, Invariant, PTL

\* A balance moves only while its account is ACTIVE at the commit.
THEOREM ActiveOnly == Spec => OnlyActiveAccountsMove
<1> DEFINE Moves == \A a \in Accounts :
                       accounts'[a].balance # accounts[a].balance =>
                          accounts[a].status = "ACTIVE" /\ accounts'[a].status = "ACTIVE"
<1>1. ASSUME IInv, Next
      PROVE  Moves
  <2> SUFFICES ASSUME NEW a \in Accounts, accounts'[a].balance # accounts[a].balance
               PROVE  accounts[a].status = "ACTIVE" /\ accounts'[a].status = "ACTIVE"
    OBVIOUS
  <2> accounts \in [Accounts -> Rows]
    BY <1>1 DEF IInv, TypeOK
  <2>1. ASSUME NEW r \in Requests, NEW b \in Accounts, CreateAccount(r, b)
        PROVE  FALSE
    BY <2>1 DEF CreateAccount, NewAccount, Absent
  <2>2. ASSUME NEW r \in Requests, UpdateMatches(r)
        PROVE  accounts[a].status = "ACTIVE" /\ accounts'[a].status = "ACTIVE"
    <3>1. /\ accounts[call[r].account].status = "ACTIVE"
          /\ Written(r).status = "ACTIVE"
          /\ accounts' = [accounts EXCEPT ![call[r].account] = Written(r)]
      BY <1>1, <2>2, MatchedUpdate DEF UpdateMatches
    <3>2. a = call[r].account
      BY <3>1
    <3>3. QED
      BY <3>1, <3>2
  <2>3. ASSUME NEW b \in Accounts, NEW s \in Statuses, SetStatus(b, s)
        PROVE  FALSE
    <3>1. accounts[b] \in [status : Statuses, balance : 0..MaxBalance, version : Nat \ {0}]
      BY <2>3, RowShape DEF SetStatus
    <3>2. QED
      BY <2>3, <3>1 DEF SetStatus
  <2>4. UNCHANGED accounts \/ ~UNCHANGED accounts
    OBVIOUS
  <2>5. QED
    BY <1>1, <2>1, <2>2, <2>3
    DEF Next, Arrive, Read, UpdateConflicts, StatementFails, Timeout, Crash
<1>2. IInv /\ [Next]_vars => [Moves]_vars
  BY <1>1
<1>3. Spec => [][Moves]_vars
  BY <1>2, Invariant, PTL DEF Spec
<1>4. QED
  BY <1>3 DEF OnlyActiveAccountsMove

-----------------------------------------------------------------------------
\* An update that finds its version is one posting of the book.
LEMMA UpdatePosts ==
    ASSUME IInv, NEW r \in Requests, UpdateMatches(r)
    PROVE  Book!Post(r, call[r].account, Delta(call[r]))
<1> DEFINE a == call[r].account
           d == Delta(call[r])
<1>1. /\ call[r] \in Calls
      /\ a \in Accounts
      /\ ~applied[r]
      /\ Written(r).balance = accounts[a].balance + d
      /\ Written(r) \in Rows
      /\ accounts' = [accounts EXCEPT ![a] = Written(r)]
      /\ applied' = [applied EXCEPT ![r] = TRUE]
      /\ call' = call
  BY MatchedUpdate DEF UpdateMatches
<1>2. \A e \in Journal : e.call # r
  BY <1>1 DEF Journal
<1>3. Balances[a] + d \in 0..MaxBalance
  BY <1>1, RowShape DEF Balances
<1>4. Balances' = [Balances EXCEPT ![a] = @ + d]
  BY <1>1 DEF Balances, IInv, TypeOK
<1>5. Journal' = Journal \cup {[call |-> r, account |-> a, delta |-> d]}
  <2>1. {q \in Requests : applied'[q]} = {q \in Requests : applied[q]} \cup {r}
    BY <1>1 DEF IInv, TypeOK
  <2>2. QED
    BY <1>1, <2>1 DEF Journal
<1>6. QED
  BY <1>2, <1>3, <1>4, <1>5 DEF Book!Post

\* A step that leaves the balances, and the calls that took effect, alone is no step of
\* the book.
LEMMA OtherSteps ==
    ASSUME IInv, [Next]_vars,
           \A r \in Requests : ~UpdateMatches(r)
    PROVE  UNCHANGED <<Balances, Journal>>
<1> accounts \in [Accounts -> Rows]
  BY DEF IInv, TypeOK
<1>1. ASSUME NEW r \in Requests, NEW a \in Accounts, CreateAccount(r, a)
      PROVE  UNCHANGED <<Balances, Journal>>
  <2>1. \A b \in Accounts : accounts'[b].balance = accounts[b].balance
    BY <1>1 DEF CreateAccount, NewAccount, Absent
  <2>2. UNCHANGED <<call, applied>>
    BY <1>1 DEF CreateAccount, NewAccount
  <2>3. QED
    BY <2>1, <2>2 DEF Balances, Journal
<1>2. ASSUME NEW r \in Requests, NEW c \in Calls, Arrive(r, c)
      PROVE  UNCHANGED <<Balances, Journal>>
  <2>1. ~applied[r]
    BY <1>2 DEF Arrive, IInv, RequestPhases
  <2>2. /\ call' = [call EXCEPT ![r] = c]
        /\ UNCHANGED <<accounts, applied>>
    BY <1>2 DEF Arrive
  <2>3. \A q \in {q \in Requests : applied[q]} : call'[q] = call[q]
    BY <2>1, <2>2 DEF IInv, TypeOK
  <2>4. QED
    BY <2>2, <2>3 DEF Balances, Journal
<1>3. ASSUME NEW b \in Accounts, NEW s \in Statuses, SetStatus(b, s)
      PROVE  UNCHANGED <<Balances, Journal>>
  <2>1. accounts[b] \in [status : Statuses, balance : 0..MaxBalance, version : Nat \ {0}]
    BY <1>3, RowShape DEF SetStatus
  <2>2. \A a \in Accounts : accounts'[a].balance = accounts[a].balance
    BY <1>3, <2>1 DEF SetStatus
  <2>3. UNCHANGED <<call, applied>>
    BY <1>3 DEF SetStatus
  <2>4. QED
    BY <2>2, <2>3 DEF Balances, Journal
<1>4. CASE UNCHANGED <<accounts, call, applied>>
  BY <1>4 DEF Balances, Journal
<1>5. QED
  BY <1>1, <1>2, <1>3, <1>4
  DEF Next, vars, Read, UpdateConflicts, StatementFails, Timeout, Crash

\* account-svc implements the book: every step of its requests is one posting, for an
\* account and an amount of the book, or none.
THEOREM Refinement == Spec => ImplementsBook
<1>1. Init => Book!BookInit
  BY DEF Init, Balances, Journal, Book!BookInit
<1>2. ASSUME IInv, [Next]_vars
      PROVE  [Book!BookNext]_(Book!bookVars)
  <2>1. CASE \E r \in Requests : UpdateMatches(r)
    <3>1. PICK r \in Requests : UpdateMatches(r)
      BY <2>1
    <3>2. Book!Post(r, call[r].account, Delta(call[r]))
      BY <1>2, <3>1, UpdatePosts
    <3>3. /\ call[r] \in Calls
          /\ call[r].account \in Accounts
      BY <1>2, <3>1, MatchedUpdate DEF UpdateMatches
    <3>4. Delta(call[r]) \in Book!Deltas
      BY <3>3 DEF Calls, Delta, Book!Deltas
    <3>5. QED
      BY <3>2, <3>3, <3>4 DEF Book!BookNext
  <2>2. CASE \A r \in Requests : ~UpdateMatches(r)
    BY <1>2, <2>2, OtherSteps DEF Book!bookVars
  <2>3. QED
    BY <2>1, <2>2
<1>3. QED
  BY <1>1, <1>2, Invariant, PTL DEF Spec, ImplementsBook, Book!BookSpec

-----------------------------------------------------------------------------
Books == INSTANCE AccountBook_proofs WITH
    Calls <- Requests, balance <- Balances, journal <- Journal,
    Opening <- [a \in Accounts |-> InitialAccounts[a].balance]

\* No update is lost, and none is applied twice: every balance is its opening balance plus the
\* amounts of the calls whose UPDATE took effect, in any interleaving of any requests.
THEOREM NoUpdateIsLost == Spec => []NoLostUpdate
<1>1. Books!Numbers
  BY AccountAssumption, RowShape DEF Books!Numbers
<1>2. Books!BookSpec => [](Books!BookTypeOK /\ Books!BalanceIsJournalSum)
  BY <1>1, Books!BooksBalance
<1>3. Books!BookInit <=> Book!BookInit
  BY DEF Books!BookInit, Book!BookInit
<1>4. [Books!BookNext]_(Books!bookVars) <=> [Book!BookNext]_(Book!bookVars)
  BY DEF Books!BookNext, Books!Post, Books!Deltas, Books!bookVars,
         Book!BookNext, Book!Post, Book!Deltas, Book!bookVars
<1>5. Books!BalanceIsJournalSum <=> NoLostUpdate
  BY DEF Books!BalanceIsJournalSum, Books!Posted, Books!MapThenSumSet, Books!MapThenFoldSet,
         NoLostUpdate, Book!BalanceIsJournalSum, Book!Posted, Book!MapThenSumSet,
         Book!MapThenFoldSet
<1> QED
  BY Refinement, <1>2, <1>3, <1>4, <1>5, PTL DEF ImplementsBook, Book!BookSpec, Books!BookSpec
=============================================================================
