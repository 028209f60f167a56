--------------------------- MODULE AccountService ---------------------------
(***************************************************************************)
(* account-svc: the accounts table and the requests that work on it.       *)
(*                                                                         *)
(* Credit and Debit are a read (GetByID), checks on the row that was read, *)
(* and a write (Update) guarded by the row's version: two database         *)
(* statements with every other request's statements in between.  The       *)
(* Timeout middleware may answer 503 while a request's UPDATE is still on  *)
(* its way to the database, a statement may fail before or after it takes  *)
(* effect, and the process may die at any point.                           *)
(*                                                                         *)
(* No code of account-svc changes an account's status: SetStatus is an     *)
(* operator's change to the table, and follows the rule the schema states  *)
(* for every writer (the version is incremented on every write).           *)
(***************************************************************************)
EXTENDS Integers, FiniteSets

CONSTANTS
    Accounts,         \* account ids
    Requests,         \* HTTP requests, each served once
    Amounts,          \* amounts of the credits and debits, in minor units
    MaxBalance,       \* math.MaxInt64
    InitialAccounts,  \* the rows of the table when the service starts
    MaxVersion        \* bound: SetStatus stops at this version

Statuses == {"PENDING", "ACTIVE", "SUSPENDED", "CLOSED"}

\* A row that does not exist is kept as an ABSENT row.
Absent == [status |-> "ABSENT", balance |-> 0, version |-> 0]

Rows == {Absent} \cup [status : Statuses, balance : 0..MaxBalance, version : Nat \ {0}]

ASSUME AccountAssumption ==
    /\ Amounts \subseteq Nat \ {0}
    /\ MaxBalance \in Nat
    /\ MaxVersion \in Nat
    /\ InitialAccounts \in [Accounts -> Rows]

VARIABLES
    accounts,  \* the accounts table: accounts[a] is a row
    pc,        \* where the goroutine that serves request r stands
    call,      \* what request r asks for
    row,       \* the dao.Account r holds in memory, its balance already changed
    reply,     \* what the caller of r was told
    applied    \* whether r's UPDATE took effect (not visible to the code)

vars == <<accounts, pc, call, row, reply, applied>>

Calls == [op : {"credit", "debit"}, account : Accounts, amount : Amounts]

NoCall == [op |-> "none"]

\* Replies that promise the money has not moved.
Refusals == {"outside_hours", "not_found", "not_active", "overflow", "insufficient", "conflict"}

Replies == Refusals \cup {"none", "ok", "error", "timeout", "lost"}

TypeOK ==
    /\ accounts \in [Accounts -> Rows]
    /\ pc \in [Requests -> {"idle", "read", "write", "done"}]
    /\ call \in [Requests -> Calls \cup {NoCall}]
    /\ row \in [Requests -> Rows]
    /\ reply \in [Requests -> Replies]
    /\ applied \in [Requests -> BOOLEAN]

Init ==
    /\ accounts = InitialAccounts
    /\ pc = [r \in Requests |-> "idle"]
    /\ call = [r \in Requests |-> NoCall]
    /\ row = [r \in Requests |-> Absent]
    /\ reply = [r \in Requests |-> "none"]
    /\ applied = [r \in Requests |-> FALSE]

-----------------------------------------------------------------------------
\* The handler returns.  A caller that was already told "timeout" learns nothing more.
Finish(r, answer) ==
    /\ pc' = [pc EXCEPT ![r] = "done"]
    /\ reply' = [reply EXCEPT ![r] = IF @ = "none" THEN answer ELSE @]

\* The row of a new account.
NewAccount == [status |-> "PENDING", balance |-> 0, version |-> 1]

\* POST /v1/accounts.  The insert is refused when the account (its IBAN) exists; the
\* repository reports that as any other failure.  A failure may follow the commit.
CreateAccount(r, a) ==
    /\ pc[r] = "idle"
    /\ \/ /\ accounts[a] = Absent
          /\ accounts' = [accounts EXCEPT ![a] = NewAccount]
          /\ \/ Finish(r, "ok")
             \/ Finish(r, "error")
       \/ /\ Finish(r, "error")
          /\ UNCHANGED accounts
    /\ UNCHANGED <<call, row, applied>>

\* POST /v1/accounts/{id}/credit and /debit: the handler checks the operation hours and
\* decodes and validates the body (amount > 0).
Arrive(r, c) ==
    /\ pc[r] = "idle"
    /\ call' = [call EXCEPT ![r] = c]
    /\ \/ /\ pc' = [pc EXCEPT ![r] = "read"]
          /\ UNCHANGED reply
       \/ Finish(r, "outside_hours")
    /\ UNCHANGED <<accounts, row, applied>>

\* Mutation of Refused: Credit adds without asking whether the sum still fits.
RefusedNoOverflow(c, w, why) ==
    \/ why = "not_found" /\ w = Absent
    \/ why = "not_active" /\ w # Absent /\ w.status # "ACTIVE"
    \/ why = "insufficient" /\ w.status = "ACTIVE" /\ c.op = "debit" /\ w.balance < c.amount

\* Mutation of Refused: the status of the account is not looked at.
RefusedAnyStatus(c, w, why) ==
    \/ why = "not_found" /\ w = Absent
    \/ why = "overflow" /\ w # Absent /\ c.op = "credit"
                        /\ w.balance > MaxBalance - c.amount
    \/ why = "insufficient" /\ w # Absent /\ c.op = "debit" /\ w.balance < c.amount

\* Credit or Debit, having read row w, stops for this reason.
Refused(c, w, why) ==
    \/ why = "not_found" /\ w = Absent
    \/ why = "not_active" /\ w # Absent /\ w.status # "ACTIVE"
    \/ why = "overflow" /\ w.status = "ACTIVE" /\ c.op = "credit"
                        /\ w.balance > MaxBalance - c.amount
    \/ why = "insufficient" /\ w.status = "ACTIVE" /\ c.op = "debit" /\ w.balance < c.amount

\* By how much call c moves its account.
Delta(c) == IF c.op = "credit" THEN c.amount ELSE -c.amount

\* GetByID, and the checks and the arithmetic on the row it returned.
Read(r) ==
    /\ pc[r] = "read"
    /\ LET w == accounts[call[r].account]
       IN  \/ /\ \A why \in Refusals : ~Refused(call[r], w, why)
              /\ row' = [row EXCEPT ![r] = [w EXCEPT !.balance = @ + Delta(call[r])]]
              /\ pc' = [pc EXCEPT ![r] = "write"]
              /\ UNCHANGED reply
           \/ /\ \E why \in Refusals : Refused(call[r], w, why) /\ Finish(r, why)
              /\ UNCHANGED row
    /\ UNCHANGED <<accounts, call, applied>>

\* Mutation of VersionMatches: the UPDATE names the id only.
VersionIgnored(r) == accounts[call[r].account] # Absent

\* The guard of Update: WHERE id = ? AND version = ?
VersionMatches(r) == row[r].version = accounts[call[r].account].version

\* Mutation of Written: the write does not increment the version.
WrittenSameVersion(r) ==
    [status  |-> row[r].status,
     balance |-> row[r].balance,
     version |-> accounts[call[r].account].version]

\* The row that Update writes: balance and status from memory, version + 1.
Written(r) ==
    [status  |-> row[r].status,
     balance |-> row[r].balance,
     version |-> accounts[call[r].account].version + 1]

\* Update found its row: the balance is written.  The statement may still report a failure
\* (the commit's acknowledgement was lost).
UpdateMatches(r) ==
    /\ pc[r] = "write"
    /\ VersionMatches(r)
    /\ accounts' = [accounts EXCEPT ![call[r].account] = Written(r)]
    /\ applied' = [applied EXCEPT ![r] = TRUE]
    /\ \/ Finish(r, "ok")
       \/ Finish(r, "error")
    /\ UNCHANGED <<call, row>>

\* Mutation of UpdateConflicts: nobody looks at RowsAffected.
UpdateConflictUnnoticed(r) ==
    /\ pc[r] = "write"
    /\ ~VersionMatches(r)
    /\ Finish(r, "ok")
    /\ UNCHANGED <<accounts, call, row, applied>>

\* Update found no row with that version (RowsAffected = 0): ErrConflict, answered as a
\* failed precondition.
UpdateConflicts(r) ==
    /\ pc[r] = "write"
    /\ ~VersionMatches(r)
    /\ Finish(r, "conflict")
    /\ UNCHANGED <<accounts, call, row, applied>>

\* A statement fails before it takes effect, a cancelled context included.
StatementFails(r) ==
    /\ pc[r] \in {"read", "write"}
    /\ Finish(r, "error")
    /\ UNCHANGED <<accounts, call, row, applied>>

\* The Timeout middleware answers 503; the handler's goroutine goes on.
Timeout(r) ==
    /\ pc[r] \in {"read", "write"}
    /\ reply[r] = "none"
    /\ reply' = [reply EXCEPT ![r] = "timeout"]
    /\ UNCHANGED <<accounts, pc, call, row, applied>>

\* account-svc dies: nothing in flight is ever answered, the table stays.
Crash ==
    /\ \E r \in Requests : pc[r] \in {"read", "write"}
    /\ pc' = [r \in Requests |-> IF pc[r] = "idle" THEN "idle" ELSE "done"]
    /\ reply' = [r \in Requests |->
           IF pc[r] \in {"read", "write"} /\ reply[r] = "none" THEN "lost" ELSE reply[r]]
    /\ UNCHANGED <<accounts, call, row, applied>>

\* External: an operator changes the status of an account in the database.
SetStatus(a, s) ==
    /\ accounts[a] # Absent
    /\ accounts[a].version < MaxVersion
    /\ accounts[a].status # s
    /\ accounts' = [accounts EXCEPT ![a].status = s, ![a].version = @ + 1]
    /\ UNCHANGED <<pc, call, row, reply, applied>>

Next ==
    \/ \E r \in Requests :
          \/ \E a \in Accounts : CreateAccount(r, a)
          \/ \E c \in Calls : Arrive(r, c)
          \/ Read(r)
          \/ UpdateMatches(r)
          \/ UpdateConflicts(r)
          \/ StatementFails(r)
          \/ Timeout(r)
    \/ Crash
    \/ \E a \in Accounts, s \in Statuses : SetStatus(a, s)

Spec == Init /\ [][Next]_vars

-----------------------------------------------------------------------------
(***************************************************************************)
(* The answers are truthful: "ok" means the UPDATE took effect, and any    *)
(* refusal, the version conflict included, means it did not.  Only         *)
(* "error", "timeout" and no answer at all leave the caller in the dark.   *)
(***************************************************************************)
ReplyTruthful ==
    \A r \in Requests :
        /\ reply[r] = "ok" /\ call[r] # NoCall => applied[r]
        /\ reply[r] \in Refusals => ~applied[r]

(***************************************************************************)
(* A balance moves only while its account is ACTIVE at the moment of the   *)
(* commit, although the status is checked on a row read earlier and the    *)
(* UPDATE writes the old status back.                                      *)
(***************************************************************************)
OnlyActiveAccountsMove ==
    [][\A a \in Accounts :
          accounts'[a].balance # accounts[a].balance =>
              accounts[a].status = "ACTIVE" /\ accounts'[a].status = "ACTIVE"]_vars

(***************************************************************************)
(* account-svc implements the book: the balances of the table, and one     *)
(* entry for every request whose UPDATE took effect.                       *)
(***************************************************************************)
Balances == [a \in Accounts |-> accounts[a].balance]

Journal ==
    {[call |-> r, account |-> call[r].account, delta |-> Delta(call[r])] :
        r \in {q \in Requests : applied[q]}}

Book == INSTANCE AccountBook WITH
            Calls   <- Requests,
            Opening <- [a \in Accounts |-> InitialAccounts[a].balance],
            balance <- Balances,
            journal <- Journal

ImplementsBook == Book!BookSpec

(***************************************************************************)
(* No update is lost: with any interleaving of reads and updates, every    *)
(* balance is its opening balance plus the calls whose UPDATE took effect. *)
(***************************************************************************)
NoLostUpdate == Book!BalanceIsJournalSum
=============================================================================
