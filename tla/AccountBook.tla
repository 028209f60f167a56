---------------------------- MODULE AccountBook ----------------------------
(***************************************************************************)
(* What account-svc promises to the callers of its credit and debit        *)
(* endpoints, with no word on how it keeps the promise: a set of balances  *)
(* and a journal of the calls that took effect.  A call posts at most once *)
(* and moves exactly one balance by exactly its amount, and no posting     *)
(* takes a balance out of its range.                                       *)
(*                                                                         *)
(* AccountService (the read-check-update code of account-svc) and          *)
(* PaymentOrchestrator (its client in payment-svc) are both shown to       *)
(* implement this module, which is where the two services meet.            *)
(***************************************************************************)
EXTENDS Integers, FiniteSets, FiniteSetsExt

CONSTANTS
    Accounts,    \* account ids
    Calls,       \* identities of single credit/debit requests
    Amounts,     \* the amounts a call may carry, in minor units
    MaxBalance,  \* the largest balance that can be stored (math.MaxInt64)
    Opening      \* the balances the book opens with

VARIABLES
    balance,     \* balance[a]: what account a holds
    journal      \* the calls that took effect, as Entries

bookVars == <<balance, journal>>

Deltas == Amounts \cup {-x : x \in Amounts}

Entries == [call : Calls, account : Accounts, delta : Deltas]

BookTypeOK ==
    /\ balance \in [Accounts -> 0..MaxBalance]
    /\ journal \subseteq Entries

BookInit ==
    /\ balance = Opening
    /\ journal = {}

\* Call c moves account a by d, once.
Post(c, a, d) ==
    /\ \A e \in journal : e.call # c
    /\ balance[a] + d \in 0..MaxBalance
    /\ balance' = [balance EXCEPT ![a] = @ + d]
    /\ journal' = journal \cup {[call |-> c, account |-> a, delta |-> d]}

BookNext == \E c \in Calls, a \in Accounts, d \in Deltas : Post(c, a, d)

BookSpec == BookInit /\ [][BookNext]_bookVars

-----------------------------------------------------------------------------
\* The sum of the journal's entries for account a.
Posted(a) == MapThenSumSet(LAMBDA e : e.delta, {e \in journal : e.account = a})

(***************************************************************************)
(* Every balance is the opening balance plus the calls that took effect:   *)
(* no call's effect is lost, and none is applied twice or in part.         *)
(***************************************************************************)
BalanceIsJournalSum == \A a \in Accounts : balance[a] = Opening[a] + Posted(a)
=============================================================================
