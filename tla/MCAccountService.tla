-------------------------- MODULE MCAccountService --------------------------
(* One active account with money, one that POST /v1/accounts may create. *)
EXTENDS AccountService, TLC

CONSTANTS acct, fresh

MCAccounts == {acct, fresh}

MCInitialAccounts ==
    [a \in MCAccounts |->
        IF a = acct THEN [status |-> "ACTIVE", balance |-> 2, version |-> 1] ELSE Absent]

MCSymmetry == Permutations(Requests)
=============================================================================
