--------------------------- MODULE MCApiKeyCache ---------------------------
(* A key of an account; a Revoke, a deactivation and a change of roles. *)
EXTENDS ApiKeyCache, TLC

CONSTANTS partner, key, revoke, off, roles

MCAccountOf == [k \in Keys |-> partner]

MCOp ==
    [c \in Calls |->
        CASE c = revoke -> [kind |-> "revoke", key |-> key]
          [] c = off -> [kind |-> "update", account |-> partner, is_active |-> "inactive"]
          [] OTHER -> [kind |-> "update", account |-> partner, is_active |-> "as it was"]]

Symmetry == Permutations(Lookups)
=============================================================================
