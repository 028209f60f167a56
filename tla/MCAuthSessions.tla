--------------------------- MODULE MCAuthSessions ---------------------------
(* Symmetric requests. *)
EXTENDS AuthSessions, TLC

Symmetry == Permutations(Requests)
=============================================================================
