--------------------------- MODULE MCIdempotency ---------------------------
(* Requests with one key: a call and its retries, the same call of another caller, of a    *)
(* person, and one that forgets the header; TLC takes those in Requests.                    *)
EXTENDS Idempotency, TLC

CONSTANTS first, retry, third, stranger, person, keyless, c1, c2, c3, post, k

MCCall ==
    [r \in Requests |->
        [caller |-> IF r = stranger THEN c2 ELSE IF r = person THEN c3 ELSE c1,
         kind   |-> IF r = person THEN "human" ELSE "service",
         route  |-> post,
         safe   |-> FALSE,
         key    |-> IF r = keyless THEN "none" ELSE k]]

\* The retries of the call ask for the same thing as the call does.
MCSymmetry == Permutations({first, retry, third} \cap Requests)
============================================================================
