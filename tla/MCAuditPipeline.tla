-------------------------- MODULE MCAuditPipeline --------------------------
(* Symmetric consumers. *)
EXTENDS AuditPipeline, TLC

Symmetry == Permutations(Consumers)

\* Bound: a message that is no event is delivered once.
NoiseOnce == \A e \in Garbled : tries[e] <= 1 /\ place[e] # "lost"
=============================================================================
