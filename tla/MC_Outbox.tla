----------------------------- MODULE MC_Outbox ------------------------------
(* Outbox with two entities and two drains at once.                        *)
EXTENDS Outbox, TLC

CONSTANTS e1, e2, d1, d2

Symmetry == Permutations(Entities) \cup Permutations(Drains)
=============================================================================
