--------------------------- MODULE MCEmailOutbox ---------------------------
(* The outbox with one message and two instances, or two and one. *)
EXTENDS EmailOutbox, TLC

Symmetry == Permutations(Rows) \union Permutations(Instances)
=============================================================================
