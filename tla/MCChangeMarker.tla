--------------------------- MODULE MCChangeMarker ---------------------------
(* Small instances of ChangeMarker: two instances, with the writes sent to   *)
(* each of them or both to one.                                              *)
EXTENDS ChangeMarker, TLC

CONSTANTS i1, i2, w1, w2

Each == (w1 :> i1) @@ (w2 :> i2)
Same == (w1 :> i1) @@ (w2 :> i1)
One  == (w1 :> i1)

\* Sound where Home is Same.
Symmetry == Permutations(Writers)
=============================================================================
