--------------------------- MODULE MCShopRecords ---------------------------
(* Two shops, two reviews and two visit proofs of one user. *)
EXTENDS ShopRecords, TLC

CONSTANTS u1, p1, p2, v1, v2

OneAuthor == (p1 :> u1) @@ (p2 :> u1)
OneVisitor == (v1 :> u1) @@ (v2 :> u1)

Symmetry == Permutations(Jobs) \union Permutations(Shops) \union Permutations(Proofs)
=============================================================================
