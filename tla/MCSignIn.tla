------------------------------ MODULE MCSignIn ------------------------------
(* One account with an address and one it may move to. *)
EXTENDS SignIn, TLC

CONSTANTS u1, g1, a1, s1, s2

MailOf == g1 :> a1
HomeOf == u1 :> a1
Replaced == (s1 :> None) @@ (s2 :> s1)

Symmetry == Permutations(Jobs)
=============================================================================
