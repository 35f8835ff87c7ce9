-------------------------- MODULE MCAcceptScript --------------------------
(* A small instance of AcceptScript for TLC: runs that do the same are     *)
(* alike, and so are the sessions.                                         *)
EXTENDS AcceptScript, TLC

Symmetry == Permutations(Processes) \union Permutations(Sessions)
=============================================================================
