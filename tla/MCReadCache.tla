---------------------------- MODULE MCReadCache ----------------------------
(* Small instances of ReadCache: two shops, their pages, the neighbours of   *)
(* one of them and the highlights, with room for two or three answers.       *)
EXTENDS ReadCache, TLC

CONSTANTS s1, s2, home, page1, page2, near1, top

Page   == (page1 :> s1)
Pages  == (page1 :> s1) @@ (page2 :> s2)
Lists  == (page1 :> s1) @@ (near1 :> s1)
All    == (page1 :> s1) @@ (page2 :> s2) @@ (near1 :> s1) @@ (top :> home)
\* page2's answer fits the budget and its entry does not.
Bodies == [k \in Keys |-> IF k = page2 THEN 4 ELSE 1]
Names  == [k \in Keys |-> 1]
Interchangeable == Permutations(Requests)
=============================================================================
