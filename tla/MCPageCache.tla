---------------------------- MODULE MCPageCache ----------------------------
(* The page cache on a small board. *)
EXTENDS PageCache, TLC

CONSTANTS t1, t2, c1, c2, c3, o1, o2, o3, o4, o5, o6

OneRecovered == t1 :> o1

Symmetric == Permutations(Clients \ Staff)
=============================================================================
