------------------------------ MODULE MCReports ------------------------------
(* Two posts of two users, one with media; one of the staff may not ban.  *)
EXTENDS Reports, TLC

CONSTANTS p1, p2, x, y, ip1, ip2, boss, mod

\* Everything, to delete only, and to ban only.
Forms == {[block |-> TRUE, delete |-> TRUE, ban |-> TRUE],
          [block |-> FALSE, delete |-> TRUE, ban |-> FALSE],
          [block |-> FALSE, delete |-> FALSE, ban |-> TRUE]}

AuthorOf == p1 :> x @@ p2 :> y
Symmetric == Permutations({ip1, ip2})
=============================================================================
