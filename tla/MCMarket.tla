------------------------------ MODULE MCMarket ------------------------------
(* Small instances of Market for TLC.                                      *)
EXTENDS Market, TLC

CONSTANTS m1, m2, c1, c2, a1, a2, j1, yes, no, maybe

Pay == [m \in Markets |-> 2]
OneCategory == [m \in Markets |-> "sports"]
TwoCategories == [m \in Markets |-> m]
Starts == [m \in Markets |-> IF m \in Seeded THEN 0 ELSE 1]
Locks == [m \in Markets |-> 2]
Resolutions == [m \in Markets |-> 3]
Purse == [u \in Users |-> 2]
SmallPurse == [u \in Users |-> IF u = 1 THEN 1 ELSE 2]
(* 2 and 3 were referred by 1. *)
ReferredByOne == [u \in Users |-> IF u = 1 THEN 0 ELSE 1]
Symmetry == Permutations(Clients) \cup Permutations(Admins \cup Resolvers)
=============================================================================
