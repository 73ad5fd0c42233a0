---------------------------- MODULE MCModeration ----------------------------
(* A small instance of Session and Moderation for TLC: a super admin and   *)
(* an admin, who are logged in and to the second of whom it all happens.   *)
EXTENDS Moderation, TLC

CONSTANTS h1, h2, boss, adm, t1, t2, l1, l2, r1, r2

LoggedIn == [t \in Tokens |-> IF t = t1 THEN boss ELSE NoOne]
Ranks == [u \in Users |-> IF u = boss THEN "super_admin" ELSE "admin"]
About == [r \in Reports |-> <<IF r = r1 THEN "User" ELSE "Comment", adm>>]
Symmetry == Permutations(Handlers) \cup Permutations(Links)
=============================================================================
