------------------------------- MODULE MCHub -------------------------------
(* A small instance of Hub for TLC: two users' connections, an event for   *)
(* everyone and one for one user.                                          *)
EXTENDS Hub, TLC

CONSTANTS ann, bob, k1, k2, e1, e2

Owner == k1 :> ann @@ k2 :> bob
For == [e \in Events |-> IF e = e1 THEN Everyone ELSE ann]
=============================================================================
