----------------------------- MODULE MCPayment -----------------------------
(* A small instance of Payment for TLC: user 2 may pay an order twice,     *)
(* user 3 pays one, user 1 referred both.                                  *)
EXTENDS Payment, TLC

CONSTANTS h1, h2, o1, o2, p1, p1b, p2

Owners == o1 :> 2 @@ o2 :> 3
Paying == p1 :> o1 @@ p1b :> o1 @@ p2 :> o2
Rupees == o1 :> 1 @@ o2 :> 2
ReferredByOne == [u \in Users |-> IF u = 1 THEN 0 ELSE 1]
=============================================================================
