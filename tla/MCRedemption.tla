---------------------------- MODULE MCRedemption ----------------------------
(* A small instance of Redemption for TLC: u1 asks twice and u2 once for a *)
(* reward of which there are two; u2 also asks for an unlimited reward and *)
(* a voucher, with coins for some of it only.                              *)
(***************************************************************************)
EXTENDS Redemption, TLC

CONSTANTS h1, h2, u1, u2, mug, sticker, silver, r1, r2, r3, r4, r5

Buyers == [r \in Requests |-> IF r \in {r1, r2} THEN u1 ELSE u2]
Wanted == [r \in Requests |-> CASE r = r4 -> sticker [] r = r5 -> silver [] OTHER -> mug]
Prices == [i \in Items |-> IF i = mug THEN 1 ELSE 2]
Coins == [u \in Users |-> 2]
Shelf == [i \in Items |-> IF i = mug THEN 2 ELSE Unlimited]
=============================================================================
