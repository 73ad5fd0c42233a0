----------------------------- MODULE MCReferral -----------------------------
(* A small instance of Referral for TLC: user 1 has referred 2, who        *)
(* predicts, and 3, who is about to join and then to pay in; the cap       *)
(* leaves room for one event.                                              *)
EXTENDS Referral, TLC

CONSTANTS h1, h2, c1, c2

ByOne == [u \in Users |-> IF u = 1 THEN 0 ELSE 1]
Goal == {<<2, "first_prediction">>, <<3, "first_deposit">>}
Coins == [k \in Kinds |-> IF k = "signed_up" THEN 2 ELSE 1]
=============================================================================
