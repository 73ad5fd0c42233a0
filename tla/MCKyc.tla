------------------------------- MODULE MCKyc -------------------------------
(* A small instance of Kyc for TLC: user 1 has referred 2, who has two     *)
(* sessions, and 3, who is about to make a deposit.                        *)
EXTENDS Kyc, TLC

CONSTANTS h1, h2, c1, s1, s2

ByOne == [u \in Users |-> IF u = 1 THEN 0 ELSE 1]
Twos == [s \in Sessions |-> 2]
Goal == {<<2, "kyc_completed">>, <<3, "first_deposit">>}
Coins == [k \in Kinds |-> 1]
=============================================================================
