------------------------------ MODULE MCStreak ------------------------------
(* Small instances of Streak: a day is two ticks, a run of two days and one *)
(* of four earn a bonus.                                                   *)
EXTENDS Streak, TLC

CONSTANTS ann, r1, r2

Rewarded == 2 :> 5 @@ 4 :> 9

Symmetry == Permutations(Requests)
=============================================================================
