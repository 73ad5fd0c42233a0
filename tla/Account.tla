------------------------------ MODULE Account ------------------------------
(***************************************************************************)
(* What the wallet promises to the rest of the backend: each user has a    *)
(* balance that moves by one whole amount at a time, never below zero and  *)
(* never above the largest integer, and every movement is written down in  *)
(* the same step.  No locks, no transactions, no batches.                  *)
(***************************************************************************)
EXTENDS Integers, Sequences

CONSTANTS Users,      \* user ids
          MaxPoints   \* largest value of the integer type of a balance

VARIABLES balance,    \* balance[u]: the coins of user u
          movements   \* movements[u]: the signed amounts applied to u, oldest first

accountVars == <<balance, movements>>

AccountInit ==
  /\ balance = [u \in Users |-> 0]
  /\ movements = [u \in Users |-> <<>>]

(* The balance of u moves by delta, and the movement is recorded. *)
Move(u, delta) ==
  /\ delta # 0
  /\ balance[u] + delta \in 0..MaxPoints
  /\ balance' = [balance EXCEPT ![u] = @ + delta]
  /\ movements' = [movements EXCEPT ![u] = Append(@, delta)]

AccountNext ==
  \E u \in Users : \E delta \in -MaxPoints..MaxPoints : Move(u, delta)

AccountSpec == AccountInit /\ [][AccountNext]_accountVars
=============================================================================
