------------------------------ MODULE Deposit ------------------------------
(***************************************************************************)
(* What buying coins promises: the money of a captured payment becomes     *)
(* coins in one step, for its order's owner, and an order is paid by one   *)
(* payment only.  No provider, no callbacks, no retries.                   *)
(***************************************************************************)
EXTENDS Integers

CONSTANTS Users, Orders, Payments, NoPayment,
          Owner,      \* Owner[o]: who ordered
          OrderOf,    \* OrderOf[pay]: the order a payment is for
          Amount      \* Amount[o]: the coins of an order

VARIABLES captured,   \* the payments whose money has been taken
          paid,       \* paid[o]: the payment that was turned into coins
          balance

depositVars == <<captured, paid, balance>>

DepositInit ==
  /\ captured = {}
  /\ paid = [o \in Orders |-> NoPayment]
  /\ balance = [u \in Users |-> 0]

TakeMoney(pay) ==
  /\ captured' = captured \cup {pay}
  /\ UNCHANGED <<paid, balance>>

GiveCoins(pay) ==
  LET o == OrderOf[pay]
  IN /\ pay \in captured
     /\ paid[o] = NoPayment
     /\ paid' = [paid EXCEPT ![o] = pay]
     /\ balance' = [balance EXCEPT ![Owner[o]] = @ + Amount[o]]
     /\ UNCHANGED captured

DepositNext == \E pay \in Payments : TakeMoney(pay) \/ GiveCoins(pay)

DepositSpec == DepositInit /\ [][DepositNext]_depositVars
=============================================================================
