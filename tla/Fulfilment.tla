----------------------------- MODULE Fulfilment -----------------------------
(***************************************************************************)
(* What spending coins promises: a request is paid for in advance and      *)
(* ends in one of two ways, delivered or refunded, in one step each.  No   *)
(* locks, no admins who meet, no failures.                                 *)
(***************************************************************************)
EXTENDS Integers

CONSTANTS Users, Items, Requests,
          Buyer,      \* Buyer[r]: who asks
          ItemOf,     \* ItemOf[r]: for what
          Cost,       \* Cost[i]: its price in coins
          Purse       \* Purse[u]: the coins u starts with

VARIABLES outcome,    \* outcome[r]
          balance,
          stock,      \* stock[i]: pieces left, -1 for an unlimited item
          verified    \* the users whose identity is verified

fulfilmentVars == <<outcome, balance, stock, verified>>

FulfilmentInit ==
  /\ outcome = [r \in Requests |-> "none"]
  /\ balance = Purse
  /\ stock \in [Items -> Nat \cup {-1}]
  /\ verified = {}

(* Unlimited items have no count to keep. *)
Moved(i, n) == [stock EXCEPT ![i] = IF @ = -1 THEN -1 ELSE @ + n]

Ask(r) ==
  LET u == Buyer[r]
      i == ItemOf[r]
  IN /\ outcome[r] = "none"
     /\ u \in verified
     /\ balance[u] >= Cost[i]
     /\ stock[i] # 0
     /\ outcome' = [outcome EXCEPT ![r] = "open"]
     /\ balance' = [balance EXCEPT ![u] = @ - Cost[i]]
     /\ stock' = Moved(i, -1)
     /\ UNCHANGED verified

Deliver(r) ==
  /\ outcome[r] = "open"
  /\ outcome' = [outcome EXCEPT ![r] = "delivered"]
  /\ UNCHANGED <<balance, stock, verified>>

Refund(r) ==
  /\ outcome[r] = "open"
  /\ outcome' = [outcome EXCEPT ![r] = "refunded"]
  /\ balance' = [balance EXCEPT ![Buyer[r]] = @ + Cost[ItemOf[r]]]
  /\ stock' = Moved(ItemOf[r], 1)
  /\ UNCHANGED verified

Identify(u) ==
  /\ verified' = verified \cup {u}
  /\ UNCHANGED <<outcome, balance, stock>>

FulfilmentNext ==
  \/ \E r \in Requests : Ask(r) \/ Deliver(r) \/ Refund(r)
  \/ \E u \in Users : Identify(u)

FulfilmentSpec == FulfilmentInit /\ [][FulfilmentNext]_fulfilmentVars
=============================================================================
