----------------------------- MODULE Redemption -----------------------------
(***************************************************************************)
(* Spending coins.  Vouchers: RedeemVoucher (payment_controller.go),       *)
(* ApproveWithdrawal and RejectWithdrawal (queue_controller.go).  Rewards  *)
(* of the catalogue: SubmitRedemption and AdminProcessRedemption           *)
(* (reward_controller.go).                                                 *)
(*                                                                         *)
(* Coins are taken with the request; admins then deliver or refund it.     *)
(* The two kinds of request live in two tables under two disciplines: a    *)
(* voucher is approved by a conditional UPDATE without a transaction, all  *)
(* else locks rows: the request, then the item, then the wallet.           *)
(***************************************************************************)
EXTENDS Integers

CONSTANTS
  Users, Items, Requests,
  Vouchers,      \* the voucher tiers; the other items are of the catalogue
  Buyer,         \* Buyer[r]: who makes request r
  ItemOf,        \* ItemOf[r]: what it is for
  Cost,          \* Cost[i]: coins
  Purse,         \* Purse[u]: the coins u has to spend
  Stock,         \* Stock[i]: what the item starts with
  Handlers,      \* requests under way at once
  NoProc

Unlimited == -1

ASSUME ConstantsAssumption ==
  /\ Vouchers \subseteq Items
  /\ Buyer \in [Requests -> Users]
  /\ ItemOf \in [Requests -> Items]
  /\ Cost \in [Items -> Nat \ {0}]
  /\ Purse \in [Users -> Nat]
  /\ Stock \in [Items -> Nat \cup {Unlimited}]
  /\ \A i \in Vouchers : Stock[i] = Unlimited
  /\ NoProc \notin Handlers

VARIABLES
  status,     \* status[r]: the row of withdrawal_requests or redemptions
  inventory,  \* inventory[i]: reward_items.inventory
  points,     \* points[u]: users.points
  verified,   \* the users with kyc_status
  rowLock,    \* rowLock[r]: the transaction holding the request's row
  itemLock,   \* itemLock[i]: the one holding the item's row
  userLock,   \* userLock[u]: the one holding the wallet
  pc,
  job,        \* job[p]: what handler p was called with
  read,       \* read[p]: the points it read
  copy        \* copy[p]: the inventory it read

tables == <<status, inventory, points, verified>>
locks == <<rowLock, itemLock, userLock>>
memory == <<job, read, copy>>
vars == <<tables, locks, pc, memory>>

Statuses == {"Pending", "Approved", "Rejected", "Completed"}

(* to: the status the handler is to bring about *)
Job == [req: Requests, to: Statuses]

NoJob == [to |-> "none"]

TypeOK ==
  /\ status \in [Requests -> Statuses \cup {"None"}]
  /\ inventory \in [Items -> Nat \cup {Unlimited}]
  /\ points \in [Users -> Nat]
  /\ verified \subseteq Users
  /\ rowLock \in [Requests -> Handlers \cup {NoProc}]
  /\ itemLock \in [Items -> Handlers \cup {NoProc}]
  /\ userLock \in [Users -> Handlers \cup {NoProc}]
  /\ pc \in [Handlers -> {"idle", "row", "item", "buyer", "wallet", "commit", "update"}]
  /\ job \in [Handlers -> Job \cup {NoJob}]
  /\ read \in [Handlers -> Nat]
  /\ copy \in [Handlers -> Nat \cup {Unlimited}]

-----------------------------------------------------------------------------
(* Helpers.  A second form beside a definition is the slip the properties  *)
(* are tested against.                                                     *)

IsVoucher(r) == ItemOf[r] \in Vouchers

LockIgnored(lock) == TRUE
LockFree(lock) == lock = NoProc

(* What an admin may make of a request.  "Rejected" from "Approved" is for *)
(* rewards only: an approved voucher is on its way.                        *)
LegalTwice(r, to) == status[r] # "None"
Legal(r, to) ==
  IF IsVoucher(r)
    THEN status[r] = "Pending" /\ to \in {"Approved", "Rejected"}
    ELSE \/ status[r] = "Pending" /\ to \in {"Approved", "Rejected"}
         \/ status[r] = "Approved" /\ to \in {"Completed", "Rejected"}

(* The order of locks: request, item, wallet, whoever needs them.          *)
WalletBeforeItem(r, to, place) ==
  CASE place = "row" /\ to = "Rejected" -> "wallet"
    [] place = "wallet" /\ to = "Rejected" /\ ~IsVoucher(r) -> "item"
    [] place = "item" /\ to = "Pending" -> "buyer"
    [] OTHER -> "commit"
After(r, to, place) ==
  CASE place = "row" /\ to = "Rejected" -> IF IsVoucher(r) THEN "wallet" ELSE "item"
    [] place = "item" /\ to = "Rejected" -> "wallet"
    [] place = "item" /\ to = "Pending" -> "buyer"
    [] OTHER -> "commit"

(* A rejected reward goes back on the shelf, unless it is unlimited.       *)
RestoredAlways(i) == [inventory EXCEPT ![i] = @ + 1]
Restored(i) == [inventory EXCEPT ![i] = IF @ >= 0 THEN @ + 1 ELSE @]

-----------------------------------------------------------------------------
(* The end of a handler: locks released, memory gone. *)
End(p) ==
  /\ pc' = [pc EXCEPT ![p] = "idle"]
  /\ job' = [job EXCEPT ![p] = NoJob]
  /\ read' = [read EXCEPT ![p] = 0]
  /\ copy' = [copy EXCEPT ![p] = 0]
  /\ rowLock' = [r \in Requests |-> IF rowLock[r] = p THEN NoProc ELSE rowLock[r]]
  /\ itemLock' = [i \in Items |-> IF itemLock[i] = p THEN NoProc ELSE itemLock[i]]
  /\ userLock' = [u \in Users |-> IF userLock[u] = p THEN NoProc ELSE userLock[u]]

Refuse(p) == End(p) /\ UNCHANGED tables

Begin(p, r, to, first) ==
  /\ pc[p] = "idle"
  /\ pc' = [pc EXCEPT ![p] = first]
  /\ job' = [job EXCEPT ![p] = [req |-> r, to |-> to]]
  /\ UNCHANGED <<tables, locks, read, copy>>

Goto(p, place) == pc' = [pc EXCEPT ![p] = place]

Init ==
  /\ status = [r \in Requests |-> "None"]
  /\ inventory = Stock
  /\ points = Purse
  /\ verified = {}
  /\ rowLock = [r \in Requests |-> NoProc]
  /\ itemLock = [i \in Items |-> NoProc]
  /\ userLock = [u \in Users |-> NoProc]
  /\ pc = [p \in Handlers |-> "idle"]
  /\ job = [p \in Handlers |-> NoJob]
  /\ read = [p \in Handlers |-> 0]
  /\ copy = [p \in Handlers |-> 0]

-----------------------------------------------------------------------------
(* The handlers.  A request id is new: the database gives it out once.     *)

Fresh(r) ==
  /\ status[r] = "None"
  /\ \A p \in Handlers : pc[p] # "idle" => job[p].req # r

RedeemVoucher(p, r) ==
  /\ IsVoucher(r)
  /\ Fresh(r)
  /\ Begin(p, r, "Pending", "buyer")

SubmitRedemption(p, r) ==
  /\ ~IsVoucher(r)
  /\ Fresh(r)
  /\ Begin(p, r, "Pending", "item")

(* Reads the row without a lock, and updates it later. *)
ApproveWithdrawal(p, r) ==
  /\ IsVoucher(r)
  /\ Legal(r, "Approved")
  /\ Begin(p, r, "Approved", "update")

RejectWithdrawal(p, r) ==
  /\ IsVoucher(r)
  /\ status[r] # "None"
  /\ Begin(p, r, "Rejected", "row")

AdminProcessRedemption(p, r, to) ==
  /\ ~IsVoucher(r)
  /\ status[r] # "None"
  /\ to \in Statuses \ {"Pending"}
  /\ Begin(p, r, to, "row")

-----------------------------------------------------------------------------
(* Their steps *)

LockRow(p) ==
  LET r == job[p].req
  IN /\ pc[p] = "row"
     /\ LockFree(rowLock[r])
     /\ IF Legal(r, job[p].to)
          THEN /\ rowLock' = [rowLock EXCEPT ![r] = p]
               /\ Goto(p, After(r, job[p].to, "row"))
               /\ UNCHANGED <<tables, itemLock, userLock, memory>>
          ELSE Refuse(p)

(* Sold out is 0; a refund does not ask. *)
LockItem(p) ==
  LET i == ItemOf[job[p].req]
  IN /\ pc[p] = "item"
     /\ LockFree(itemLock[i])
     /\ IF job[p].to = "Rejected" \/ inventory[i] # 0
          THEN /\ itemLock' = [itemLock EXCEPT ![i] = p]
               /\ copy' = [copy EXCEPT ![p] = inventory[i]]
               /\ Goto(p, After(job[p].req, job[p].to, "item"))
               /\ UNCHANGED <<tables, rowLock, userLock, job, read>>
          ELSE Refuse(p)

(* The users row without a lock. *)
CheckBuyer(p) ==
  LET u == Buyer[job[p].req]
  IN /\ pc[p] = "buyer"
     /\ IF u \in verified /\ points[u] >= Cost[ItemOf[job[p].req]]
          THEN Goto(p, "wallet") /\ UNCHANGED <<tables, locks, memory>>
          ELSE Refuse(p)

(* DebitWalletTx or CreditWalletTx; the balance is read again.             *)
LockWallet(p) ==
  LET u == Buyer[job[p].req]
  IN /\ pc[p] = "wallet"
     /\ LockFree(userLock[u])
     /\ IF job[p].to = "Rejected" \/ points[u] >= Cost[ItemOf[job[p].req]]
          THEN /\ userLock' = [userLock EXCEPT ![u] = p]
               /\ read' = [read EXCEPT ![p] = points[u]]
               /\ Goto(p, After(job[p].req, job[p].to, "wallet"))
               /\ UNCHANGED <<tables, rowLock, itemLock, job, copy>>
          ELSE Refuse(p)

(* The request, the debit and the item saved as it was read, one less.     *)
CommitRequest(p) ==
  LET r == job[p].req
      i == ItemOf[r]
      u == Buyer[r]
  IN /\ pc[p] = "commit"
     /\ job[p].to = "Pending"
     /\ status' = [status EXCEPT ![r] = "Pending"]
     /\ points' = [points EXCEPT ![u] = read[p] - Cost[i]]
     /\ inventory' = IF ~IsVoucher(r) /\ copy[p] > 0
                       THEN [inventory EXCEPT ![i] = copy[p] - 1]
                       ELSE inventory
     /\ End(p)
     /\ UNCHANGED <<verified>>

CommitRefund(p) ==
  LET r == job[p].req
      u == Buyer[r]
  IN /\ pc[p] = "commit"
     /\ job[p].to = "Rejected"
     /\ status' = [status EXCEPT ![r] = "Rejected"]
     /\ points' = [points EXCEPT ![u] = read[p] + Cost[ItemOf[r]]]
     /\ inventory' = IF IsVoucher(r) THEN inventory ELSE Restored(ItemOf[r])
     /\ End(p)
     /\ UNCHANGED <<verified>>

CommitProcess(p) ==
  /\ pc[p] = "commit"
  /\ job[p].to \in {"Approved", "Completed"}
  /\ status' = [status EXCEPT ![job[p].req] = job[p].to]
  /\ End(p)
  /\ UNCHANGED <<inventory, points, verified>>

(* ApproveWithdrawal's UPDATE waits for the row and looks at it again; it  *)
(* answers 409 when the request is no longer pending.                      *)
ConfirmBlindly(r) == status[r] # "None"
StillPending(r) == status[r] = "Pending"
UpdateApproved(p) ==
  LET r == job[p].req
  IN /\ pc[p] = "update"
     /\ LockFree(rowLock[r])
     /\ status' = IF StillPending(r) THEN [status EXCEPT ![r] = "Approved"] ELSE status
     /\ End(p)
     /\ UNCHANGED <<inventory, points, verified>>

-----------------------------------------------------------------------------
(* Identity verification, module Kyc, gives kyc_status for good. *)
PassKyc(u) ==
  /\ u \notin verified
  /\ verified' = verified \cup {u}
  /\ UNCHANGED <<status, inventory, points, locks, pc, memory>>

(* A statement fails, coins counted in points have expired, the process    *)
(* is killed: what was not committed is lost.                              *)
Fail(p) ==
  /\ pc[p] # "idle"
  /\ End(p)
  /\ UNCHANGED tables

Step(p) ==
  \/ LockRow(p) \/ LockItem(p) \/ CheckBuyer(p) \/ LockWallet(p)
  \/ CommitRequest(p) \/ CommitRefund(p) \/ CommitProcess(p) \/ UpdateApproved(p)

Next ==
  \/ \E u \in Users : PassKyc(u)
  \/ \E p \in Handlers :
       \/ \E r \in Requests :
            \/ RedeemVoucher(p, r) \/ SubmitRedemption(p, r)
            \/ ApproveWithdrawal(p, r) \/ RejectWithdrawal(p, r)
            \/ \E to \in Statuses : AdminProcessRedemption(p, r, to)
       \/ Step(p) \/ Fail(p)

Spec == Init /\ [][Next]_vars

(* Row locks are granted in order of arrival. *)
FairSpec == Spec /\ \A p \in Handlers : SF_vars(Step(p))

-----------------------------------------------------------------------------
(* The inductive invariant *)

(* Where a handler is tells what it is for. *)
PlaceOK ==
  \A p \in Handlers :
    LET r == job[p].req
        to == job[p].to
    IN /\ pc[p] # "idle" => job[p] \in Job
       /\ pc[p] = "row" => to \in Statuses \ {"Pending"}
       /\ pc[p] = "item" => ~IsVoucher(r) /\ to \in {"Pending", "Rejected"}
       /\ pc[p] = "buyer" => to = "Pending"
       /\ pc[p] = "wallet" => to \in {"Pending", "Rejected"}
       /\ pc[p] = "update" => IsVoucher(r) /\ to = "Approved"

(* A request not yet stored has one handler; the others find nothing.      *)
Created ==
  \A p \in Handlers : pc[p] # "idle" =>
    IF job[p].to = "Pending"
      THEN /\ status[job[p].req] = "None"
           /\ \A q \in Handlers : pc[q] # "idle" /\ job[q].req = job[p].req => q = p
      ELSE status[job[p].req] # "None"

(* Past a lock, what the handler decided on still holds. *)
RowHeld ==
  \A p \in Handlers :
    pc[p] \in {"item", "wallet", "commit"} /\ job[p].to # "Pending" =>
      rowLock[job[p].req] = p /\ Legal(job[p].req, job[p].to)

ItemHeld ==
  \A p \in Handlers :
    LET i == ItemOf[job[p].req]
    IN /\ pc[p] \in {"buyer", "wallet", "commit"}
       /\ job[p].to \in {"Pending", "Rejected"}
       /\ ~IsVoucher(job[p].req)
       => /\ itemLock[i] = p
          /\ copy[p] = inventory[i]
          /\ job[p].to = "Pending" => copy[p] # 0

WalletHeld ==
  \A p \in Handlers : pc[p] = "commit" /\ job[p].to \in {"Pending", "Rejected"} =>
    LET u == Buyer[job[p].req]
    IN /\ userLock[u] = p
       /\ read[p] = points[u]
       /\ job[p].to = "Pending" => read[p] >= Cost[ItemOf[job[p].req]]

BuyersVerified ==
  \A p \in Handlers : pc[p] \in {"wallet", "commit"} /\ job[p].to = "Pending" =>
    Buyer[job[p].req] \in verified

(* Vouchers are not counted. *)
VouchersUnlimited == \A i \in Vouchers : inventory[i] = Unlimited

(* Where a handler may hold which row: none after its end, none out of the *)
(* order of After.                                                         *)
LocksOf(p) ==
  /\ \A r \in Requests : rowLock[r] = p =>
       job[p].to # "Pending" /\ pc[p] \in {"item", "wallet", "commit"}
  /\ \A i \in Items : itemLock[i] = p => pc[p] \in {"buyer", "wallet", "commit"}
  /\ \A u \in Users : userLock[u] = p => pc[p] = "commit"

LocksOK == \A p \in Handlers : LocksOf(p)

(* What a handler read under its locks is still so when it commits.        *)
RedemptionInv ==
  /\ TypeOK /\ PlaceOK /\ Created /\ RowHeld /\ ItemHeld /\ WalletHeld
  /\ BuyersVerified /\ VouchersUnlimited /\ LocksOK

-----------------------------------------------------------------------------
(* Correctness *)

(* What a row of status s comes to.  An approved voucher is delivered. *)
Outcome(r, s) ==
  CASE s = "None" -> "none"
    [] s = "Rejected" -> "refunded"
    [] s = (IF IsVoucher(r) THEN "Approved" ELSE "Completed") -> "delivered"
    [] OTHER -> "open"

(* Whatever users and admins do at once, a request is paid for once by a   *)
(* verified user and ends delivered or refunded, never both; a refund      *)
(* gives back the coins and the piece; the last piece is sold once and no  *)
(* piece appears or vanishes.                                              *)
Promise == INSTANCE Fulfilment WITH
  outcome <- [r \in Requests |-> Outcome(r, status[r])],
  balance <- points, stock <- inventory

FulfilmentSpec == Promise!FulfilmentSpec

(* Handler p waits for a row that handler q holds. *)
WaitsFor(p, q) ==
  \/ pc[p] \in {"row", "update"} /\ rowLock[job[p].req] = q
  \/ pc[p] = "item" /\ itemLock[ItemOf[job[p].req]] = q
  \/ pc[p] = "wallet" /\ userLock[Buyer[job[p].req]] = q

Circle(S) == S # {} /\ \A p \in S : \E q \in S : WaitsFor(p, q)

(* Buyers of one item, admins who refund it and requests of one wallet do  *)
(* not lock each other out: whoever is waited for is at work, and nobody   *)
(* waits in a circle.                                                      *)
NobodyStuck ==
  /\ \A p, q \in Handlers : WaitsFor(p, q) => pc[q] # "idle"
  /\ \A S \in SUBSET Handlers : ~Circle(S)

RedemptionsSafe == RedemptionInv /\ NobodyStuck

(* Buyers of one item, admins who refund it and requests of one wallet     *)
(* take their locks in one order: every handler comes to its end.          *)
HandlersEnd == \A p \in Handlers : pc[p] # "idle" ~> pc[p] = "idle"
=============================================================================
