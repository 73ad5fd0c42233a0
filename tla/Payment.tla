------------------------------ MODULE Payment ------------------------------
(***************************************************************************)
(* Buying coins: CreateRazorpayOrder, VerifyPayment, RazorpayWebhook and   *)
(* settlePayment (controllers/payment_controller.go), with the referral    *)
(* event of a first deposit (services/referral_service.go).                *)
(*                                                                         *)
(* The provider takes the money and tells the backend twice: the browser   *)
(* calls VerifyPayment, and the provider calls the webhook, again and      *)
(* again until it is answered.  Either may be lost, late or repeated, and  *)
(* both end in settlePayment, a transaction over row locks as in Market.   *)
(***************************************************************************)
EXTENDS Integers, FiniteSets

CONSTANTS
  Users,          \* user ids, natural numbers: row locks are taken in their order
  Orders, Payments,
  NoPayment,
  Owner,          \* Owner[o]: the user of order o
  OrderOf,        \* OrderOf[pay]: the order a payment is for
  Amount,         \* Amount[o]: coins bought, one for each rupee
  Referrer,       \* Referrer[u]: users.referred_by, 0 for none
  MaxReferralRewards,
  Handlers,       \* requests under way at once
  NoProc,
  MaxFails        \* bound: requests that fail or die half-way

ASSUME ConstantsAssumption ==
  /\ Users \subseteq Nat \ {0}
  /\ NoPayment \notin Payments
  /\ Owner \in [Orders -> Users]
  /\ OrderOf \in [Payments -> Orders]
  /\ Amount \in [Orders -> Nat \ {0}]
  /\ Referrer \in [Users -> Users \cup {0}]
  /\ \A u \in Users : Referrer[u] # u
  /\ MaxReferralRewards \in Nat
  /\ NoProc \notin Handlers
  /\ MaxFails \in Nat

VARIABLES
  created,    \* the orders that exist at the provider
  captured,   \* the payments it has captured
  order,      \* order[o]: the payment_transactions row
  points,     \* points[u]: users.points
  events,     \* events[u]: the FirstDeposit rows of referral_events for referred user u
  answered,   \* the 200 answers that arrived, as <<caller, payment>>
  orderLock,  \* orderLock[o]: the transaction holding the row
  userLock,   \* userLock[u]: the transaction holding the users row
  pc,
  job,        \* job[p]: the call p serves
  read,       \* read[p]: the points it read
  due,        \* due[p]: it is to create a referral event
  fails

tables == <<order, points, events>>
locks == <<orderLock, userLock>>
vars == <<created, captured, tables, answered, locks, pc, job, read, due, fails>>

Row == [status: {"None", "Pending", "Completed"}, payment: Payments \cup {NoPayment}]

Callers == {"verify", "webhook"}

Job == [op: Callers, order: Orders, payment: Payments]
       \cup [op: {"create"}, order: Orders, payment: {NoPayment}]

NoJob == [op |-> "none"]

TypeOK ==
  /\ created \subseteq Orders
  /\ captured \subseteq Payments
  /\ order \in [Orders -> Row]
  /\ points \in [Users -> Nat]
  /\ events \in [Users -> Nat]
  /\ answered \subseteq Callers \X Payments
  /\ orderLock \in [Orders -> Handlers \cup {NoProc}]
  /\ userLock \in [Users -> Handlers \cup {NoProc}]
  /\ pc \in [Handlers -> {"idle", "record", "fetch", "order", "wallets", "commit"}]
  /\ job \in [Handlers -> Job \cup {NoJob}]
  /\ read \in [Handlers -> Nat]
  /\ due \in [Handlers -> BOOLEAN]
  /\ fails \in 0..MaxFails

-----------------------------------------------------------------------------
(* Helpers.  As in Wallet, a second form beside a definition is the slip   *)
(* the properties are tested against.                                      *)

(* The customer learns of an order when it is on record, so pays no other. *)
OfferedAtOnce(o) == o \in created
Offered(o) == order[o].status # "None"

(* A settled order is good news for the payment it was settled with.       *)
SettledByAny(o, pay) == order[o].status = "Completed"
SettledBy(o, pay) == order[o].status = "Completed" /\ order[o].payment = pay

LockIgnored(lock) == TRUE
LockFree(lock) == lock = NoProc

(* The rows LockReferralWalletsTx locks for a user. *)
OwnWalletOnly(u) == {u}
Wallets(u) == {u} \cup ({Referrer[u]} \ {0})

(* Those p has yet to lock, in ascending order. *)
Missing(p) == {w \in Wallets(Owner[job[p].order]) : userLock[w] # p}
IsNext(p, w) == w \in Missing(p) /\ \A x \in Missing(p) : w <= x

(* TriggerReferralEventTx creates an event: the first of this user, and    *)
(* one more for the referrer.  With the first clause the events of a       *)
(* referrer are one for each user.                                         *)
Rewarded(r) == {u \in Users : Referrer[u] = r /\ events[u] > 0}
ReferralDue(u) ==
  /\ Referrer[u] # 0
  /\ events[u] = 0
  /\ Cardinality(Rewarded(Referrer[u])) < MaxReferralRewards

-----------------------------------------------------------------------------
(* The end of a request: locks released, memory gone. *)
End(p) ==
  /\ pc' = [pc EXCEPT ![p] = "idle"]
  /\ job' = [job EXCEPT ![p] = NoJob]
  /\ read' = [read EXCEPT ![p] = 0]
  /\ due' = [due EXCEPT ![p] = FALSE]
  /\ orderLock' = [o \in Orders |-> IF orderLock[o] = p THEN NoProc ELSE orderLock[o]]
  /\ userLock' = [u \in Users |-> IF userLock[u] = p THEN NoProc ELSE userLock[u]]

(* A 200 for the caller, which may not reach it. *)
Answer(op, pay) == answered' \in {answered, answered \cup {<<op, pay>>}}

Refuse(p) == End(p) /\ UNCHANGED <<created, captured, tables, answered, fails>>

Begin(p, j, first) ==
  /\ pc[p] = "idle"
  /\ pc' = [pc EXCEPT ![p] = first]
  /\ job' = [job EXCEPT ![p] = j]
  /\ UNCHANGED <<tables, locks, read, due, fails>>

Goto(p, place) == pc' = [pc EXCEPT ![p] = place]

Init ==
  /\ created = {}
  /\ captured = {}
  /\ order = [o \in Orders |-> [status |-> "None", payment |-> NoPayment]]
  /\ points = [u \in Users |-> 0]
  /\ events = [u \in Users |-> 0]
  /\ answered = {}
  /\ orderLock = [o \in Orders |-> NoProc]
  /\ userLock = [u \in Users |-> NoProc]
  /\ pc = [p \in Handlers |-> "idle"]
  /\ job = [p \in Handlers |-> NoJob]
  /\ read = [p \in Handlers |-> 0]
  /\ due = [p \in Handlers |-> FALSE]
  /\ fails = 0

-----------------------------------------------------------------------------
(* Ordering: first at the provider, then in the database. *)

CreateRazorpayOrder(p, o) ==
  /\ o \notin created
  /\ created' = created \cup {o}
  /\ Begin(p, [op |-> "create", order |-> o, payment |-> NoPayment], "record")
  /\ UNCHANGED <<captured, answered>>

RecordOrder(p) ==
  /\ pc[p] = "record"
  /\ order' = [order EXCEPT ![job[p].order] = [status |-> "Pending", payment |-> NoPayment]]
  /\ End(p)
  /\ UNCHANGED <<created, captured, points, events, answered, fails>>

(* The provider takes the customer's money; a second payment for an order  *)
(* is possible, settlePayment provides for it.                             *)
Capture(pay) ==
  /\ pay \notin captured
  /\ Offered(OrderOf[pay])
  /\ captured' = captured \cup {pay}
  /\ UNCHANGED <<created, tables, answered, locks, pc, job, read, due, fails>>

-----------------------------------------------------------------------------
(* The two channels *)

(* The browser is back from the checkout.  The order is read without a     *)
(* lock; what it says is good enough only if it is settled.                *)
VerifyPayment(p, pay) ==
  LET o == OrderOf[pay]
  IN /\ Offered(o)
     /\ order[o].status # "Completed"
     /\ Begin(p, [op |-> "verify", order |-> o, payment |-> pay], "fetch")
     /\ UNCHANGED <<created, captured, answered>>

AlreadyVerified(pay) ==
  /\ SettledBy(OrderOf[pay], pay)
  /\ Answer("verify", pay)
  /\ UNCHANGED <<created, captured, tables, locks, pc, job, read, due, fails>>

(* The provider is asked whether it has captured the payment. *)
FetchPayment(p) ==
  /\ pc[p] = "fetch"
  /\ IF job[p].payment \in captured
       THEN Goto(p, "order")
            /\ UNCHANGED <<created, captured, tables, answered, locks, job, read, due, fails>>
       ELSE Refuse(p)

RazorpayWebhook(p, pay) ==
  /\ pay \in captured
  /\ Begin(p, [op |-> "webhook", order |-> OrderOf[pay], payment |-> pay], "order")
  /\ UNCHANGED <<created, captured, answered>>

-----------------------------------------------------------------------------
(* settlePayment *)

(* The order is read again under its lock.  Settled by this payment: done; *)
(* by another one, or not on record: an error.                             *)
LockOrder(p) ==
  LET o == job[p].order
      pay == job[p].payment
  IN /\ pc[p] = "order"
     /\ LockFree(orderLock[o])
     /\ \/ /\ order[o].status = "Pending"
           /\ orderLock' = [orderLock EXCEPT ![o] = p]
           /\ Goto(p, "wallets")
           /\ UNCHANGED <<created, captured, tables, answered, userLock, job, read, due, fails>>
        \/ /\ SettledBy(o, pay)
           /\ Answer(job[p].op, pay)
           /\ End(p)
           /\ UNCHANGED <<created, captured, tables, fails>>
        \/ /\ order[o].status # "Pending"
           /\ ~SettledBy(o, pay)
           /\ Refuse(p)

(* LockReferralWalletsTx; with the last wallet the points and the events   *)
(* are read.                                                               *)
LockWallet(p) ==
  LET u == Owner[job[p].order]
  IN /\ pc[p] = "wallets"
     /\ \E w \in Wallets(u) :
          /\ IsNext(p, w)
          /\ LockFree(userLock[w])
          /\ userLock' = [userLock EXCEPT ![w] = p]
          /\ IF Missing(p) = {w}
               THEN /\ read' = [read EXCEPT ![p] = points[u]]
                    /\ due' = [due EXCEPT ![p] = ReferralDue(u)]
                    /\ Goto(p, "commit")
               ELSE UNCHANGED <<pc, read, due>>
     /\ UNCHANGED <<created, captured, tables, answered, orderLock, job, fails>>

(* Coins, order and event become visible together. *)
Settle(p) ==
  LET o == job[p].order
      u == Owner[o]
  IN /\ pc[p] = "commit"
     /\ points' = [points EXCEPT ![u] = read[p] + Amount[o]]
     /\ order' = [order EXCEPT ![o] = [status |-> "Completed", payment |-> job[p].payment]]
     /\ events' = [events EXCEPT ![u] = @ + IF due[p] THEN 1 ELSE 0]
     /\ Answer(job[p].op, job[p].payment)
     /\ End(p)
     /\ UNCHANGED <<created, captured, fails>>

-----------------------------------------------------------------------------
(* A request dies: the provider does not answer, a statement fails, the    *)
(* process is killed.  What it had not committed is lost.                  *)
Fail(p) ==
  /\ pc[p] # "idle"
  /\ fails < MaxFails
  /\ fails' = fails + 1
  /\ End(p)
  /\ UNCHANGED <<created, captured, tables, answered>>

Step(p) == RecordOrder(p) \/ FetchPayment(p) \/ LockOrder(p) \/ LockWallet(p) \/ Settle(p)

Next ==
  \/ \E pay \in Payments : Capture(pay) \/ AlreadyVerified(pay)
  \/ \E p \in Handlers :
       \/ \E o \in Orders : CreateRazorpayOrder(p, o)
       \/ \E pay \in Payments : VerifyPayment(p, pay) \/ RazorpayWebhook(p, pay)
       \/ Step(p) \/ Fail(p)

Spec == Init /\ [][Next]_vars

(* The provider repeats a webhook that was not answered with a 200. *)
Redeliver(pay) ==
  /\ <<"webhook", pay>> \notin answered
  /\ \E p \in Handlers : RazorpayWebhook(p, pay)

(* Row locks are granted in order of arrival; the browser owes nothing. *)
Fairness ==
  /\ \A p \in Handlers : SF_vars(Step(p))
  /\ \A pay \in Payments : SF_vars(Redeliver(pay))

FairSpec == Spec /\ Fairness

-----------------------------------------------------------------------------
(* The inductive invariant *)

(* Where a request is tells whom it serves; past the provider's word the   *)
(* payment is captured.                                                    *)
PlaceOK ==
  \A p \in Handlers :
    /\ pc[p] # "idle" => job[p] \in Job
    /\ pc[p] = "record" => job[p].op = "create"
    /\ pc[p] \in {"fetch", "order", "wallets", "commit"} =>
         job[p].op \in Callers /\ job[p].order = OrderOf[job[p].payment]
    /\ pc[p] \in {"order", "wallets", "commit"} => job[p].payment \in captured

(* An order is recorded once, by the request that created it. *)
RecordedOnce ==
  /\ \A o \in Orders \ created : order[o].status = "None"
  /\ \A p \in Handlers : pc[p] = "record" =>
       /\ job[p].order \in created
       /\ order[job[p].order].status = "None"
       /\ \A q \in Handlers : pc[q] = "record" /\ job[q].order = job[p].order => q = p

(* A row names the captured payment it was settled with, and no other.     *)
RowsOK ==
  \A o \in Orders :
    LET pay == order[o].payment
    IN IF order[o].status = "Completed"
         THEN pay \in captured /\ OrderOf[pay] = o
         ELSE pay = NoPayment

(* What a settlement is about to write still follows from the tables.      *)
OrderHeld ==
  \A p \in Handlers : pc[p] \in {"wallets", "commit"} =>
    /\ orderLock[job[p].order] = p
    /\ order[job[p].order].status = "Pending"

WalletHeld ==
  \A p \in Handlers : pc[p] = "commit" =>
    LET u == Owner[job[p].order]
    IN userLock[u] = p /\ read[p] = points[u]

(* No lock outlives its transaction, and one that still waits for wallets  *)
(* holds none above those it waits for.                                    *)
LocksOf(p) ==
  /\ \A o \in Orders : orderLock[o] = p => pc[p] \in {"wallets", "commit"}
  /\ \A u \in Users : userLock[u] = p =>
       /\ pc[p] \in {"wallets", "commit"}
       /\ pc[p] = "wallets" => \A w \in Missing(p) : u < w

LocksOK == \A p \in Handlers : LocksOf(p)

(* The order lock is why nothing is settled twice, the wallet lock why no  *)
(* coins are lost, their order why nobody waits for ever.                  *)
PaymentInv ==
  TypeOK /\ PlaceOK /\ RecordedOnce /\ RowsOK /\ OrderHeld /\ WalletHeld /\ LocksOK

-----------------------------------------------------------------------------
(* Correctness *)

(* Both channels, any number of times and at once, in any order with       *)
(* failures: a payment becomes coins at most once, only when captured, and *)
(* no credit overwrites another (the API documentation: settlement is      *)
(* idempotent for the same captured payment).                              *)
Promise == INSTANCE Deposit WITH
  balance <- points, paid <- [o \in Orders |-> order[o].payment]

DepositSpec == Promise!DepositSpec

(* A 200 of either channel is the truth: that very payment is in the       *)
(* wallet, not merely its order settled.                                   *)
AnswersAreTrue ==
  \A a \in answered :
    LET o == OrderOf[a[2]]
    IN order[o].status = "Completed" /\ order[o].payment = a[2]

(* Deposits settled at once, of one user or of several that one referrer   *)
(* brought: each user's first earns the one event, unless the referrer's   *)
(* cap is used up, and the cap holds.                                      *)
FirstDepositsReferred ==
  /\ \A u \in Users : events[u] <= 1
  /\ \A r \in Users : Cardinality(Rewarded(r)) <= MaxReferralRewards
  /\ \A o \in Orders :
       LET u == Owner[o]
       IN order[o].status = "Completed" /\ Referrer[u] # 0
            => events[u] = 1 \/ Cardinality(Rewarded(Referrer[u])) = MaxReferralRewards

(* Request p waits for the row of an order, or of its next wallet, that    *)
(* request q holds.                                                        *)
WaitsFor(p, q) ==
  \/ pc[p] = "order" /\ orderLock[job[p].order] = q
  \/ pc[p] = "wallets" /\ \E w \in Users : IsNext(p, w) /\ userLock[w] = q

Circle(S) ==
  /\ S # {}
  /\ \A p \in S : (\E q \in S : WaitsFor(p, q)) /\ (\E q \in S : WaitsFor(q, p))

(* Settlements of several orders of a user, or of users one referrer       *)
(* brought, do not lock each other out: whoever is waited for is at work,  *)
(* and no requests wait for one another in a circle.                       *)
NobodyStuck ==
  /\ \A p, q \in Handlers : WaitsFor(p, q) => pc[q] # "idle"
  /\ \A S \in SUBSET Handlers : ~Circle(S)

SettlementsSafe == PaymentInv /\ NobodyStuck

(* Once money was taken its order is settled, whatever the browser did and *)
(* wherever a request died: the row is there before anybody can pay, and   *)
(* the webhook finishes what a dead VerifyPayment began.                   *)
CapturedIsCredited ==
  []<>(\A pay \in captured : order[OrderOf[pay]].status = "Completed")
=============================================================================
