--------------------------- MODULE PaymentProofs ---------------------------
(***************************************************************************)
(* Theorems about Payment, for any number of orders, payments and requests *)
(* at once: the inductive invariant, that nobody waits for ever, the truth *)
(* of the answers, the referral events of first deposits, and the          *)
(* refinement of Deposit.                                                  *)
(***************************************************************************)
EXTENDS Payment, FiniteSetTheorems, WellFoundedInduction, TLAPS

(* What request p does, the provider's own steps left out. *)
Act(p) ==
  \/ \E o \in Orders : CreateRazorpayOrder(p, o)
  \/ \E pay \in Payments : VerifyPayment(p, pay) \/ RazorpayWebhook(p, pay)
  \/ Step(p) \/ Fail(p)

(* A step is the provider's, an answer from a settled row, or a request's. *)
LEMMA StepCases ==
  ASSUME [Next]_vars
  PROVE  \/ UNCHANGED vars
         \/ \E pay \in Payments : Capture(pay) \/ AlreadyVerified(pay)
         \/ \E p \in Handlers : Act(p)
BY DEF Next, Act

(* The call of a request that is under way is a call of the backend. *)
LEMMA WorkingJob ==
  ASSUME TypeOK, PlaceOK, NEW p \in Handlers, pc[p] # "idle"
  PROVE  /\ job[p].order \in Orders
         /\ Owner[job[p].order] \in Users
         /\ pc[p] \in {"fetch", "order", "wallets", "commit"} => job[p].payment \in Payments
<1>1. job[p] \in Job
  BY DEF PlaceOK
<1>2. job[p].order \in Orders
  BY <1>1 DEF Job
<1>3. pc[p] \in {"fetch", "order", "wallets", "commit"} => job[p].op \in Callers
  BY DEF PlaceOK
<1>4. job[p].op \in Callers => job[p].payment \in Payments
  BY <1>1 DEF Job, Callers
<1> QED BY <1>2, <1>3, <1>4, ConstantsAssumption

(* The end of a request frees its own locks and nobody else's. *)
LEMMA EndFacts ==
  ASSUME TypeOK, NEW p \in Handlers, End(p)
  PROVE  /\ pc' \in [Handlers -> {"idle", "record", "fetch", "order", "wallets", "commit"}]
         /\ job' \in [Handlers -> Job \cup {NoJob}]
         /\ read' \in [Handlers -> Nat]
         /\ due' \in [Handlers -> BOOLEAN]
         /\ orderLock' \in [Orders -> Handlers \cup {NoProc}]
         /\ userLock' \in [Users -> Handlers \cup {NoProc}]
         /\ pc'[p] = "idle"
         /\ \A q \in Handlers \ {p} :
              /\ pc'[q] = pc[q] /\ job'[q] = job[q] /\ read'[q] = read[q] /\ due'[q] = due[q]
              /\ \A o \in Orders : orderLock[o] = q => orderLock'[o] = q
              /\ \A u \in Users : userLock[u] = q => userLock'[u] = q
BY DEF TypeOK, End

(* A new request has its call and its place, and nothing else has changed. *)
LEMMA BeginFacts ==
  ASSUME TypeOK, NEW p \in Handlers, NEW j \in Job, NEW first \in {"record", "fetch", "order"},
         Begin(p, j, first)
  PROVE  /\ pc' \in [Handlers -> {"idle", "record", "fetch", "order", "wallets", "commit"}]
         /\ job' \in [Handlers -> Job \cup {NoJob}]
         /\ pc'[p] = first /\ job'[p] = j
         /\ \A q \in Handlers \ {p} : pc'[q] = pc[q] /\ job'[q] = job[q]
         /\ UNCHANGED <<order, points, events, orderLock, userLock, read, due, fails>>
BY DEF TypeOK, Begin, tables, locks

(* The calls the three handlers start with. *)
LEMMA CallTypes ==
  /\ \A o \in Orders : [op |-> "create", order |-> o, payment |-> NoPayment] \in Job
  /\ \A pay \in Payments, op \in Callers :
       [op |-> op, order |-> OrderOf[pay], payment |-> pay] \in Job
BY ConstantsAssumption DEF Job, Callers

(* What an action of p leaves of the others, and what it may write.        *)
LEMMA ActFacts ==
  ASSUME TypeOK, PlaceOK, NEW p \in Handlers, Act(p)
  PROVE  /\ TypeOK'
         /\ captured' = captured
         /\ created \subseteq created'
         /\ \A q \in Handlers \ {p} :
              /\ pc'[q] = pc[q] /\ job'[q] = job[q] /\ read'[q] = read[q] /\ due'[q] = due[q]
              /\ \A o \in Orders : orderLock[o] = q => orderLock'[o] = q
              /\ \A u \in Users : userLock[u] = q => userLock'[u] = q
<1>1. CASE \E o \in Orders : CreateRazorpayOrder(p, o)
  <2> PICK o \in Orders : CreateRazorpayOrder(p, o)
    BY <1>1
  <2>1. Begin(p, [op |-> "create", order |-> o, payment |-> NoPayment], "record")
    BY DEF CreateRazorpayOrder
  <2>2. /\ created' = created \cup {o}
        /\ UNCHANGED <<captured, answered>>
    BY DEF CreateRazorpayOrder
  <2> QED BY <2>1, <2>2, CallTypes, BeginFacts DEF TypeOK
<1>2. CASE \E pay \in Payments : VerifyPayment(p, pay)
  <2> PICK pay \in Payments : VerifyPayment(p, pay)
    BY <1>2
  <2>1. Begin(p, [op |-> "verify", order |-> OrderOf[pay], payment |-> pay], "fetch")
    BY DEF VerifyPayment
  <2>2. UNCHANGED <<created, captured, answered>>
    BY DEF VerifyPayment
  <2> QED BY <2>1, <2>2, CallTypes, BeginFacts DEF TypeOK, Callers
<1>3. CASE \E pay \in Payments : RazorpayWebhook(p, pay)
  <2> PICK pay \in Payments : RazorpayWebhook(p, pay)
    BY <1>3
  <2>1. Begin(p, [op |-> "webhook", order |-> OrderOf[pay], payment |-> pay], "order")
    BY DEF RazorpayWebhook
  <2>2. UNCHANGED <<created, captured, answered>>
    BY DEF RazorpayWebhook
  <2> QED BY <2>1, <2>2, CallTypes, BeginFacts DEF TypeOK, Callers
<1>4. CASE RecordOrder(p)
  <2>1. End(p) /\ UNCHANGED <<created, captured, points, events, answered, fails>>
    BY <1>4 DEF RecordOrder
  <2>2. order' \in [Orders -> Row]
    BY <1>4 DEF RecordOrder, TypeOK, Row
  <2> QED BY <2>1, <2>2, EndFacts DEF TypeOK
<1>5. CASE FetchPayment(p)
  <2>1. CASE job[p].payment \in captured
    BY <1>5, <2>1 DEF FetchPayment, Goto, TypeOK, tables, locks
  <2>2. CASE job[p].payment \notin captured
    <3>1. End(p) /\ UNCHANGED <<created, captured, order, points, events, answered, fails>>
      BY <1>5, <2>2 DEF FetchPayment, Refuse, tables
    <3> QED BY <3>1, EndFacts DEF TypeOK
  <2> QED BY <2>1, <2>2
<1>6. CASE LockOrder(p)
  <2>1. CASE End(p) /\ UNCHANGED <<created, captured, order, points, events, fails>>
             /\ Answer(job[p].op, job[p].payment)
    <3>1. job[p].op \in Callers /\ job[p].payment \in Payments
      BY <1>6, WorkingJob DEF PlaceOK, LockOrder
    <3>2. answered' \subseteq Callers \X Payments
      BY <2>1, <3>1 DEF Answer, TypeOK
    <3> QED BY <2>1, <3>2, EndFacts DEF TypeOK
  <2>2. CASE Refuse(p)
    <3>1. End(p) /\ UNCHANGED <<created, captured, order, points, events, answered, fails>>
      BY <2>2 DEF Refuse, tables
    <3> QED BY <3>1, EndFacts DEF TypeOK
  <2>3. CASE /\ pc' = [pc EXCEPT ![p] = "wallets"]
             /\ LockFree(orderLock[job[p].order])
             /\ orderLock' = [orderLock EXCEPT ![job[p].order] = p]
             /\ UNCHANGED <<created, captured, order, points, events, answered, userLock,
                            job, read, due, fails>>
    BY <2>3, ConstantsAssumption DEF LockFree, TypeOK
  <2> QED BY <1>6, <2>1, <2>2, <2>3 DEF LockOrder, Goto, tables
<1>7. CASE LockWallet(p)
  <2> DEFINE u == Owner[job[p].order]
  <2>1. u \in Users
    BY <1>7, WorkingJob DEF LockWallet
  <2>2. PICK w \in Wallets(u) :
          /\ userLock[w] = NoProc
          /\ userLock' = [userLock EXCEPT ![w] = p]
          /\ \/ /\ read' = [read EXCEPT ![p] = points[u]]
                /\ due' = [due EXCEPT ![p] = ReferralDue(u)]
                /\ pc' = [pc EXCEPT ![p] = "commit"]
             \/ UNCHANGED <<pc, read, due>>
    BY <1>7 DEF LockWallet, LockFree, Goto
  <2>3. UNCHANGED <<created, captured, order, points, events, answered, orderLock, job, fails>>
    BY <1>7 DEF LockWallet, tables
  <2>4. points[u] \in Nat
    BY <2>1 DEF TypeOK
  <2>5. read' \in [Handlers -> Nat] /\ \A q \in Handlers \ {p} : read'[q] = read[q]
    BY <2>2, <2>4 DEF TypeOK
  <2>6. ReferralDue(u) \in BOOLEAN
    BY DEF ReferralDue
  <2>7. due' \in [Handlers -> BOOLEAN] /\ \A q \in Handlers \ {p} : due'[q] = due[q]
    <3>1. CASE due' = due
      BY <3>1 DEF TypeOK
    <3>2. CASE due' = [due EXCEPT ![p] = ReferralDue(u)]
      <4> DEFINE d == ReferralDue(u)
      <4>1. d \in BOOLEAN
        BY <2>6
      <4>2. due' = [due EXCEPT ![p] = d]
        BY <3>2
      <4> HIDE DEF d
      <4> QED BY <4>1, <4>2 DEF TypeOK
    <3> QED BY <2>2, <3>1, <3>2
  <2>8. pc' \in [Handlers -> {"idle", "record", "fetch", "order", "wallets", "commit"}]
        /\ \A q \in Handlers \ {p} : pc'[q] = pc[q]
    BY <2>2 DEF TypeOK
  <2>9. userLock' \in [Users -> Handlers \cup {NoProc}]
        /\ \A q \in Handlers \ {p}, v \in Users : userLock[v] = q => userLock'[v] = q
    BY <2>2, ConstantsAssumption DEF TypeOK
  <2> QED BY <2>3, <2>5, <2>7, <2>8, <2>9 DEF TypeOK
<1>8. CASE Settle(p)
  <2> DEFINE o == job[p].order
             u == Owner[o]
  <2>1. /\ pc[p] = "commit" /\ End(p)
        /\ UNCHANGED <<created, captured, fails>>
        /\ Answer(job[p].op, job[p].payment)
        /\ points' = [points EXCEPT ![u] = read[p] + Amount[o]]
        /\ order' = [order EXCEPT ![o] = [status |-> "Completed", payment |-> job[p].payment]]
        /\ events' = [events EXCEPT ![u] = @ + IF due[p] THEN 1 ELSE 0]
    BY <1>8 DEF Settle
  <2>2. o \in Orders /\ u \in Users /\ job[p].payment \in Payments /\ job[p].op \in Callers
    BY <2>1, WorkingJob DEF PlaceOK
  <2>3. order' \in [Orders -> Row]
    BY <2>1, <2>2 DEF TypeOK, Row
  <2>4. points' \in [Users -> Nat]
    <3>1. read[p] + Amount[o] \in Nat
      BY <2>2, ConstantsAssumption DEF TypeOK
    <3> QED BY <2>1, <2>2, <3>1 DEF TypeOK
  <2>5. events' \in [Users -> Nat]
    BY <2>1, <2>2 DEF TypeOK
  <2>6. answered' \subseteq Callers \X Payments
    BY <2>1, <2>2 DEF Answer, TypeOK
  <2> QED BY <2>1, <2>3, <2>4, <2>5, <2>6, EndFacts DEF TypeOK
<1>9. CASE Fail(p)
  <2>1. End(p) /\ UNCHANGED <<created, captured, order, points, events, answered>>
        /\ fails < MaxFails /\ fails' = fails + 1
    BY <1>9 DEF Fail, tables
  <2>2. fails' \in 0..MaxFails
    BY <2>1, ConstantsAssumption DEF TypeOK
  <2> QED BY <2>1, <2>2, EndFacts DEF TypeOK
<1> QED BY <1>1, <1>2, <1>3, <1>4, <1>5, <1>6, <1>7, <1>8, <1>9 DEF Act, Step

(* Rows are written by RecordOrder and Settle, points by Settle alone.     *)
LEMMA ActWrites ==
  ASSUME TypeOK, PlaceOK, NEW p \in Handlers, Act(p)
  PROVE  \/ order' = order /\ points' = points
         \/ RecordOrder(p)
         \/ Settle(p)
BY DEF Act, Step, CreateRazorpayOrder, VerifyPayment, RazorpayWebhook, Begin, FetchPayment,
       Refuse, LockOrder, LockWallet, Fail, tables
(* A place is left for the next one with the call unchanged. *)
LEMMA PlaceStep ==
  ASSUME TypeOK, PlaceOK, NEW p \in Handlers, Act(p)
  PROVE  PlaceOK'
<1>0. captured' = captured /\ \A q \in Handlers \ {p} : pc'[q] = pc[q] /\ job'[q] = job[q]
  BY ActFacts
<1>1. SUFFICES
        /\ pc'[p] # "idle" => job'[p] \in Job
        /\ pc'[p] = "record" => job'[p].op = "create"
        /\ pc'[p] \in {"fetch", "order", "wallets", "commit"} =>
             job'[p].op \in Callers /\ job'[p].order = OrderOf[job'[p].payment]
        /\ pc'[p] \in {"order", "wallets", "commit"} => job'[p].payment \in captured
  BY <1>0 DEF PlaceOK
<1>2. CASE \E o \in Orders : CreateRazorpayOrder(p, o)
  BY <1>2, CallTypes, BeginFacts DEF CreateRazorpayOrder
<1>3. CASE \E pay \in Payments : VerifyPayment(p, pay)
  <2> PICK pay \in Payments : VerifyPayment(p, pay)
    BY <1>3
  <2> DEFINE j == [op |-> "verify", order |-> OrderOf[pay], payment |-> pay]
  <2>1. j \in Job /\ Begin(p, j, "fetch")
    BY CallTypes DEF VerifyPayment, Callers
  <2>2. pc'[p] = "fetch" /\ job'[p] = j
    <3> HIDE DEF j
    <3> QED BY <2>1, BeginFacts
  <2> QED BY <2>1, <2>2 DEF Callers
<1>4. CASE \E pay \in Payments : RazorpayWebhook(p, pay)
  <2> PICK pay \in Payments : RazorpayWebhook(p, pay)
    BY <1>4
  <2> DEFINE j == [op |-> "webhook", order |-> OrderOf[pay], payment |-> pay]
  <2>1. j \in Job /\ Begin(p, j, "order") /\ pay \in captured
    BY CallTypes DEF RazorpayWebhook, Callers
  <2>2. pc'[p] = "order" /\ job'[p] = j
    <3> HIDE DEF j
    <3> QED BY <2>1, BeginFacts
  <2> QED BY <2>1, <2>2 DEF Callers
<1>5. CASE End(p)
  BY <1>5, EndFacts
<1>6. CASE /\ pc[p] \in {"fetch", "order", "wallets"}
           /\ pc'[p] \in {"order", "wallets", "commit"}
           /\ job' = job
           /\ job[p].payment \in captured
  BY <1>6 DEF PlaceOK
<1>7. CASE Step(p) \/ Fail(p)
  <2>1. CASE FetchPayment(p)
    BY <2>1, <1>5, <1>6 DEF FetchPayment, Refuse, Goto, TypeOK
  <2>2. CASE LockOrder(p)
    BY <2>2, <1>5, <1>6 DEF LockOrder, Refuse, Goto, TypeOK, PlaceOK
  <2>3. CASE LockWallet(p)
    BY <2>3, <1>6 DEF LockWallet, Goto, TypeOK, PlaceOK
  <2>4. CASE RecordOrder(p) \/ Settle(p) \/ Fail(p)
    BY <2>4, <1>5 DEF RecordOrder, Settle, Fail
  <2> QED BY <1>7, <2>1, <2>2, <2>3, <2>4 DEF Step
<1> QED BY <1>2, <1>3, <1>4, <1>7 DEF Act

(* An order is created before it is recorded, and once. *)
LEMMA RecordedStep ==
  ASSUME PaymentInv, NEW p \in Handlers, Act(p)
  PROVE  RecordedOnce'
<1>0. TypeOK /\ PlaceOK /\ RecordedOnce
  BY DEF PaymentInv
<1>1. CASE \E o \in Orders : CreateRazorpayOrder(p, o)
  <2> PICK o \in Orders : CreateRazorpayOrder(p, o)
    BY <1>1
  <2>1. /\ o \notin created /\ created' = created \cup {o} /\ order' = order
        /\ pc' = [pc EXCEPT ![p] = "record"]
        /\ job'[p].order = o
        /\ \A q \in Handlers \ {p} : job'[q] = job[q]
    BY <1>0 DEF CreateRazorpayOrder, Begin, TypeOK, tables
  <2>2. \A q \in Handlers : pc[q] = "record" => job[q].order # o
    BY <1>0, <2>1 DEF RecordedOnce
  <2> QED BY <1>0, <2>1, <2>2 DEF RecordedOnce, TypeOK
<1>2. CASE RecordOrder(p)
  <2>1. /\ pc[p] = "record" /\ created' = created
        /\ order' = [order EXCEPT ![job[p].order] = [status |-> "Pending", payment |-> NoPayment]]
        /\ pc'[p] = "idle"
        /\ \A q \in Handlers \ {p} : pc'[q] = pc[q] /\ job'[q] = job[q]
    BY <1>0, <1>2, EndFacts DEF RecordOrder
  <2>2. job[p].order \in created
    BY <1>0, <2>1 DEF RecordedOnce
  <2>3. \A o \in Orders \ {job[p].order} : order'[o] = order[o]
    BY <1>0, <2>1 DEF TypeOK
  <2>4. \A q \in Handlers \ {p} : pc[q] = "record" =>
          job[q].order # job[p].order /\ job[q].order \in Orders
    BY <1>0, <2>1, WorkingJob DEF RecordedOnce
  <2>5. \A o \in Orders \ created : order'[o].status = "None"
    BY <1>0, <2>2, <2>3 DEF RecordedOnce
  <2> QED BY <1>0, <2>1, <2>3, <2>4, <2>5 DEF RecordedOnce
<1>3. CASE Settle(p)
  <2>1. /\ pc[p] = "commit" /\ created' = created
        /\ order' = [order EXCEPT ![job[p].order] =
                        [status |-> "Completed", payment |-> job[p].payment]]
        /\ pc'[p] = "idle"
        /\ \A q \in Handlers \ {p} : pc'[q] = pc[q] /\ job'[q] = job[q]
    BY <1>0, <1>3, EndFacts DEF Settle
  <2>2. order[job[p].order].status = "Pending" /\ job[p].order \in Orders
    BY <1>0, <2>1, WorkingJob DEF PaymentInv, OrderHeld
  <2>3. \A o \in Orders : order[o].status = "None" => order'[o] = order[o]
    BY <1>0, <2>1, <2>2 DEF TypeOK
  <2>4. \A q \in Handlers : pc[q] = "record" => job[q].order \in Orders
    BY <1>0, WorkingJob
  <2> QED BY <1>0, <2>1, <2>3, <2>4 DEF RecordedOnce
<1>4. CASE /\ order' = order /\ created' = created
           /\ pc'[p] # "record"
           /\ \A q \in Handlers \ {p} : pc'[q] = pc[q] /\ job'[q] = job[q]
  BY <1>0, <1>4 DEF RecordedOnce
<1>5. CASE \/ \E pay \in Payments : VerifyPayment(p, pay) \/ RazorpayWebhook(p, pay)
           \/ FetchPayment(p) \/ LockOrder(p) \/ LockWallet(p) \/ Fail(p)
  <2>1. order' = order /\ created' = created
    BY <1>5 DEF VerifyPayment, RazorpayWebhook, Begin, FetchPayment, Refuse, LockOrder,
                LockWallet, Fail, tables
  <2>2. pc'[p] # "record"
    BY <1>0, <1>5 DEF VerifyPayment, RazorpayWebhook, Begin, FetchPayment, Refuse, LockOrder,
                LockWallet, Fail, End, Goto, TypeOK
  <2> QED BY <1>0, <1>4, <2>1, <2>2, ActFacts
<1> QED BY <1>1, <1>2, <1>3, <1>5 DEF Act, Step
(* What a settlement does, with the locks that let it. *)
LEMMA SettleFacts ==
  ASSUME PaymentInv, NEW p \in Handlers, Settle(p)
  PROVE  LET o == job[p].order
             pay == job[p].payment
             u == Owner[o]
         IN /\ pc[p] = "commit" /\ pc'[p] = "idle"
            /\ o \in Orders /\ u \in Users /\ pay \in Payments
            /\ pay \in captured /\ OrderOf[pay] = o
            /\ orderLock[o] = p /\ order[o].status = "Pending"
            /\ userLock[u] = p /\ read[p] = points[u]
            /\ order' = [order EXCEPT ![o] = [status |-> "Completed", payment |-> pay]]
            /\ points' = [points EXCEPT ![u] = points[u] + Amount[o]]
            /\ captured' = captured
            /\ Answer(job[p].op, pay)
<1>0. TypeOK /\ PlaceOK
  BY DEF PaymentInv
<1>1. pc[p] = "commit" /\ End(p) /\ captured' = captured /\ Answer(job[p].op, job[p].payment)
  BY DEF Settle
<1>2. /\ job[p].order \in Orders /\ Owner[job[p].order] \in Users
      /\ job[p].payment \in Payments
  BY <1>0, <1>1, WorkingJob
<1>3. job[p].payment \in captured /\ OrderOf[job[p].payment] = job[p].order
  BY <1>0, <1>1 DEF PlaceOK
<1>4. orderLock[job[p].order] = p /\ order[job[p].order].status = "Pending"
  BY <1>1 DEF PaymentInv, OrderHeld
<1>5. userLock[Owner[job[p].order]] = p /\ read[p] = points[Owner[job[p].order]]
  BY <1>1 DEF PaymentInv, WalletHeld
<1>6. pc'[p] = "idle"
  BY <1>0, <1>1, EndFacts
<1> QED BY <1>1, <1>2, <1>3, <1>4, <1>5, <1>6 DEF Settle

(* A row is settled with the payment whose capture led there. *)
LEMMA RowsStep ==
  ASSUME PaymentInv, NEW p \in Handlers, Act(p)
  PROVE  RowsOK'
<1>0. TypeOK /\ PlaceOK /\ RowsOK
  BY DEF PaymentInv
<1>1. captured' = captured
  BY <1>0, ActFacts
<1>2. CASE order' = order
  BY <1>0, <1>1, <1>2 DEF RowsOK
<1>3. CASE RecordOrder(p)
  <2>1. order' = [order EXCEPT ![job[p].order] = [status |-> "Pending", payment |-> NoPayment]]
    BY <1>3 DEF RecordOrder
  <2> QED BY <1>0, <1>1, <2>1 DEF RowsOK, TypeOK
<1>4. CASE Settle(p)
  <2> DEFINE o == job[p].order
             pay == job[p].payment
  <2>1. /\ pay \in captured /\ OrderOf[pay] = o
        /\ order' = [order EXCEPT ![o] = [status |-> "Completed", payment |-> pay]]
    BY <1>4, SettleFacts
  <2> HIDE DEF o, pay
  <2> QED BY <1>0, <1>1, <2>1 DEF RowsOK, TypeOK
<1> QED BY <1>0, <1>2, <1>3, <1>4, ActWrites

(* A settlement keeps its order: others wait for the lock, and the only    *)
(* write without it, RecordOrder, comes before.                            *)
LEMMA OrderHeldStep ==
  ASSUME PaymentInv, NEW p \in Handlers, Act(p)
  PROVE  OrderHeld'
<1>0. TypeOK /\ PlaceOK /\ OrderHeld /\ RecordedOnce
  BY DEF PaymentInv
<1> SUFFICES ASSUME NEW q \in Handlers, pc'[q] \in {"wallets", "commit"}
    PROVE  orderLock'[job'[q].order] = q /\ order'[job'[q].order].status = "Pending"
  BY DEF OrderHeld
<1>1. CASE q # p
  <2> DEFINE o == job[q].order
  <2>1. /\ pc[q] \in {"wallets", "commit"} /\ job'[q] = job[q]
        /\ \A x \in Orders : orderLock[x] = q => orderLock'[x] = q
    BY <1>0, <1>1, ActFacts
  <2>2. o \in Orders /\ orderLock[o] = q /\ order[o].status = "Pending"
    BY <1>0, <2>1, WorkingJob DEF OrderHeld
  <2>3. order'[o] = order[o]
    <3>1. CASE RecordOrder(p)
      <4>1. /\ pc[p] = "record"
            /\ order' = [order EXCEPT ![job[p].order] =
                            [status |-> "Pending", payment |-> NoPayment]]
        BY <3>1 DEF RecordOrder
      <4>2. order[job[p].order].status = "None"
        BY <1>0, <4>1 DEF RecordedOnce
      <4> QED BY <1>0, <2>2, <4>1, <4>2 DEF TypeOK
    <3>2. CASE Settle(p)
      <4>1. /\ orderLock[job[p].order] = p
            /\ order' = [order EXCEPT ![job[p].order] =
                            [status |-> "Completed", payment |-> job[p].payment]]
        BY <3>2, SettleFacts
      <4>2. o # job[p].order
        BY <1>1, <2>2, <4>1
      <4> QED BY <1>0, <2>2, <4>1, <4>2 DEF TypeOK
    <3> QED BY <1>0, <3>1, <3>2, ActWrites
  <2> QED BY <2>1, <2>2, <2>3
<1>2. CASE q = p
  <2>1. (LockOrder(p) \/ LockWallet(p)) /\ ~End(p)
    <3>1. ~End(p)
      BY <1>0, <1>2, EndFacts
    <3>2. \A j \in Job, first \in {"record", "fetch", "order"} : ~Begin(p, j, first)
      BY <1>0, <1>2, BeginFacts
    <3>3. \A o \in Orders : ~CreateRazorpayOrder(p, o)
      BY <3>2, CallTypes DEF CreateRazorpayOrder
    <3>4. \A pay \in Payments : ~VerifyPayment(p, pay) /\ ~RazorpayWebhook(p, pay)
      BY <3>2, CallTypes DEF VerifyPayment, RazorpayWebhook, Callers
    <3>5. ~FetchPayment(p)
      BY <1>0, <1>2, <3>1 DEF FetchPayment, Refuse, Goto, TypeOK
    <3> QED BY <3>1, <3>3, <3>4, <3>5 DEF Act, Step, RecordOrder, Settle, Fail
  <2>2. CASE LockOrder(p)
    <3>1. /\ order[job[p].order].status = "Pending" /\ order' = order /\ job' = job
          /\ orderLock' = [orderLock EXCEPT ![job[p].order] = p]
      BY <2>1, <2>2 DEF LockOrder, Refuse, tables
    <3>2. job[p].order \in Orders
      BY <1>0, <2>2, WorkingJob DEF LockOrder
    <3> QED BY <1>0, <1>2, <3>1, <3>2 DEF TypeOK
  <2>3. CASE LockWallet(p)
    BY <1>0, <1>2, <2>3 DEF LockWallet, OrderHeld, tables
  <2> QED BY <2>1, <2>2, <2>3
<1> QED BY <1>1, <1>2

(* The points a settlement read stay the points. *)
LEMMA WalletHeldStep ==
  ASSUME PaymentInv, NEW p \in Handlers, Act(p)
  PROVE  WalletHeld'
<1>0. TypeOK /\ PlaceOK /\ WalletHeld
  BY DEF PaymentInv
<1> SUFFICES ASSUME NEW q \in Handlers, pc'[q] = "commit"
    PROVE  /\ userLock'[Owner[job'[q].order]] = q
           /\ read'[q] = points'[Owner[job'[q].order]]
  BY DEF WalletHeld
<1>1. CASE q # p
  <2> DEFINE u == Owner[job[q].order]
  <2>1. /\ pc[q] = "commit" /\ job'[q] = job[q] /\ read'[q] = read[q]
        /\ \A v \in Users : userLock[v] = q => userLock'[v] = q
    BY <1>0, <1>1, ActFacts
  <2>2. u \in Users /\ userLock[u] = q /\ read[q] = points[u]
    BY <1>0, <2>1, WorkingJob DEF WalletHeld
  <2>3. points'[u] = points[u]
    <3>1. CASE Settle(p)
      <4>1. /\ userLock[Owner[job[p].order]] = p
            /\ points' = [points EXCEPT ![Owner[job[p].order]] =
                             points[Owner[job[p].order]] + Amount[job[p].order]]
        BY <3>1, SettleFacts
      <4>2. u # Owner[job[p].order]
        BY <1>1, <2>2, <4>1
      <4> QED BY <1>0, <2>2, <4>1, <4>2 DEF TypeOK
    <3>2. CASE RecordOrder(p)
      BY <3>2 DEF RecordOrder
    <3> QED BY <1>0, <3>1, <3>2, ActWrites
  <2> QED BY <2>1, <2>2, <2>3
<1>2. CASE q = p
  <2>1. LockWallet(p)
    <3>1. ~End(p)
      BY <1>0, <1>2, EndFacts
    <3>2. \A j \in Job, first \in {"record", "fetch", "order"} : ~Begin(p, j, first)
      BY <1>0, <1>2, BeginFacts
    <3>3. \A o \in Orders : ~CreateRazorpayOrder(p, o)
      BY <3>2, CallTypes DEF CreateRazorpayOrder
    <3>4. \A pay \in Payments : ~VerifyPayment(p, pay) /\ ~RazorpayWebhook(p, pay)
      BY <3>2, CallTypes DEF VerifyPayment, RazorpayWebhook, Callers
    <3>5. ~FetchPayment(p) /\ ~LockOrder(p)
      BY <1>0, <1>2, <3>1 DEF FetchPayment, LockOrder, Refuse, Goto, TypeOK
    <3> QED BY <3>1, <3>3, <3>4, <3>5 DEF Act, Step, RecordOrder, Settle, Fail
  <2> DEFINE u == Owner[job[p].order]
  <2>2. u \in Users /\ pc[p] = "wallets"
    BY <1>0, <2>1, WorkingJob DEF LockWallet
  <2>3. PICK w \in Wallets(u) :
          /\ userLock' = [userLock EXCEPT ![w] = p]
          /\ IF Missing(p) = {w}
               THEN read' = [read EXCEPT ![p] = points[u]]
               ELSE pc' = pc
    BY <2>1 DEF LockWallet
  <2>4. Missing(p) = {w} /\ read'[p] = points[u] /\ points' = points /\ job' = job
    BY <1>0, <1>2, <2>1, <2>2, <2>3 DEF LockWallet, tables, TypeOK
  <2>5. userLock'[u] = p
    <3>1. u \in Wallets(u)
      BY DEF Wallets
    <3>2. userLock[u] = p \/ u = w
      BY <2>4, <3>1 DEF Missing
    <3> QED BY <1>0, <2>2, <2>3, <3>2 DEF TypeOK
  <2> QED BY <1>2, <2>4, <2>5
<1> QED BY <1>1, <1>2

-----------------------------------------------------------------------------
(* Locks *)

(* The wallets' owners. *)
LEMMA ReferrerTyped ==
  ASSUME NEW u \in Users
  PROVE  /\ Referrer[u] \in Users \cup {0}
         /\ 0 \notin Users
         /\ Wallets(u) \subseteq Users
         /\ u \in Wallets(u)
         /\ Referrer[u] # 0 => Referrer[u] \in Wallets(u)
BY ConstantsAssumption DEF Wallets

(* What p needs of the wallets. *)
LEMMA MissingFacts ==
  ASSUME TypeOK, PlaceOK, NEW p \in Handlers, pc[p] # "idle"
  PROVE  Missing(p) \subseteq Users /\ Missing(p) \subseteq Nat
<1>1. Owner[job[p].order] \in Users
  BY WorkingJob
<1>2. Wallets(Owner[job[p].order]) \subseteq Users
  BY <1>1, ReferrerTyped
<1> QED BY <1>2, ConstantsAssumption DEF Missing

(* The others stay where they are, with the locks they had. *)
LEMMA OthersLocks ==
  ASSUME TypeOK, PlaceOK, LocksOK, NEW p \in Handlers, LocksOf(p)',
         \A q \in Handlers \ {p} :
           /\ pc'[q] = pc[q] /\ job'[q] = job[q]
           /\ \A o \in Orders : orderLock'[o] = q => orderLock[o] = q
           /\ \A u \in Users : userLock'[u] = q <=> userLock[u] = q
  PROVE  LocksOK'
<1> SUFFICES ASSUME NEW q \in Handlers, q # p
             PROVE  LocksOf(q)'
  BY DEF LocksOK
<1>1. LocksOf(q)
  BY DEF LocksOK
<1>2. pc'[q] = pc[q] /\ job'[q] = job[q] /\ \A u \in Users : userLock'[u] = q <=> userLock[u] = q
  OBVIOUS
<1>3. pc[q] = "wallets" => Missing(q)' = Missing(q)
  <2> SUFFICES ASSUME pc[q] = "wallets"
               PROVE  Missing(q)' = Missing(q)
    OBVIOUS
  <2>1. Wallets(Owner[job[q].order]) \subseteq Users
    <3>1. Owner[job[q].order] \in Users
      BY WorkingJob
    <3> QED BY <3>1, ReferrerTyped
  <2> QED BY <1>2, <2>1 DEF Missing
<1> QED BY <1>1, <1>2, <1>3 DEF LocksOf

LEMMA EndLocks ==
  ASSUME PaymentInv, NEW p \in Handlers, End(p)
  PROVE  LocksOK'
<1>1. TypeOK /\ PlaceOK /\ LocksOK
  BY DEF PaymentInv
<1>2. /\ orderLock' = [o \in Orders |-> IF orderLock[o] = p THEN NoProc ELSE orderLock[o]]
      /\ userLock' = [u \in Users |-> IF userLock[u] = p THEN NoProc ELSE userLock[u]]
  BY DEF End
<1>3. NoProc \notin Handlers
  BY ConstantsAssumption
<1>4. LocksOf(p)'
  BY <1>2, <1>3 DEF LocksOf
<1>5. \A q \in Handlers \ {p} : pc'[q] = pc[q] /\ job'[q] = job[q]
  BY <1>1, EndFacts
<1>6. \A q \in Handlers \ {p} :
        /\ \A o \in Orders : orderLock'[o] = q => orderLock[o] = q
        /\ \A u \in Users : userLock'[u] = q <=> userLock[u] = q
  BY <1>2, <1>3
<1> QED BY <1>1, <1>4, <1>5, <1>6, OthersLocks

(* A request without locks begins, or goes on to one. *)
LEMMA FreeLocks ==
  ASSUME PaymentInv, NEW p \in Handlers, pc[p] \notin {"wallets", "commit"},
         userLock' = userLock,
         \A q \in Handlers \ {p} : pc'[q] = pc[q] /\ job'[q] = job[q],
         \/ orderLock' = orderLock
         \/ \E o \in Orders : orderLock' = [orderLock EXCEPT ![o] = p] /\ pc'[p] = "wallets"
  PROVE  LocksOK'
<1>1. TypeOK /\ PlaceOK /\ LocksOK /\ LocksOf(p)
  BY DEF PaymentInv, LocksOK
<1>2. /\ \A u \in Users : userLock'[u] # p
      /\ \A o \in Orders : orderLock'[o] = p => pc'[p] = "wallets"
  BY <1>1 DEF LocksOf, TypeOK
<1>3. LocksOf(p)'
  BY <1>2 DEF LocksOf
<1>4. \A q \in Handlers \ {p}, o \in Orders : orderLock'[o] = q => orderLock[o] = q
  BY <1>1 DEF TypeOK
<1> QED BY <1>1, <1>3, <1>4, OthersLocks

(* The next wallet is above all that p has, and below all that it lacks.   *)
LEMMA WalletLocks ==
  ASSUME PaymentInv, NEW p \in Handlers, LockWallet(p)
  PROVE  LocksOK'
<1>1. TypeOK /\ PlaceOK /\ LocksOK /\ LocksOf(p) /\ pc[p] = "wallets"
  BY DEF PaymentInv, LocksOK, LockWallet
<1>2. PICK w \in Missing(p) :
        /\ \A x \in Missing(p) : w <= x
        /\ userLock[w] = NoProc
        /\ userLock' = [userLock EXCEPT ![w] = p]
        /\ IF Missing(p) = {w} THEN pc' = [pc EXCEPT ![p] = "commit"] ELSE pc' = pc
  BY DEF LockWallet, IsNext, LockFree, Goto
<1>3. job' = job /\ orderLock' = orderLock
  BY DEF LockWallet
<1>4. Missing(p) \subseteq Users /\ Missing(p) \subseteq Nat /\ Users \subseteq Nat
  BY <1>1, MissingFacts, ConstantsAssumption
<1>5. \A u \in Users : userLock'[u] = IF u = w THEN p ELSE userLock[u]
  BY <1>1, <1>2 DEF TypeOK
<1>6. pc'[p] = IF Missing(p) = {w} THEN "commit" ELSE "wallets"
  BY <1>1, <1>2 DEF TypeOK
<1>7. Missing(p)' \subseteq Missing(p) \ {w}
  <2>1. Wallets(Owner[job[p].order]) \subseteq Users
    <3>1. Owner[job[p].order] \in Users
      BY <1>1, WorkingJob
    <3> QED BY <3>1, ReferrerTyped
  <2> QED BY <1>3, <1>5, <2>1 DEF Missing
<1>8. ASSUME NEW u \in Users, userLock'[u] = p, NEW x \in Missing(p) \ {w}
      PROVE  u < x
  <2>1. w < x
    BY <1>2, <1>4
  <2>2. CASE u = w
    BY <2>1, <2>2
  <2>3. CASE u # w
    BY <1>1, <1>5, <1>8, <2>3 DEF LocksOf
  <2> QED BY <2>2, <2>3
<1>9. LocksOf(p)'
  <2>1. \A o \in Orders : orderLock'[o] = p => pc'[p] \in {"wallets", "commit"}
    BY <1>6
  <2>2. ASSUME NEW u \in Users, userLock'[u] = p
        PROVE  /\ pc'[p] \in {"wallets", "commit"}
               /\ pc'[p] = "wallets" => \A x \in Missing(p)' : u < x
    BY <1>6, <1>7, <1>8, <2>2
  <2> QED BY <2>1, <2>2 DEF LocksOf
<1>10. \A q \in Handlers \ {p} :
         /\ pc'[q] = pc[q] /\ job'[q] = job[q]
         /\ \A o \in Orders : orderLock'[o] = q => orderLock[o] = q
         /\ \A u \in Users : userLock'[u] = q <=> userLock[u] = q
  <2>1. \A q \in Handlers \ {p} : pc'[q] = pc[q]
    BY <1>1, <1>2 DEF TypeOK
  <2>2. NoProc \notin Handlers
    BY ConstantsAssumption
  <2> QED BY <1>2, <1>3, <1>4, <1>5, <2>1, <2>2
<1> QED BY <1>1, <1>9, <1>10, OthersLocks

LEMMA LocksStep ==
  ASSUME PaymentInv, NEW p \in Handlers, Act(p)
  PROVE  LocksOK'
<1>0. TypeOK /\ PlaceOK
  BY DEF PaymentInv
<1>1. \A q \in Handlers \ {p} : pc'[q] = pc[q] /\ job'[q] = job[q]
  BY <1>0, ActFacts
<1>2. ASSUME NEW j, NEW first, Begin(p, j, first)
      PROVE  LocksOK'
  BY <1>1, <1>2, FreeLocks DEF Begin, locks
<1>3. CASE FetchPayment(p)
  <2>1. pc[p] = "fetch"
    BY <1>3 DEF FetchPayment
  <2>2. CASE UNCHANGED locks
    BY <1>1, <2>1, <2>2, FreeLocks DEF locks
  <2> QED BY <1>3, <2>2, EndLocks DEF FetchPayment, Refuse
<1>4. CASE LockOrder(p)
  <2>1. pc[p] = "order" /\ job[p].order \in Orders
    BY <1>0, <1>4, WorkingJob DEF LockOrder
  <2>2. CASE /\ orderLock' = [orderLock EXCEPT ![job[p].order] = p]
             /\ pc' = [pc EXCEPT ![p] = "wallets"] /\ userLock' = userLock
    <3>1. pc'[p] = "wallets"
      BY <1>0, <2>2 DEF TypeOK
    <3> QED BY <1>1, <2>1, <2>2, <3>1, FreeLocks
  <2> QED BY <1>4, <2>2, EndLocks DEF LockOrder, Goto, Refuse
<1>5. CASE RecordOrder(p) \/ Settle(p) \/ Fail(p)
  BY <1>5, EndLocks DEF RecordOrder, Settle, Fail
<1>6. CASE LockWallet(p)
  BY <1>6, WalletLocks
<1> QED BY <1>2, <1>3, <1>4, <1>5, <1>6
        DEF Act, Step, CreateRazorpayOrder, VerifyPayment, RazorpayWebhook

(* The provider's steps touch no row and no lock. *)
LEMMA OutsideFacts ==
  ASSUME TypeOK, NEW pay \in Payments, Capture(pay) \/ AlreadyVerified(pay)
  PROVE  /\ UNCHANGED <<created, order, points, events, orderLock, userLock,
                        pc, job, read, due, fails>>
         /\ captured \subseteq captured' /\ captured' \subseteq Payments
         /\ answered' \subseteq Callers \X Payments
BY DEF TypeOK, Capture, AlreadyVerified, Answer, Callers, tables, locks

LEMMA OutsideStep ==
  ASSUME PaymentInv, NEW pay \in Payments, Capture(pay) \/ AlreadyVerified(pay)
  PROVE  PaymentInv'
<1>0. TypeOK /\ PlaceOK /\ RecordedOnce /\ RowsOK /\ OrderHeld /\ WalletHeld /\ LocksOK
  BY DEF PaymentInv
<1>1. /\ UNCHANGED <<created, order, points, events, orderLock, userLock,
                     pc, job, read, due, fails>>
      /\ captured \subseteq captured' /\ captured' \subseteq Payments
      /\ answered' \subseteq Callers \X Payments
  BY <1>0, OutsideFacts
<1>2. TypeOK'
  BY <1>0, <1>1 DEF TypeOK
<1>3. PlaceOK' /\ RecordedOnce' /\ RowsOK' /\ OrderHeld' /\ WalletHeld'
  BY <1>0, <1>1 DEF PlaceOK, RecordedOnce, RowsOK, OrderHeld, WalletHeld
<1>4. LocksOK'
  BY <1>0, <1>1 DEF LocksOK, LocksOf, Missing
<1> QED BY <1>2, <1>3, <1>4 DEF PaymentInv

LEMMA PaymentInvInit == Init => PaymentInv
<1> SUFFICES ASSUME Init PROVE PaymentInv
  OBVIOUS
<1>1. TypeOK
  BY ConstantsAssumption DEF Init, TypeOK, Row
<1>2. PlaceOK /\ RecordedOnce /\ RowsOK /\ OrderHeld /\ WalletHeld
  BY DEF Init, PlaceOK, RecordedOnce, RowsOK, OrderHeld, WalletHeld
<1>3. LocksOK
  BY ConstantsAssumption DEF Init, LocksOK, LocksOf
<1> QED BY <1>1, <1>2, <1>3 DEF PaymentInv

LEMMA PaymentInvStep == PaymentInv /\ [Next]_vars => PaymentInv'
<1> SUFFICES ASSUME PaymentInv, [Next]_vars PROVE PaymentInv'
  OBVIOUS
<1>1. CASE UNCHANGED vars
  BY <1>1 DEF vars, tables, locks, PaymentInv, TypeOK, PlaceOK, RecordedOnce, RowsOK,
              OrderHeld, WalletHeld, LocksOK, LocksOf, Missing
<1>2. CASE \E pay \in Payments : Capture(pay) \/ AlreadyVerified(pay)
  BY <1>2, OutsideStep
<1>3. CASE \E p \in Handlers : Act(p)
  <2> PICK p \in Handlers : Act(p)
    BY <1>3
  <2>1. TypeOK /\ PlaceOK
    BY DEF PaymentInv
  <2>2. TypeOK' /\ PlaceOK'
    BY <2>1, ActFacts, PlaceStep
  <2>3. RecordedOnce' /\ RowsOK' /\ OrderHeld' /\ WalletHeld' /\ LocksOK'
    BY RecordedStep, RowsStep, OrderHeldStep, WalletHeldStep, LocksStep
  <2> QED BY <2>2, <2>3 DEF PaymentInv
<1> QED BY <1>1, <1>2, <1>3, StepCases

(* The locks of settlePayment keep what it read true until it commits, for *)
(* any number of orders, users and requests at once.                       *)
THEOREM PaymentInvHolds == Spec => []PaymentInv
<1>1. PaymentInv /\ [Next]_vars => PaymentInv'
  BY PaymentInvStep
<1> QED BY <1>1, PaymentInvInit, PTL DEF Spec

-----------------------------------------------------------------------------
(* Nobody waits for ever *)

LEMMA LeastFacts ==
  ASSUME NEW S, S \subseteq Nat, S # {}
  PROVE  \E x \in S : \A y \in S : x <= y
<1> DEFINE R == {ss \in Nat \X Nat : ss[1] < ss[2]}
<1>0. IsWellFoundedOn(R, Nat)
  BY NatLessThanWellFounded DEF OpToRel
<1>1. PICK x \in S : \A y \in S : ~(<<y, x>> \in R)
  <2> HIDE DEF R
  <2> QED BY <1>0, WFMin
<1>2. \A y \in S : ~(y < x)
  BY <1>1
<1>3. \A y \in S : x <= y
  BY <1>2
<1> QED BY <1>3

(* Whoever is waited for holds locks. *)
LEMMA WaitsFacts ==
  ASSUME PaymentInv, NEW p \in Handlers, NEW q \in Handlers, WaitsFor(p, q)
  PROVE  pc[q] \in {"wallets", "commit"} /\ pc[p] # "commit"
<1>1. TypeOK /\ PlaceOK /\ LocksOf(q)
  BY DEF PaymentInv, LocksOK
<1>2. CASE pc[p] = "order" /\ orderLock[job[p].order] = q
  BY <1>1, <1>2, WorkingJob DEF LocksOf
<1>3. CASE pc[p] = "wallets" /\ \E w \in Users : userLock[w] = q
  BY <1>1, <1>3 DEF LocksOf
<1> QED BY <1>2, <1>3 DEF WaitsFor

(* In a circle everybody waits for a wallet; the one who waits for the     *)
(* lowest of all holds one below it that somebody else waits for.          *)
LEMMA NoCircle ==
  ASSUME PaymentInv, NEW S \in SUBSET Handlers, Circle(S)
  PROVE  FALSE
<1>1. \A p \in S : (\E q \in S : WaitsFor(p, q)) /\ (\E q \in S : WaitsFor(q, p))
  BY DEF Circle
<1>2. \A p \in S : pc[p] = "wallets"
  BY <1>1, WaitsFacts
<1>3. \A p, q \in S : WaitsFor(p, q) => \E w \in Users : IsNext(p, w) /\ userLock[w] = q
  BY <1>2 DEF WaitsFor
<1> DEFINE W == {w \in Users : \E p \in S : IsNext(p, w)}
<1>4. W # {} /\ W \subseteq Nat
  <2>1. PICK p \in S : TRUE
    BY DEF Circle
  <2>2. PICK q \in S : WaitsFor(p, q)
    BY <1>1
  <2>3. PICK w \in Users : IsNext(p, w)
    BY <1>3, <2>2
  <2>4. w \in W
    BY <2>3
  <2> QED BY <2>4, ConstantsAssumption
<1>5. PICK w \in W : \A x \in W : w <= x
  <2> HIDE DEF W
  <2> QED BY <1>4, LeastFacts
<1>6. PICK p \in S : IsNext(p, w)
  BY <1>5
<1>7. PICK r \in S : WaitsFor(r, p)
  BY <1>1
<1>8. PICK v \in Users : IsNext(r, v) /\ userLock[v] = p
  BY <1>3, <1>7
<1>9. v < w
  <2>1. w \in Missing(p) /\ pc[p] = "wallets"
    BY <1>2, <1>6 DEF IsNext
  <2> QED BY <1>8, <2>1 DEF PaymentInv, LocksOK, LocksOf
<1>10. w <= v /\ v \in Nat /\ w \in Nat
  <2>1. v \in W
    BY <1>8
  <2> QED BY <1>4, <1>5, <2>1
<1> QED BY <1>9, <1>10

(* VerifyPayment and the webhook, however often, for however many orders:  *)
(* settlePayment locks the order and then the wallets in ascending order   *)
(* (payment_controller.go:121 and 133, wallet_service.go:169-180), so that *)
(* no settlements lock each other out.                                     *)
THEOREM SettlementsHold == Spec => []SettlementsSafe
<1>1. PaymentInv => SettlementsSafe
  <2> SUFFICES ASSUME PaymentInv
               PROVE  NobodyStuck
    BY DEF SettlementsSafe
  <2>1. \A p, q \in Handlers : WaitsFor(p, q) => pc[q] # "idle"
    BY WaitsFacts
  <2>2. \A S \in SUBSET Handlers : ~Circle(S)
    BY NoCircle
  <2> QED BY <2>1, <2>2 DEF NobodyStuck
<1> QED BY <1>1, PaymentInvHolds, PTL

-----------------------------------------------------------------------------
(* An answer is given for a row that says so, and no row is settled again. *)
LEMMA AnswersStep == PaymentInv /\ AnswersAreTrue /\ [Next]_vars => AnswersAreTrue'
<1> SUFFICES ASSUME PaymentInv, AnswersAreTrue, [Next]_vars PROVE AnswersAreTrue'
  OBVIOUS
<1>0. TypeOK /\ PlaceOK
  BY DEF PaymentInv
<1> DEFINE True(a) == /\ order[OrderOf[a[2]]].status = "Completed"
                      /\ order[OrderOf[a[2]]].payment = a[2]
<1>a. \A a \in answered : a[2] \in Payments /\ OrderOf[a[2]] \in Orders /\ True(a)
  BY <1>0, ConstantsAssumption DEF TypeOK, AnswersAreTrue
<1>1. CASE answered' = answered /\ order' = order
  BY <1>1 DEF AnswersAreTrue
<1>2. CASE \E op \in Callers, pay \in Payments :
             SettledBy(OrderOf[pay], pay) /\ Answer(op, pay) /\ order' = order
  BY <1>2, <1>a DEF AnswersAreTrue, SettledBy, Answer
<1>3. CASE UNCHANGED vars
  BY <1>1, <1>3 DEF vars, tables
<1>4. CASE \E pay \in Payments : Capture(pay) \/ AlreadyVerified(pay)
  BY <1>1, <1>2, <1>4 DEF Capture, AlreadyVerified, tables, Callers
<1>5. CASE \E p \in Handlers : Act(p)
  <2> PICK p \in Handlers : Act(p)
    BY <1>5
  <2>1. CASE Settle(p)
    <3> DEFINE o == job[p].order
               pay == job[p].payment
    <3>1. /\ o \in Orders /\ pay \in Payments /\ OrderOf[pay] = o
          /\ order[o].status = "Pending"
          /\ order' = [order EXCEPT ![o] = [status |-> "Completed", payment |-> pay]]
          /\ answered' \subseteq answered \cup {<<job[p].op, pay>>}
      BY <2>1, SettleFacts DEF Answer
    <3> HIDE DEF o, pay
    <3>2. /\ order'[o] = [status |-> "Completed", payment |-> pay]
          /\ \A x \in Orders \ {o} : order'[x] = order[x]
      BY <1>0, <3>1 DEF TypeOK
    <3>3. \A a \in answered : OrderOf[a[2]] # o
      BY <1>a, <3>1
    <3>4. \A a \in answered' : /\ order'[OrderOf[a[2]]].status = "Completed"
                               /\ order'[OrderOf[a[2]]].payment = a[2]
      BY <1>a, <3>1, <3>2, <3>3
    <3> QED BY <3>4 DEF AnswersAreTrue
  <2>2. CASE RecordOrder(p)
    <3>1. /\ pc[p] = "record" /\ answered' = answered
          /\ order' = [order EXCEPT ![job[p].order] =
                          [status |-> "Pending", payment |-> NoPayment]]
      BY <2>2 DEF RecordOrder
    <3>2. order[job[p].order].status = "None"
      BY <3>1 DEF PaymentInv, RecordedOnce
    <3>3. \A a \in answered : order'[OrderOf[a[2]]] = order[OrderOf[a[2]]]
      BY <1>0, <1>a, <3>1, <3>2 DEF TypeOK
    <3> QED BY <1>a, <3>1, <3>3 DEF AnswersAreTrue
  <2>3. CASE LockOrder(p)
    <3>1. job[p].op \in Callers /\ job[p].payment \in Payments
          /\ job[p].order = OrderOf[job[p].payment]
      BY <1>0, <2>3, WorkingJob DEF LockOrder, PlaceOK
    <3> QED BY <1>1, <1>2, <2>3, <3>1 DEF LockOrder, Refuse, tables
  <2>4. CASE \/ \E o \in Orders : CreateRazorpayOrder(p, o)
             \/ \E pay \in Payments : VerifyPayment(p, pay) \/ RazorpayWebhook(p, pay)
             \/ FetchPayment(p) \/ LockWallet(p) \/ Fail(p)
    BY <1>1, <2>4 DEF CreateRazorpayOrder, VerifyPayment, RazorpayWebhook, Begin,
       FetchPayment, Refuse, LockWallet, Fail, tables
  <2> QED BY <2>1, <2>2, <2>3, <2>4 DEF Act, Step
<1> QED BY <1>3, <1>4, <1>5, StepCases

(* Whoever got a 200 from VerifyPayment or the webhook can rely on it for  *)
(* good: the payment it was about is the one that was turned into coins.   *)
THEOREM AnswersHold == Spec => []AnswersAreTrue
<1>1. Init => AnswersAreTrue
  BY DEF Init, AnswersAreTrue
<1>2. PaymentInv /\ AnswersAreTrue /\ [Next]_vars => AnswersAreTrue'
  BY AnswersStep
<1> QED BY <1>1, <1>2, PaymentInvHolds, PTL DEF Spec

-----------------------------------------------------------------------------
(* First deposits and their referral events                                *)

(* What is decided under the locks of the user's wallet and the referrer's *)
(* stays right until it is written.                                        *)
ReferralHeld ==
  \A p \in Handlers, u \in Users :
    pc[p] = "commit" /\ u = Owner[job[p].order] =>
      /\ due[p] <=> ReferralDue(u)
      /\ Referrer[u] # 0 => userLock[Referrer[u]] = p

ReferralsInv ==
  /\ FirstDepositsReferred
  /\ ReferralHeld
  /\ \A r \in Users : IsFiniteSet(Rewarded(r))

(* Events are written by Settle alone. *)
LEMMA EventsWrites ==
  ASSUME NEW p \in Handlers, Act(p)
  PROVE  events' = events \/ Settle(p)
BY DEF Act, Step, CreateRazorpayOrder, VerifyPayment, RazorpayWebhook, Begin, FetchPayment,
       Refuse, RecordOrder, LockOrder, LockWallet, Fail, tables

(* Whether an event is due depends on the events of this referrer only.    *)
LEMMA DueUnchanged ==
  ASSUME NEW u \in Users, Referrer[u] # 0 =>
           \A v \in Users : Referrer[v] = Referrer[u] => events'[v] = events[v]
  PROVE  ReferralDue(u)' <=> ReferralDue(u)
<1>1. CASE Referrer[u] = 0
  BY <1>1 DEF ReferralDue
<1>2. CASE Referrer[u] # 0
  <2>1. events'[u] = events[u]
    BY <1>2
  <2>2. Rewarded(Referrer[u])' = Rewarded(Referrer[u])
    BY <1>2 DEF Rewarded
  <2> QED BY <2>1, <2>2 DEF ReferralDue
<1> QED BY <1>1, <1>2

(* With the last lock the request holds every wallet and reads the tables. *)
LEMMA LastWallet ==
  ASSUME PaymentInv, NEW p \in Handlers, Act(p), pc'[p] = "commit"
  PROVE  LET u == Owner[job[p].order]
         IN /\ u \in Users /\ pc[p] = "wallets" /\ job' = job
            /\ UNCHANGED <<order, events>>
            /\ due'[p] = ReferralDue(u)
            /\ \A w \in Wallets(u) : userLock'[w] = p
<1>0. TypeOK /\ PlaceOK
  BY DEF PaymentInv
<1>1. LockWallet(p)
  <2>1. ~End(p)
    BY <1>0, EndFacts
  <2>2. \A j \in Job, first \in {"record", "fetch", "order"} : ~Begin(p, j, first)
    BY <1>0, BeginFacts
  <2>3. \A o \in Orders : ~CreateRazorpayOrder(p, o)
    BY <2>2, CallTypes DEF CreateRazorpayOrder
  <2>4. \A pay \in Payments : ~VerifyPayment(p, pay) /\ ~RazorpayWebhook(p, pay)
    BY <2>2, CallTypes DEF VerifyPayment, RazorpayWebhook, Callers
  <2>5. ~FetchPayment(p) /\ ~LockOrder(p)
    BY <1>0, <2>1 DEF FetchPayment, LockOrder, Refuse, Goto, TypeOK
  <2> QED BY <2>1, <2>3, <2>4, <2>5 DEF Act, Step, RecordOrder, Settle, Fail
<1> DEFINE u == Owner[job[p].order]
<1>2. u \in Users /\ pc[p] = "wallets"
  BY <1>0, <1>1, WorkingJob DEF LockWallet
<1>3. job' = job /\ UNCHANGED <<order, events>>
  BY <1>1 DEF LockWallet, tables
<1>4. PICK d \in BOOLEAN : d = ReferralDue(u)
  BY DEF ReferralDue
<1>5. PICK w \in Wallets(u) :
        /\ userLock' = [userLock EXCEPT ![w] = p]
        /\ IF Missing(p) = {w}
             THEN due' = [due EXCEPT ![p] = d]
             ELSE pc' = pc
  BY <1>1, <1>4 DEF LockWallet
<1>6. Missing(p) = {w}
  BY <1>2, <1>5
<1>7. due'[p] = d
  BY <1>0, <1>5, <1>6 DEF TypeOK
<1>8. \A x \in Wallets(u) : userLock'[x] = p
  <2> SUFFICES ASSUME NEW x \in Wallets(u)
      PROVE  userLock'[x] = p
    OBVIOUS
  <2>1. x \in Users
    BY <1>2, ReferrerTyped
  <2>2. userLock[x] = p \/ x = w
    BY <1>6 DEF Missing
  <2> QED BY <1>0, <1>5, <2>1, <2>2 DEF TypeOK
<1> QED BY <1>2, <1>3, <1>4, <1>7, <1>8

(* A settlement writes the event it found due: the user's first, and one   *)
(* more of the referrer.                                                   *)
LEMMA SettleEvents ==
  ASSUME PaymentInv, ReferralsInv, NEW p \in Handlers, Settle(p)
  PROVE  LET o == job[p].order
             u == Owner[o]
         IN /\ o \in Orders /\ u \in Users
            /\ order'[o].status = "Completed"
            /\ \A x \in Orders \ {o} : order'[x] = order[x]
            /\ due[p] <=> ReferralDue(u)
            /\ Referrer[u] # 0 => userLock[Referrer[u]] = p
            /\ userLock[u] = p
            /\ \A v \in Users \ {u} : events'[v] = events[v]
            /\ due[p] => events'[u] = 1
            /\ ~due[p] => events'[u] = events[u]
<1>0. TypeOK /\ PlaceOK
  BY DEF PaymentInv
<1> DEFINE o == job[p].order
           u == Owner[o]
<1>1. /\ o \in Orders /\ u \in Users /\ pc[p] = "commit" /\ userLock[u] = p
      /\ order' = [order EXCEPT ![o] = [status |-> "Completed", payment |-> job[p].payment]]
  BY SettleFacts
<1>2. /\ order'[o].status = "Completed"
      /\ \A x \in Orders \ {o} : order'[x] = order[x]
  <2> HIDE DEF o, u
  <2> QED BY <1>0, <1>1 DEF TypeOK
<1>3. (due[p] <=> ReferralDue(u)) /\ (Referrer[u] # 0 => userLock[Referrer[u]] = p)
  BY <1>1 DEF ReferralsInv, ReferralHeld
<1>4. events' = [events EXCEPT ![u] = @ + IF due[p] THEN 1 ELSE 0]
  BY DEF Settle
<1>5. /\ \A v \in Users \ {u} : events'[v] = events[v]
      /\ due[p] => events'[u] = events[u] + 1
      /\ ~due[p] => events'[u] = events[u]
  <2> HIDE DEF o, u
  <2> QED BY <1>0, <1>1, <1>4 DEF TypeOK
<1>6. due[p] => events[u] = 0
  BY <1>3 DEF ReferralDue
<1> QED BY <1>1, <1>2, <1>3, <1>5, <1>6

(* The users a referrer was rewarded for grow by the one now settled.      *)
LEMMA RewardedStep ==
  ASSUME PaymentInv, ReferralsInv, NEW p \in Handlers, Settle(p), NEW r \in Users
  PROVE  /\ IsFiniteSet(Rewarded(r)')
         /\ Cardinality(Rewarded(r)') \in Nat
         /\ Cardinality(Rewarded(r)) <= Cardinality(Rewarded(r)')
         /\ Cardinality(Rewarded(r)') <= MaxReferralRewards
<1>0. TypeOK
  BY DEF PaymentInv
<1>1. IsFiniteSet(Rewarded(r)) /\ Cardinality(Rewarded(r)) <= MaxReferralRewards
  BY DEF ReferralsInv, FirstDepositsReferred
<1>2. Cardinality(Rewarded(r)) \in Nat
  BY <1>1, FS_CardinalityType
<1> DEFINE u == Owner[job[p].order]
<1>3. /\ u \in Users
      /\ due[p] <=> ReferralDue(u)
      /\ \A v \in Users \ {u} : events'[v] = events[v]
      /\ due[p] => events'[u] = 1
      /\ ~due[p] => events'[u] = events[u]
  BY SettleEvents
<1>4. CASE due[p] /\ Referrer[u] = r
  <2>1. u \notin Rewarded(r) /\ Cardinality(Rewarded(r)) < MaxReferralRewards
    BY <1>0, <1>3, <1>4 DEF ReferralDue, Rewarded, TypeOK
  <2>2. Rewarded(r)' = Rewarded(r) \cup {u}
    BY <1>3, <1>4 DEF Rewarded
  <2>3. /\ IsFiniteSet(Rewarded(r) \cup {u})
        /\ Cardinality(Rewarded(r) \cup {u}) = Cardinality(Rewarded(r)) + 1
    BY <1>1, <2>1, FS_AddElement
  <2> QED BY <1>2, <2>1, <2>2, <2>3, ConstantsAssumption
<1>5. CASE ~(due[p] /\ Referrer[u] = r)
  <2>1. Rewarded(r)' = Rewarded(r)
    BY <1>3, <1>5 DEF Rewarded
  <2> QED BY <1>1, <1>2, <2>1
<1> QED BY <1>4, <1>5

LEMMA ReferredStep ==
  ASSUME PaymentInv, ReferralsInv, NEW p \in Handlers, Settle(p)
  PROVE  FirstDepositsReferred'
<1>0. TypeOK /\ FirstDepositsReferred
  BY DEF PaymentInv, ReferralsInv
<1> DEFINE o == job[p].order
           u == Owner[o]
<1>1. /\ o \in Orders /\ u \in Users
      /\ \A x \in Orders \ {o} : order'[x] = order[x]
      /\ due[p] <=> ReferralDue(u)
      /\ \A v \in Users \ {u} : events'[v] = events[v]
      /\ due[p] => events'[u] = 1
      /\ ~due[p] => events'[u] = events[u]
  BY SettleEvents
<1>2. \A v \in Users : /\ events[v] \in Nat /\ events[v] <= 1
                       /\ events'[v] \in Nat /\ events'[v] <= 1
                       /\ events[v] = 1 => events'[v] = 1
  <2>1. due[p] => events[u] = 0
    BY <1>1 DEF ReferralDue
  <2> QED BY <1>0, <1>1, <2>1 DEF FirstDepositsReferred, TypeOK
<1>3. \A r \in Users : Cardinality(Rewarded(r)') <= MaxReferralRewards
  BY RewardedStep
<1>4. ASSUME NEW r \in Users, Cardinality(Rewarded(r)) = MaxReferralRewards
      PROVE  Cardinality(Rewarded(r)') = MaxReferralRewards
  BY <1>4, RewardedStep, ConstantsAssumption
<1>5. ASSUME NEW x \in Orders, order'[x].status = "Completed", Referrer[Owner[x]] # 0
      PROVE  events'[Owner[x]] = 1 \/ Cardinality(Rewarded(Referrer[Owner[x]])') = MaxReferralRewards
  <2>0. Owner[x] \in Users /\ Referrer[Owner[x]] \in Users
    BY <1>5, ConstantsAssumption
  <2>1. CASE x # o
    <3>1. order[x].status = "Completed"
      BY <1>1, <1>5, <2>1
    <3>2. events[Owner[x]] = 1 \/ Cardinality(Rewarded(Referrer[Owner[x]])) = MaxReferralRewards
      BY <1>0, <1>5, <3>1 DEF FirstDepositsReferred
    <3> QED BY <1>2, <1>4, <2>0, <3>2
  <2>2. CASE x = o /\ due[p]
    BY <1>1, <2>2
  <2>3. CASE x = o /\ ~due[p]
    <3>1. events[u] # 0 \/ ~(Cardinality(Rewarded(Referrer[u])) < MaxReferralRewards)
      BY <1>1, <1>5, <2>3 DEF ReferralDue
    <3>2. /\ Cardinality(Rewarded(Referrer[u])) \in Nat
          /\ Cardinality(Rewarded(Referrer[u])) <= MaxReferralRewards
      BY <1>0, <2>0, <2>3, FS_CardinalityType DEF ReferralsInv, FirstDepositsReferred
    <3>3. events[u] = 1 \/ Cardinality(Rewarded(Referrer[u])) = MaxReferralRewards
      <4>1. CASE events[u] # 0
        BY <1>1, <1>2, <4>1
      <4>2. CASE ~(Cardinality(Rewarded(Referrer[u])) < MaxReferralRewards)
        <5>1. MaxReferralRewards \in Nat
          BY ConstantsAssumption
        <5> HIDE DEF u
        <5> QED BY <3>2, <4>2, <5>1
      <4> QED BY <3>1, <4>1, <4>2
    <3> QED BY <1>2, <1>4, <2>0, <2>3, <3>3
  <2> QED BY <2>1, <2>2, <2>3
<1> QED BY <1>2, <1>3, <1>5 DEF FirstDepositsReferred

(* Whoever else settles writes no event of a referrer that is locked.      *)
LEMMA ReferralHeldStep ==
  ASSUME PaymentInv, ReferralsInv, NEW p \in Handlers, Act(p)
  PROVE  ReferralHeld'
<1>0. TypeOK /\ PlaceOK /\ ReferralHeld /\ WalletHeld
  BY DEF PaymentInv, ReferralsInv
<1> SUFFICES ASSUME NEW q \in Handlers, NEW u \in Users,
                    pc'[q] = "commit", u = Owner[job'[q].order]
    PROVE  /\ due'[q] <=> ReferralDue(u)'
           /\ Referrer[u] # 0 => userLock'[Referrer[u]] = q
  BY DEF ReferralHeld
<1>1. CASE q = p
  <2>1. /\ job' = job /\ events' = events
        /\ due'[p] = ReferralDue(u)
        /\ \A w \in Wallets(u) : userLock'[w] = p
    BY <1>1, LastWallet
  <2>2. ReferralDue(u)' <=> ReferralDue(u)
    BY <2>1, DueUnchanged
  <2> QED BY <1>1, <2>1, <2>2, ReferrerTyped
<1>2. CASE q # p
  <2>1. /\ pc[q] = "commit" /\ job'[q] = job[q] /\ due'[q] = due[q]
        /\ \A v \in Users : userLock[v] = q => userLock'[v] = q
    BY <1>0, <1>2, ActFacts
  <2>2. /\ userLock[u] = q
        /\ due[q] <=> ReferralDue(u)
        /\ Referrer[u] # 0 => userLock[Referrer[u]] = q
    BY <1>0, <2>1 DEF WalletHeld, ReferralHeld
  <2>3. Referrer[u] # 0 => \A v \in Users : Referrer[v] = Referrer[u] => events'[v] = events[v]
    <3>1. CASE events' = events
      BY <3>1
    <3>2. CASE Settle(p)
      <4> DEFINE w == Owner[job[p].order]
      <4>1. /\ w \in Users
            /\ due[p] <=> ReferralDue(w)
            /\ Referrer[w] # 0 => userLock[Referrer[w]] = p
            /\ \A v \in Users \ {w} : events'[v] = events[v]
            /\ ~due[p] => events'[w] = events[w]
        BY <3>2, SettleEvents
      <4>2. Referrer[u] # 0 /\ Referrer[w] = Referrer[u] => FALSE
        BY <1>2, <2>2, <4>1
      <4> QED BY <4>1, <4>2
    <3> QED BY <3>1, <3>2, EventsWrites
  <2>4. ReferralDue(u)' <=> ReferralDue(u)
    BY <2>3, DueUnchanged
  <2>5. Referrer[u] # 0 => userLock'[Referrer[u]] = q
    BY <2>1, <2>2, ReferrerTyped
  <2> QED BY <2>1, <2>2, <2>4, <2>5
<1> QED BY <1>1, <1>2

LEMMA ReferralsInvInit == Init => ReferralsInv
<1> SUFFICES ASSUME Init PROVE ReferralsInv
  OBVIOUS
<1>1. \A r \in Users : Rewarded(r) = {}
  BY DEF Init, Rewarded
<1>2. \A r \in Users : IsFiniteSet(Rewarded(r)) /\ Cardinality(Rewarded(r)) = 0
  BY <1>1, FS_EmptySet
<1>3. FirstDepositsReferred
  BY <1>2, ConstantsAssumption DEF Init, FirstDepositsReferred
<1>4. ReferralHeld
  BY DEF Init, ReferralHeld
<1> QED BY <1>2, <1>3, <1>4 DEF ReferralsInv

LEMMA ReferralsInvStep == PaymentInv /\ ReferralsInv /\ [Next]_vars => ReferralsInv'
<1> SUFFICES ASSUME PaymentInv, ReferralsInv, [Next]_vars PROVE ReferralsInv'
  OBVIOUS
<1>0. TypeOK /\ PlaceOK
  BY DEF PaymentInv
<1>a. ASSUME order' = order, events' = events
      PROVE  FirstDepositsReferred' /\ \A r \in Users : IsFiniteSet(Rewarded(r)')
  <2>1. \A r : Rewarded(r)' = Rewarded(r)
    BY <1>a DEF Rewarded
  <2> QED BY <1>a, <2>1 DEF ReferralsInv, FirstDepositsReferred
<1>1. CASE UNCHANGED <<order, events, userLock, pc, job, due>>
  <2>1. ReferralHeld'
    BY <1>1 DEF ReferralsInv, ReferralHeld, ReferralDue, Rewarded
  <2> QED BY <1>1, <1>a, <2>1 DEF ReferralsInv
<1>2. CASE UNCHANGED vars
  BY <1>1, <1>2 DEF vars, tables, locks
<1>3. CASE \E pay \in Payments : Capture(pay) \/ AlreadyVerified(pay)
  BY <1>0, <1>1, <1>3, OutsideFacts
<1>4. CASE \E p \in Handlers : Act(p)
  <2> PICK p \in Handlers : Act(p)
    BY <1>4
  <2>1. ReferralHeld'
    BY ReferralHeldStep
  <2>2. CASE Settle(p)
    <3>1. FirstDepositsReferred'
      BY <2>2, ReferredStep
    <3>2. \A r \in Users : IsFiniteSet(Rewarded(r)')
      BY <2>2, RewardedStep
    <3> QED BY <2>1, <3>1, <3>2 DEF ReferralsInv
  <2>3. CASE events' = events /\ ~Settle(p)
    <3>1. CASE order' = order
      BY <1>a, <2>1, <2>3, <3>1 DEF ReferralsInv
    <3>2. CASE RecordOrder(p)
      <4>1. /\ job[p].order \in Orders
            /\ order' = [order EXCEPT ![job[p].order] =
                            [status |-> "Pending", payment |-> NoPayment]]
        BY <1>0, <3>2, WorkingJob DEF RecordOrder
      <4>2. \A o \in Orders : order'[o].status = "Completed" => order[o].status = "Completed"
        BY <1>0, <4>1 DEF TypeOK
      <4>3. \A r : Rewarded(r)' = Rewarded(r)
        BY <2>3 DEF Rewarded
      <4>4. FirstDepositsReferred'
        BY <2>3, <4>2, <4>3 DEF ReferralsInv, FirstDepositsReferred
      <4> QED BY <2>1, <4>3, <4>4 DEF ReferralsInv
    <3> QED BY <1>0, <2>3, <3>1, <3>2, ActWrites
  <2> QED BY <2>2, <2>3, EventsWrites
<1> QED BY <1>2, <1>3, <1>4, StepCases

(* However many deposits are settled at once, of one user or of several    *)
(* that one referrer brought: each user's first earns the one event unless *)
(* the referrer's cap is used up, and the cap holds.                       *)
THEOREM FirstDeposits == Spec => []FirstDepositsReferred
<1>1. PaymentInv /\ ReferralsInv /\ [Next]_vars => ReferralsInv'
  BY ReferralsInvStep
<1>2. ReferralsInv => FirstDepositsReferred
  BY DEF ReferralsInv
<1> QED BY <1>1, <1>2, ReferralsInvInit, PaymentInvHolds, PTL DEF Spec

-----------------------------------------------------------------------------
(* Under the mapping a settlement is the one step in which a payment       *)
(* becomes coins, a capture the one in which money is taken, and the rest  *)
(* changes nothing.                                                        *)
LEMMA StepRefines ==
  PaymentInv /\ [Next]_vars => [Promise!DepositNext]_(Promise!depositVars)
<1> SUFFICES ASSUME PaymentInv, [Next]_vars
    PROVE  [Promise!DepositNext]_(Promise!depositVars)
  OBVIOUS
<1>0. TypeOK /\ PlaceOK
  BY DEF PaymentInv
<1> DEFINE paid == [o \in Orders |-> order[o].payment]
<1>1. CASE UNCHANGED <<captured, order, points>>
  BY <1>1 DEF Promise!depositVars
<1>2. CASE UNCHANGED vars
  BY <1>1, <1>2 DEF vars, tables
<1>3. CASE \E pay \in Payments : Capture(pay) \/ AlreadyVerified(pay)
  <2> PICK pay \in Payments : Capture(pay) \/ AlreadyVerified(pay)
    BY <1>3
  <2>1. CASE Capture(pay)
    BY <2>1 DEF Capture, Promise!DepositNext, Promise!TakeMoney, tables
  <2>2. CASE AlreadyVerified(pay)
    BY <1>1, <2>2 DEF AlreadyVerified, tables
  <2> QED BY <2>1, <2>2
<1>4. CASE \E p \in Handlers : Act(p)
  <2> PICK p \in Handlers : Act(p)
    BY <1>4
  <2>1. CASE Settle(p)
    <3> DEFINE o == job[p].order
               pay == job[p].payment
    <3>1. /\ o \in Orders /\ pay \in Payments /\ pay \in captured /\ OrderOf[pay] = o
          /\ order[o].status = "Pending" /\ captured' = captured
          /\ order' = [order EXCEPT ![o] = [status |-> "Completed", payment |-> pay]]
          /\ points' = [points EXCEPT ![Owner[o]] = points[Owner[o]] + Amount[o]]
      BY <2>1, SettleFacts
    <3> HIDE DEF o, pay
    <3>2. paid[o] = NoPayment
      BY <3>1 DEF PaymentInv, RowsOK
    <3>3. paid' = [paid EXCEPT ![o] = pay]
      BY <1>0, <3>1 DEF TypeOK
    <3>4. PICK x : x = pay
      OBVIOUS
    <3>5. x \in Payments /\ Promise!GiveCoins(x)
      BY <3>1, <3>2, <3>3, <3>4 DEF Promise!GiveCoins
    <3>6. Promise!DepositNext
      BY <3>5 DEF Promise!DepositNext
    <3> QED BY <3>6
  <2>2. CASE RecordOrder(p)
    <3>1. /\ pc[p] = "record" /\ UNCHANGED <<captured, points>>
          /\ order' = [order EXCEPT ![job[p].order] =
                          [status |-> "Pending", payment |-> NoPayment]]
      BY <2>2 DEF RecordOrder
    <3>2. job[p].order \in Orders /\ order[job[p].order].status = "None"
      BY <1>0, <3>1, WorkingJob DEF PaymentInv, RecordedOnce
    <3>3. order[job[p].order].payment = NoPayment
      BY <3>2 DEF PaymentInv, RowsOK
    <3>4. \A o \in Orders : order'[o].payment = order[o].payment
      BY <1>0, <3>1, <3>2, <3>3 DEF TypeOK
    <3>5. paid' = paid
      BY <3>4
    <3> QED BY <3>1, <3>5 DEF Promise!depositVars
  <2>3. CASE order' = order /\ points' = points
    BY <1>0, <1>1, <2>3, ActFacts
  <2> QED BY <1>0, <2>1, <2>2, <2>3, ActWrites
<1> QED BY <1>2, <1>3, <1>4, StepCases

(* However often and in whatever order the two channels report it, a       *)
(* captured payment is turned into coins as Deposit promises: once, whole, *)
(* and for its own order.                                                  *)
THEOREM PaymentIsDeposit == Spec => DepositSpec
<1>1. Init => Promise!DepositInit
  BY DEF Init, Promise!DepositInit
<1>2. PaymentInv /\ [Next]_vars => [Promise!DepositNext]_(Promise!depositVars)
  BY StepRefines
<1> QED BY <1>1, <1>2, PaymentInvHolds, PTL DEF Spec, DepositSpec, Promise!DepositSpec
=============================================================================
