-------------------------- MODULE RedemptionProofs --------------------------
(***************************************************************************)
(* Theorems about Redemption, for any number of users, items, requests and *)
(* handlers at once: the inductive invariant, that nobody waits for ever,  *)
(* and the refinement of Fulfilment.                                       *)
(***************************************************************************)
EXTENDS Redemption, TLAPS

Places == {"idle", "row", "item", "buyer", "wallet", "commit", "update"}

(* What handler p does. *)
Act(p) ==
  \/ \E r \in Requests :
       \/ RedeemVoucher(p, r) \/ SubmitRedemption(p, r)
       \/ ApproveWithdrawal(p, r) \/ RejectWithdrawal(p, r)
       \/ \E to \in Statuses : AdminProcessRedemption(p, r, to)
  \/ Step(p) \/ Fail(p)

(* The five handlers begin in one of three ways; a step that waits for a   *)
(* lock either takes it and goes on or refuses.                            *)
Begun(p, r, to, first) ==
  /\ Begin(p, r, to, first)
  /\ \/ to = "Pending" /\ Fresh(r) /\ first = IF IsVoucher(r) THEN "buyer" ELSE "item"
     \/ to = "Approved" /\ IsVoucher(r) /\ status[r] # "None" /\ first = "update"
     \/ to # "Pending" /\ status[r] # "None" /\ first = "row"

TookRow(p) ==
  /\ pc[p] = "row"
  /\ rowLock[job[p].req] = NoProc
  /\ Legal(job[p].req, job[p].to)
  /\ rowLock' = [rowLock EXCEPT ![job[p].req] = p]
  /\ pc' = [pc EXCEPT ![p] = After(job[p].req, job[p].to, "row")]
  /\ UNCHANGED <<status, inventory, points, verified, itemLock, userLock, job, read, copy>>

TookItem(p) ==
  LET i == ItemOf[job[p].req]
  IN /\ pc[p] = "item"
     /\ itemLock[i] = NoProc
     /\ job[p].to = "Rejected" \/ inventory[i] # 0
     /\ itemLock' = [itemLock EXCEPT ![i] = p]
     /\ copy' = [copy EXCEPT ![p] = inventory[i]]
     /\ pc' = [pc EXCEPT ![p] = After(job[p].req, job[p].to, "item")]
     /\ UNCHANGED <<status, inventory, points, verified, rowLock, userLock, job, read>>

Checked(p) ==
  /\ pc[p] = "buyer"
  /\ Buyer[job[p].req] \in verified
  /\ pc' = [pc EXCEPT ![p] = "wallet"]
  /\ UNCHANGED <<status, inventory, points, verified, rowLock, itemLock, userLock, job, read, copy>>

TookWallet(p) ==
  LET u == Buyer[job[p].req]
  IN /\ pc[p] = "wallet"
     /\ userLock[u] = NoProc
     /\ job[p].to = "Rejected" \/ points[u] >= Cost[ItemOf[job[p].req]]
     /\ userLock' = [userLock EXCEPT ![u] = p]
     /\ read' = [read EXCEPT ![p] = points[u]]
     /\ pc' = [pc EXCEPT ![p] = After(job[p].req, job[p].to, "wallet")]
     /\ UNCHANGED <<status, inventory, points, verified, rowLock, itemLock, job, copy>>

(* The four steps that write a table. *)
Commit(p) == CommitRequest(p) \/ CommitRefund(p) \/ CommitProcess(p) \/ UpdateApproved(p)

LEMMA StepCases ==
  ASSUME [Next]_vars
  PROVE  \/ UNCHANGED vars
         \/ \E u \in Users : PassKyc(u)
         \/ \E p \in Handlers : Act(p)
BY DEF Next, Act

LEMMA BeginCases ==
  ASSUME NEW p \in Handlers, NEW r \in Requests,
         \/ RedeemVoucher(p, r) \/ SubmitRedemption(p, r)
         \/ ApproveWithdrawal(p, r) \/ RejectWithdrawal(p, r)
         \/ \E to \in Statuses : AdminProcessRedemption(p, r, to)
  PROVE  \E to \in Statuses, first \in {"row", "item", "buyer", "update"} :
           Begun(p, r, to, first)
<1>1. CASE RedeemVoucher(p, r)
  <2>1. Begun(p, r, "Pending", "buyer")
    BY <1>1 DEF RedeemVoucher, Begun
  <2> QED BY <2>1 DEF Statuses
<1>2. CASE SubmitRedemption(p, r)
  <2>1. Begun(p, r, "Pending", "item")
    BY <1>2 DEF SubmitRedemption, Begun
  <2> QED BY <2>1 DEF Statuses
<1>3. CASE ApproveWithdrawal(p, r)
  <2>1. Begun(p, r, "Approved", "update")
    BY <1>3 DEF ApproveWithdrawal, Begun, Legal
  <2> QED BY <2>1 DEF Statuses
<1>4. CASE RejectWithdrawal(p, r)
  <2>1. Begun(p, r, "Rejected", "row")
    BY <1>4 DEF RejectWithdrawal, Begun
  <2> QED BY <2>1 DEF Statuses
<1>5. CASE \E to \in Statuses : AdminProcessRedemption(p, r, to)
  <2> PICK to \in Statuses : AdminProcessRedemption(p, r, to)
    BY <1>5
  <2>1. Begun(p, r, to, "row")
    BY DEF AdminProcessRedemption, Begun
  <2> QED BY <2>1
<1> QED BY <1>1, <1>2, <1>3, <1>4, <1>5

LEMMA ActCases ==
  ASSUME NEW p \in Handlers, Act(p)
  PROVE  \/ \E r \in Requests, to \in Statuses, first \in {"row", "item", "buyer", "update"} :
              Begun(p, r, to, first)
         \/ Refuse(p) \/ Commit(p)
         \/ TookRow(p) \/ TookItem(p) \/ Checked(p) \/ TookWallet(p)
<1>1. CASE LockRow(p)
  BY <1>1 DEF LockRow, TookRow, LockFree, Goto, tables, memory
<1>2. CASE LockItem(p)
  BY <1>2 DEF LockItem, TookItem, LockFree, Goto, tables
<1>3. CASE CheckBuyer(p)
  BY <1>3 DEF CheckBuyer, Checked, Goto, tables, locks, memory
<1>4. CASE LockWallet(p)
  BY <1>4 DEF LockWallet, TookWallet, LockFree, Goto, tables
<1>5. CASE Fail(p)
  BY <1>5 DEF Fail, Refuse
<1>6. CASE Commit(p)
  BY <1>6
<1>7. CASE Step(p)
  BY <1>1, <1>2, <1>3, <1>4, <1>6, <1>7 DEF Step, Commit
<1> QED BY <1>5, <1>7, BeginCases DEF Act

(* A handler under way has a request, its buyer and its item. *)
LEMMA WorkingJob ==
  ASSUME PlaceOK, NEW p \in Handlers, pc[p] # "idle"
  PROVE  /\ job[p] \in Job
         /\ job[p].req \in Requests /\ job[p].to \in Statuses
         /\ Buyer[job[p].req] \in Users
         /\ ItemOf[job[p].req] \in Items
         /\ Cost[ItemOf[job[p].req]] \in Nat
<1>1. job[p] \in Job
  BY DEF PlaceOK
<1>2. job[p].req \in Requests /\ job[p].to \in Statuses
  BY <1>1 DEF Job
<1> QED BY <1>1, <1>2, ConstantsAssumption

(* The end of a handler frees its own locks and nobody else's. *)
LEMMA EndFacts ==
  ASSUME TypeOK, NEW p \in Handlers, End(p)
  PROVE  /\ pc' \in [Handlers -> Places]
         /\ job' \in [Handlers -> Job \cup {NoJob}]
         /\ read' \in [Handlers -> Nat]
         /\ copy' \in [Handlers -> Nat \cup {Unlimited}]
         /\ rowLock' \in [Requests -> Handlers \cup {NoProc}]
         /\ itemLock' \in [Items -> Handlers \cup {NoProc}]
         /\ userLock' \in [Users -> Handlers \cup {NoProc}]
         /\ pc'[p] = "idle"
         /\ \A q \in Handlers \ {p} :
              /\ pc'[q] = pc[q] /\ job'[q] = job[q] /\ read'[q] = read[q] /\ copy'[q] = copy[q]
              /\ \A r \in Requests : rowLock[r] = q => rowLock'[r] = q
              /\ \A i \in Items : itemLock[i] = q => itemLock'[i] = q
              /\ \A u \in Users : userLock[u] = q => userLock'[u] = q
<1>1. /\ pc' = [pc EXCEPT ![p] = "idle"] /\ job' = [job EXCEPT ![p] = NoJob]
      /\ read' = [read EXCEPT ![p] = 0] /\ copy' = [copy EXCEPT ![p] = 0]
  BY DEF End
<1>2. /\ rowLock' = [r \in Requests |-> IF rowLock[r] = p THEN NoProc ELSE rowLock[r]]
      /\ itemLock' = [i \in Items |-> IF itemLock[i] = p THEN NoProc ELSE itemLock[i]]
      /\ userLock' = [u \in Users |-> IF userLock[u] = p THEN NoProc ELSE userLock[u]]
  BY DEF End
<1>3. /\ pc' \in [Handlers -> Places] /\ job' \in [Handlers -> Job \cup {NoJob}]
      /\ read' \in [Handlers -> Nat] /\ copy' \in [Handlers -> Nat \cup {Unlimited}]
      /\ pc'[p] = "idle"
      /\ \A q \in Handlers \ {p} :
           pc'[q] = pc[q] /\ job'[q] = job[q] /\ read'[q] = read[q] /\ copy'[q] = copy[q]
  BY <1>1 DEF TypeOK, Places
<1>4. /\ rowLock' \in [Requests -> Handlers \cup {NoProc}]
      /\ itemLock' \in [Items -> Handlers \cup {NoProc}]
      /\ userLock' \in [Users -> Handlers \cup {NoProc}]
  BY <1>2 DEF TypeOK
<1>5. \A q \in Handlers \ {p} :
        /\ \A r \in Requests : rowLock[r] = q => rowLock'[r] = q
        /\ \A i \in Items : itemLock[i] = q => itemLock'[i] = q
        /\ \A u \in Users : userLock[u] = q => userLock'[u] = q
  BY <1>2
<1> QED BY <1>3, <1>4, <1>5

(* Where a handler goes with a lock just taken. *)
LEMMA AfterFacts ==
  ASSUME NEW r, NEW to \in Statuses
  PROVE  /\ to # "Pending" =>
              After(r, to, "row") = IF to = "Rejected"
                                      THEN IF IsVoucher(r) THEN "wallet" ELSE "item"
                                      ELSE "commit"
         /\ After(r, "Rejected", "item") = "wallet"
         /\ After(r, "Pending", "item") = "buyer"
         /\ After(r, to, "wallet") = "commit"
BY DEF After, Statuses

-----------------------------------------------------------------------------
(* What a commit finds under its locks, and what it writes. *)

Piece(i, n) ==
  [inventory EXCEPT ![i] = IF inventory[i] = Unlimited THEN Unlimited ELSE inventory[i] + n]

LEMMA RequestFacts ==
  ASSUME RedemptionInv, NEW p \in Handlers, CommitRequest(p),
         NEW r, r = job[p].req, NEW i, i = ItemOf[r], NEW u, u = Buyer[r]
  PROVE  /\ r \in Requests /\ i \in Items /\ u \in Users /\ u \in verified
         /\ pc[p] = "commit" /\ job[p].to = "Pending"
         /\ status[r] = "None" /\ inventory[i] # 0
         /\ points[u] >= Cost[i] /\ userLock[u] = p
         /\ ~IsVoucher(r) => itemLock[i] = p
         /\ status' = [status EXCEPT ![r] = "Pending"]
         /\ points' = [points EXCEPT ![u] = points[u] - Cost[i]]
         /\ inventory' = Piece(i, -1)
         /\ verified' = verified
<1>0. TypeOK /\ PlaceOK /\ Created /\ ItemHeld /\ WalletHeld /\ BuyersVerified
      /\ VouchersUnlimited
  BY DEF RedemptionInv
<1>1. /\ pc[p] = "commit" /\ job[p].to = "Pending"
      /\ status' = [status EXCEPT ![r] = "Pending"]
      /\ points' = [points EXCEPT ![u] = read[p] - Cost[i]]
      /\ inventory' = IF ~IsVoucher(r) /\ copy[p] > 0
                        THEN [inventory EXCEPT ![i] = copy[p] - 1]
                        ELSE inventory
      /\ verified' = verified
  BY DEF CommitRequest
<1>2. r \in Requests /\ i \in Items /\ u \in Users
  BY <1>0, <1>1, WorkingJob
<1>3. status[r] = "None"
  BY <1>0, <1>1 DEF Created
<1>4. userLock[u] = p /\ read[p] = points[u] /\ read[p] >= Cost[i] /\ u \in verified
  BY <1>0, <1>1 DEF WalletHeld, BuyersVerified
<1>5. inventory[i] \in Nat \cup {Unlimited} /\ inventory \in [Items -> Nat \cup {Unlimited}]
  BY <1>0, <1>2 DEF TypeOK
<1>6. CASE IsVoucher(r)
  <2>1. inventory[i] = Unlimited /\ inventory' = inventory
    BY <1>0, <1>1, <1>6 DEF IsVoucher, VouchersUnlimited
  <2>2. Piece(i, -1) = inventory
    BY <1>5, <2>1 DEF Piece
  <2> QED BY <1>1, <1>2, <1>3, <1>4, <1>6, <2>1, <2>2 DEF Unlimited
<1>7. CASE ~IsVoucher(r)
  <2>1. itemLock[i] = p /\ copy[p] = inventory[i] /\ inventory[i] # 0
    BY <1>0, <1>1, <1>7 DEF ItemHeld
  <2>2. CASE inventory[i] = Unlimited
    <3>1. inventory' = inventory
      BY <1>1, <2>1, <2>2 DEF Unlimited
    <3>2. Piece(i, -1) = inventory
      BY <1>5, <2>2 DEF Piece
    <3> QED BY <1>1, <1>2, <1>3, <1>4, <2>1, <3>1, <3>2
  <2>3. CASE inventory[i] # Unlimited
    <3>1. copy[p] > 0
      BY <1>5, <2>1, <2>3
    <3>2. inventory' = [inventory EXCEPT ![i] = inventory[i] + -1]
      BY <1>1, <1>5, <1>7, <2>1, <2>3, <3>1
    <3>3. inventory' = Piece(i, -1)
      BY <2>3, <3>2 DEF Piece
    <3> QED BY <1>1, <1>2, <1>3, <1>4, <2>1, <3>3
  <2> QED BY <2>2, <2>3
<1> QED BY <1>6, <1>7

LEMMA RefundFacts ==
  ASSUME RedemptionInv, NEW p \in Handlers, CommitRefund(p),
         NEW r, r = job[p].req, NEW i, i = ItemOf[r], NEW u, u = Buyer[r]
  PROVE  /\ r \in Requests /\ i \in Items /\ u \in Users
         /\ pc[p] = "commit" /\ job[p].to = "Rejected"
         /\ rowLock[r] = p /\ userLock[u] = p
         /\ ~IsVoucher(r) => itemLock[i] = p
         /\ status[r] \in {"Pending", "Approved"}
         /\ IsVoucher(r) => status[r] = "Pending"
         /\ status' = [status EXCEPT ![r] = "Rejected"]
         /\ points' = [points EXCEPT ![u] = points[u] + Cost[i]]
         /\ inventory' = Piece(i, 1)
         /\ verified' = verified
<1>0. TypeOK /\ PlaceOK /\ RowHeld /\ ItemHeld /\ WalletHeld /\ VouchersUnlimited
  BY DEF RedemptionInv
<1>1. /\ pc[p] = "commit" /\ job[p].to = "Rejected"
      /\ status' = [status EXCEPT ![r] = "Rejected"]
      /\ points' = [points EXCEPT ![u] = read[p] + Cost[i]]
      /\ inventory' = IF IsVoucher(r) THEN inventory ELSE Restored(i)
      /\ verified' = verified
  BY DEF CommitRefund
<1>2. r \in Requests /\ i \in Items /\ u \in Users
  BY <1>0, <1>1, WorkingJob
<1>3. rowLock[r] = p /\ Legal(r, "Rejected")
  BY <1>0, <1>1 DEF RowHeld
<1>4. userLock[u] = p /\ read[p] = points[u]
  BY <1>0, <1>1 DEF WalletHeld
<1>5. inventory[i] \in Nat \cup {Unlimited} /\ inventory \in [Items -> Nat \cup {Unlimited}]
  BY <1>0, <1>2 DEF TypeOK
<1>6. status[r] \in {"Pending", "Approved"} /\ (IsVoucher(r) => status[r] = "Pending")
  BY <1>3 DEF Legal
<1>7. ~IsVoucher(r) => itemLock[i] = p
  BY <1>0, <1>1 DEF ItemHeld
<1>8. inventory' = Piece(i, 1)
  <2>1. CASE IsVoucher(r)
    <3>1. inventory[i] = Unlimited /\ inventory' = inventory
      BY <1>0, <1>1, <2>1 DEF IsVoucher, VouchersUnlimited
    <3> QED BY <1>5, <3>1 DEF Piece
  <2>2. CASE ~IsVoucher(r) /\ inventory[i] = Unlimited
    BY <1>1, <1>5, <2>2 DEF Piece, Restored, Unlimited
  <2>3. CASE ~IsVoucher(r) /\ inventory[i] # Unlimited
    <3>1. inventory[i] >= 0
      BY <1>5, <2>3
    <3>2. inventory' = [inventory EXCEPT ![i] = inventory[i] + 1]
      BY <1>1, <2>3, <3>1 DEF Restored
    <3> QED BY <2>3, <3>2 DEF Piece
  <2> QED BY <2>1, <2>2, <2>3
<1> QED BY <1>1, <1>2, <1>3, <1>4, <1>6, <1>7, <1>8

LEMMA ProcessFacts ==
  ASSUME RedemptionInv, NEW p \in Handlers, CommitProcess(p), NEW r, r = job[p].req
  PROVE  /\ r \in Requests /\ rowLock[r] = p
         /\ job[p].to \in {"Approved", "Completed"} /\ Legal(r, job[p].to)
         /\ status' = [status EXCEPT ![r] = job[p].to]
         /\ UNCHANGED <<inventory, points, verified>>
<1>1. /\ pc[p] = "commit" /\ job[p].to \in {"Approved", "Completed"}
      /\ status' = [status EXCEPT ![r] = job[p].to]
      /\ UNCHANGED <<inventory, points, verified>>
  BY DEF CommitProcess
<1>2. r \in Requests
  BY <1>1, WorkingJob DEF RedemptionInv
<1>3. rowLock[r] = p /\ Legal(r, job[p].to)
  BY <1>1 DEF RedemptionInv, RowHeld
<1> QED BY <1>1, <1>2, <1>3

LEMMA ApproveFacts ==
  ASSUME RedemptionInv, NEW p \in Handlers, UpdateApproved(p), NEW r, r = job[p].req
  PROVE  /\ r \in Requests /\ IsVoucher(r) /\ rowLock[r] = NoProc
         /\ job[p].to = "Approved"
         /\ \/ status' = status
            \/ status[r] = "Pending" /\ status' = [status EXCEPT ![r] = "Approved"]
         /\ UNCHANGED <<inventory, points, verified>>
<1>1. /\ pc[p] = "update" /\ rowLock[r] = NoProc
      /\ status' = IF StillPending(r) THEN [status EXCEPT ![r] = "Approved"] ELSE status
      /\ UNCHANGED <<inventory, points, verified>>
  BY DEF UpdateApproved, LockFree
<1>2. r \in Requests /\ IsVoucher(r) /\ job[p].to = "Approved"
  BY <1>1, WorkingJob DEF RedemptionInv, PlaceOK
<1> QED BY <1>1, <1>2 DEF StillPending

LEMMA CommitEnds ==
  ASSUME NEW p \in Handlers, Commit(p) \/ Refuse(p)
  PROVE  End(p)
BY DEF Commit, CommitRequest, CommitRefund, CommitProcess, UpdateApproved, Refuse

-----------------------------------------------------------------------------
(* The tables, unless it commits, stay; the others' memory and locks too.  *)
LEMMA OthersFacts ==
  ASSUME TypeOK, PlaceOK, NEW p \in Handlers, Act(p)
  PROVE  /\ Commit(p) \/ UNCHANGED <<status, inventory, points, verified>>
         /\ \A q \in Handlers \ {p} :
              /\ pc'[q] = pc[q] /\ job'[q] = job[q] /\ read'[q] = read[q] /\ copy'[q] = copy[q]
              /\ \A r \in Requests : rowLock[r] = q => rowLock'[r] = q
              /\ \A i \in Items : itemLock[i] = q => itemLock'[i] = q
              /\ \A u \in Users : userLock[u] = q => userLock'[u] = q
<1>1. CASE \E r \in Requests, to \in Statuses, first \in {"row", "item", "buyer", "update"} :
             Begun(p, r, to, first)
  BY <1>1 DEF Begun, Begin, tables, locks, TypeOK
<1>2. CASE Refuse(p) \/ Commit(p)
  <2>1. End(p)
    BY <1>2, CommitEnds
  <2>2. Commit(p) \/ UNCHANGED <<status, inventory, points, verified>>
    BY <1>2 DEF Refuse, tables
  <2> QED BY <2>1, <2>2, EndFacts
<1>3. CASE TookRow(p)
  <2>1. /\ rowLock' = [rowLock EXCEPT ![job[p].req] = p]
        /\ rowLock[job[p].req] = NoProc
        /\ pc' = [pc EXCEPT ![p] = After(job[p].req, job[p].to, "row")]
        /\ UNCHANGED <<status, inventory, points, verified, itemLock, userLock, job, read, copy>>
    BY <1>3 DEF TookRow
  <2>2. \A q \in Handlers \ {p}, r \in Requests : rowLock[r] = q => rowLock'[r] = q
    BY <2>1, ConstantsAssumption DEF TypeOK
  <2> QED BY <2>1, <2>2 DEF TypeOK
<1>4. CASE TookItem(p)
  <2> DEFINE i == ItemOf[job[p].req]
  <2>1. /\ itemLock' = [itemLock EXCEPT ![i] = p]
        /\ itemLock[i] = NoProc
        /\ copy' = [copy EXCEPT ![p] = inventory[i]]
        /\ pc' = [pc EXCEPT ![p] = After(job[p].req, job[p].to, "item")]
        /\ UNCHANGED <<status, inventory, points, verified, rowLock, userLock, job, read>>
    BY <1>4 DEF TookItem
  <2>2. \A q \in Handlers \ {p}, x \in Items : itemLock[x] = q => itemLock'[x] = q
    BY <2>1, ConstantsAssumption DEF TypeOK
  <2> QED BY <2>1, <2>2 DEF TypeOK
<1>5. CASE Checked(p)
  BY <1>5 DEF Checked, TypeOK
<1>6. CASE TookWallet(p)
  <2> DEFINE u == Buyer[job[p].req]
  <2>1. /\ userLock' = [userLock EXCEPT ![u] = p]
        /\ userLock[u] = NoProc
        /\ read' = [read EXCEPT ![p] = points[u]]
        /\ pc' = [pc EXCEPT ![p] = After(job[p].req, job[p].to, "wallet")]
        /\ UNCHANGED <<status, inventory, points, verified, rowLock, itemLock, job, copy>>
    BY <1>6 DEF TookWallet
  <2>2. \A q \in Handlers \ {p}, x \in Users : userLock[x] = q => userLock'[x] = q
    BY <2>1, ConstantsAssumption DEF TypeOK
  <2> QED BY <2>1, <2>2 DEF TypeOK
<1> QED BY <1>1, <1>2, <1>3, <1>4, <1>5, <1>6, ActCases

(* A commit keeps the types: no wallet and no shelf below zero. *)
LEMMA CommitTypes ==
  ASSUME RedemptionInv, NEW p \in Handlers, Commit(p)
  PROVE  /\ status' \in [Requests -> Statuses \cup {"None"}]
         /\ inventory' \in [Items -> Nat \cup {Unlimited}]
         /\ points' \in [Users -> Nat]
         /\ verified' = verified
<1>0. /\ status \in [Requests -> Statuses \cup {"None"}]
      /\ inventory \in [Items -> Nat \cup {Unlimited}]
      /\ points \in [Users -> Nat]
  BY DEF RedemptionInv, TypeOK
<1> DEFINE r == job[p].req
           i == ItemOf[r]
           u == Buyer[r]
<1>1. CASE CommitRequest(p)
  <2>1. /\ r \in Requests /\ i \in Items /\ u \in Users
        /\ inventory[i] # 0 /\ points[u] >= Cost[i]
        /\ status' = [status EXCEPT ![r] = "Pending"]
        /\ points' = [points EXCEPT ![u] = points[u] - Cost[i]]
        /\ inventory' = Piece(i, -1)
        /\ verified' = verified
    BY <1>1, RequestFacts
  <2>2. Cost[i] \in Nat
    BY <2>1, ConstantsAssumption
  <2> HIDE DEF r, i, u
  <2>3. points' \in [Users -> Nat]
    BY <1>0, <2>1, <2>2
  <2>4. inventory' \in [Items -> Nat \cup {Unlimited}]
    BY <1>0, <2>1 DEF Piece
  <2> QED BY <1>0, <2>1, <2>3, <2>4 DEF Statuses
<1>2. CASE CommitRefund(p)
  <2>1. /\ r \in Requests /\ i \in Items /\ u \in Users
        /\ status' = [status EXCEPT ![r] = "Rejected"]
        /\ points' = [points EXCEPT ![u] = points[u] + Cost[i]]
        /\ inventory' = Piece(i, 1)
        /\ verified' = verified
    BY <1>2, RefundFacts
  <2>2. Cost[i] \in Nat
    BY <2>1, ConstantsAssumption
  <2> HIDE DEF r, i, u
  <2>3. points' \in [Users -> Nat]
    BY <1>0, <2>1, <2>2
  <2>4. inventory' \in [Items -> Nat \cup {Unlimited}]
    BY <1>0, <2>1 DEF Piece
  <2> QED BY <1>0, <2>1, <2>3, <2>4 DEF Statuses
<1>3. CASE CommitProcess(p)
  BY <1>0, <1>3, ProcessFacts DEF Statuses
<1>4. CASE UpdateApproved(p)
  BY <1>0, <1>4, ApproveFacts DEF Statuses
<1> QED BY <1>1, <1>2, <1>3, <1>4 DEF Commit

LEMMA TypeStep ==
  ASSUME RedemptionInv, NEW p \in Handlers, Act(p)
  PROVE  TypeOK'
<1>0. TypeOK /\ PlaceOK
  BY DEF RedemptionInv
<1>1. CASE \E r \in Requests, to \in Statuses, first \in {"row", "item", "buyer", "update"} :
             Begun(p, r, to, first)
  <2> PICK r \in Requests, to \in Statuses, first \in {"row", "item", "buyer", "update"} :
             Begun(p, r, to, first)
    BY <1>1
  <2>1. /\ pc' = [pc EXCEPT ![p] = first]
        /\ job' = [job EXCEPT ![p] = [req |-> r, to |-> to]]
        /\ UNCHANGED <<status, inventory, points, verified, rowLock, itemLock, userLock, read, copy>>
    BY DEF Begun, Begin, tables, locks
  <2>2. [req |-> r, to |-> to] \in Job
    BY DEF Job
  <2> QED BY <1>0, <2>1, <2>2 DEF TypeOK
<1>2. CASE Refuse(p)
  <2>1. End(p) /\ UNCHANGED <<status, inventory, points, verified>>
    BY <1>2 DEF Refuse, tables
  <2> QED BY <1>0, <2>1, EndFacts DEF TypeOK, Places
<1>3. CASE Commit(p)
  <2>1. End(p)
    BY <1>3, CommitEnds
  <2> QED BY <1>0, <1>3, <2>1, EndFacts, CommitTypes DEF TypeOK, Places
<1>4. CASE TookRow(p)
  <2>1. pc[p] = "row" /\ job[p].req \in Requests /\ job[p].to \in Statuses \ {"Pending"}
    BY <1>0, <1>4, WorkingJob DEF TookRow, PlaceOK
  <2>2. After(job[p].req, job[p].to, "row") \in {"wallet", "item", "commit"}
    BY <2>1, AfterFacts
  <2> QED BY <1>0, <1>4, <2>1, <2>2 DEF TypeOK, TookRow
<1>5. CASE TookItem(p)
  <2>1. pc[p] = "item" /\ ItemOf[job[p].req] \in Items /\ job[p].to \in {"Pending", "Rejected"}
    BY <1>0, <1>5, WorkingJob DEF TookItem, PlaceOK
  <2>2. After(job[p].req, job[p].to, "item") \in {"wallet", "buyer"}
    BY <2>1, AfterFacts DEF Statuses
  <2>3. inventory[ItemOf[job[p].req]] \in Nat \cup {Unlimited}
    BY <1>0, <2>1 DEF TypeOK
  <2> QED BY <1>0, <1>5, <2>1, <2>2, <2>3 DEF TypeOK, TookItem
<1>6. CASE Checked(p)
  BY <1>0, <1>6 DEF TypeOK, Checked
<1>7. CASE TookWallet(p)
  <2>1. pc[p] = "wallet" /\ Buyer[job[p].req] \in Users /\ job[p].to \in Statuses
    BY <1>0, <1>7, WorkingJob DEF TookWallet
  <2>2. After(job[p].req, job[p].to, "wallet") = "commit"
    BY <2>1, AfterFacts
  <2>3. points[Buyer[job[p].req]] \in Nat
    BY <1>0, <2>1 DEF TypeOK
  <2> QED BY <1>0, <1>7, <2>1, <2>2, <2>3 DEF TypeOK, TookWallet
<1> QED BY <1>1, <1>2, <1>3, <1>4, <1>5, <1>6, <1>7, ActCases

(* A handler that is not at its end has begun or taken one step forward.   *)
LEMMA OwnCases ==
  ASSUME TypeOK, NEW p \in Handlers, Act(p), pc'[p] # "idle"
  PROVE  /\ \/ \E r \in Requests, to \in Statuses, first \in {"row", "item", "buyer", "update"} :
                 Begun(p, r, to, first)
            \/ TookRow(p) \/ TookItem(p) \/ Checked(p) \/ TookWallet(p)
         /\ ~Commit(p)
<1>1. ~Commit(p) /\ ~Refuse(p)
  BY CommitEnds, EndFacts
<1> QED BY <1>1, ActCases

(* A new handler is where Begun says, and nothing else has changed. *)
LEMMA BegunFacts ==
  ASSUME TypeOK, NEW p \in Handlers, NEW r \in Requests, NEW to \in Statuses,
         NEW first \in {"row", "item", "buyer", "update"}, Begun(p, r, to, first)
  PROVE  /\ pc[p] = "idle" /\ pc'[p] = first
         /\ job'[p] = [req |-> r, to |-> to] /\ job'[p].req = r /\ job'[p].to = to
         /\ status' = status
<1>1. /\ pc[p] = "idle"
      /\ pc' = [pc EXCEPT ![p] = first]
      /\ job' = [job EXCEPT ![p] = [req |-> r, to |-> to]]
      /\ status' = status
  BY DEF Begun, Begin, tables
<1>2. job'[p] = [req |-> r, to |-> to] /\ pc'[p] = first
  BY <1>1 DEF TypeOK
<1> QED BY <1>1, <1>2

LEMMA BegunJob ==
  ASSUME TypeOK, NEW p \in Handlers, NEW r \in Requests, NEW to \in Statuses,
         NEW first \in {"row", "item", "buyer", "update"}, Begun(p, r, to, first)
  PROVE  /\ pc[p] = "idle" /\ pc'[p] = first
         /\ job'[p].req = r /\ job'[p].to = to
         /\ status' = status
<1>1. /\ pc[p] = "idle"
      /\ pc' = [pc EXCEPT ![p] = first]
      /\ job' = [job EXCEPT ![p] = [req |-> r, to |-> to]]
      /\ status' = status
  BY DEF Begun, Begin, tables
<1>2. job'[p] = [req |-> r, to |-> to] /\ pc'[p] = first
  BY <1>1 DEF TypeOK
<1>3. job'[p].req = r /\ job'[p].to = to
  BY <1>2
<1> QED BY <1>1, <1>2, <1>3

LEMMA PlaceStep ==
  ASSUME RedemptionInv, NEW p \in Handlers, Act(p)
  PROVE  PlaceOK'
<1>0. TypeOK /\ PlaceOK
  BY DEF RedemptionInv
<1>1. \A q \in Handlers \ {p} : pc'[q] = pc[q] /\ job'[q] = job[q]
  BY <1>0, OthersFacts
<1> SUFFICES
      LET r == job'[p].req
          to == job'[p].to
      IN /\ pc'[p] # "idle" => job'[p] \in Job
         /\ pc'[p] = "row" => to \in Statuses \ {"Pending"}
         /\ pc'[p] = "item" => ~IsVoucher(r) /\ to \in {"Pending", "Rejected"}
         /\ pc'[p] = "buyer" => to = "Pending"
         /\ pc'[p] = "wallet" => to \in {"Pending", "Rejected"}
         /\ pc'[p] = "update" => IsVoucher(r) /\ to = "Approved"
  BY <1>0, <1>1 DEF PlaceOK, IsVoucher
<1>2. CASE pc'[p] = "idle"
  BY <1>2
<1>3. CASE \E r \in Requests, to \in Statuses, first \in {"row", "item", "buyer", "update"} :
             Begun(p, r, to, first)
  <2> PICK r \in Requests, to \in Statuses, first \in {"row", "item", "buyer", "update"} :
             Begun(p, r, to, first)
    BY <1>3
  <2>1. pc'[p] = first /\ job'[p] = [req |-> r, to |-> to] /\ job'[p].req = r /\ job'[p].to = to
    BY <1>0, BegunFacts
  <2>2. job'[p] \in Job
    BY <2>1 DEF Job
  <2>3. \/ to = "Pending" /\ first = IF IsVoucher(r) THEN "buyer" ELSE "item"
        \/ to = "Approved" /\ IsVoucher(r) /\ first = "update"
        \/ to # "Pending" /\ first = "row"
    BY DEF Begun
  <2> QED BY <2>1, <2>2, <2>3
<1>4. CASE TookRow(p)
  <2>1. /\ pc[p] = "row" /\ job'[p] = job[p]
        /\ pc'[p] = After(job[p].req, job[p].to, "row")
    BY <1>0, <1>4 DEF TookRow, TypeOK
  <2>2. job[p] \in Job /\ job[p].to \in Statuses \ {"Pending"}
    BY <1>0, <2>1 DEF PlaceOK
  <2>3. pc'[p] = IF job[p].to = "Rejected"
                   THEN IF IsVoucher(job[p].req) THEN "wallet" ELSE "item"
                   ELSE "commit"
    BY <2>1, <2>2, AfterFacts
  <2> QED BY <2>1, <2>2, <2>3
<1>5. CASE TookItem(p)
  <2>1. /\ pc[p] = "item" /\ job'[p] = job[p]
        /\ pc'[p] = After(job[p].req, job[p].to, "item")
    BY <1>0, <1>5 DEF TookItem, TypeOK
  <2>2. job[p] \in Job /\ job[p].to \in {"Pending", "Rejected"}
    BY <1>0, <2>1 DEF PlaceOK
  <2>3. pc'[p] = IF job[p].to = "Pending" THEN "buyer" ELSE "wallet"
    BY <2>1, <2>2, AfterFacts DEF Statuses
  <2> QED BY <2>1, <2>2, <2>3
<1>6. CASE Checked(p)
  <2>1. pc[p] = "buyer" /\ job'[p] = job[p] /\ pc'[p] = "wallet"
    BY <1>0, <1>6 DEF Checked, TypeOK
  <2>2. job[p] \in Job /\ job[p].to = "Pending"
    BY <1>0, <2>1 DEF PlaceOK
  <2> QED BY <2>1, <2>2
<1>7. CASE TookWallet(p)
  <2>1. /\ pc[p] = "wallet" /\ job'[p] = job[p]
        /\ pc'[p] = After(job[p].req, job[p].to, "wallet")
    BY <1>0, <1>7 DEF TookWallet, TypeOK
  <2>2. job[p] \in Job /\ job[p].to \in Statuses
    BY <1>0, <2>1, WorkingJob
  <2>3. pc'[p] = "commit"
    BY <2>1, <2>2, AfterFacts
  <2> QED BY <2>1, <2>2, <2>3
<1> QED BY <1>0, <1>2, <1>3, <1>4, <1>5, <1>6, <1>7, OwnCases

(* What p commits leaves the requests of the others as they found them. *)
LEMMA StatusFacts ==
  ASSUME RedemptionInv, NEW p \in Handlers, Act(p), NEW q \in Handlers, q # p, pc[q] # "idle"
  PROVE  /\ status[job[q].req] # "None" => status'[job[q].req] # "None"
         /\ job[q].to = "Pending" => status'[job[q].req] = status[job[q].req]
         /\ rowLock[job[q].req] = q => status'[job[q].req] = status[job[q].req]
<1>0. /\ TypeOK /\ PlaceOK /\ Created
      /\ status \in [Requests -> Statuses \cup {"None"}]
  BY DEF RedemptionInv, TypeOK
<1> DEFINE r == job[p].req
           x == job[q].req
<1>x. x \in Requests
  BY <1>0, WorkingJob
<1>1. CASE UNCHANGED <<status, inventory, points, verified>>
  BY <1>1
<1>2. CASE CommitRequest(p)
  <2>1. /\ r \in Requests /\ pc[p] = "commit" /\ job[p].to = "Pending"
        /\ status' = [status EXCEPT ![r] = "Pending"]
    BY <1>2, RequestFacts
  <2>2. x # r
    BY <1>0, <2>1 DEF Created
  <2> HIDE DEF r, x
  <2>3. status'[x] = status[x]
    BY <1>0, <1>x, <2>1, <2>2
  <2> QED BY <2>3 DEF x
<1>3. CASE CommitRefund(p)
  <2>1. /\ r \in Requests /\ pc[p] = "commit" /\ rowLock[r] = p
        /\ status' = [status EXCEPT ![r] = "Rejected"]
    BY <1>3, RefundFacts
  <2>2. job[q].to = "Pending" => x # r
    BY <1>0, <2>1 DEF Created
  <2>3. rowLock[x] = q => x # r
    BY <2>1
  <2> HIDE DEF r, x
  <2>4. x # r => status'[x] = status[x]
    BY <1>0, <1>x, <2>1
  <2>5. x = r => status'[x] = "Rejected"
    BY <1>0, <2>1
  <2> QED BY <2>2, <2>3, <2>4, <2>5 DEF x
<1>4. CASE CommitProcess(p)
  <2>1. /\ r \in Requests /\ pc[p] = "commit" /\ rowLock[r] = p
        /\ job[p].to \in {"Approved", "Completed"}
        /\ status' = [status EXCEPT ![r] = job[p].to]
    BY <1>4, ProcessFacts DEF CommitProcess
  <2>2. job[q].to = "Pending" => x # r
    BY <1>0, <2>1 DEF Created
  <2>3. rowLock[x] = q => x # r
    BY <2>1
  <2> HIDE DEF r, x
  <2>4. x # r => status'[x] = status[x]
    BY <1>0, <1>x, <2>1
  <2>5. x = r => status'[x] \in {"Approved", "Completed"}
    BY <1>0, <2>1
  <2> QED BY <2>2, <2>3, <2>4, <2>5 DEF x
<1>5. CASE UpdateApproved(p)
  <2>1. /\ r \in Requests /\ pc[p] = "update" /\ rowLock[r] = NoProc
        /\ \/ status' = status
           \/ status' = [status EXCEPT ![r] = "Approved"]
    BY <1>5, ApproveFacts DEF UpdateApproved
  <2>2. job[q].to = "Pending" => x # r
    BY <1>0, <2>1 DEF Created
  <2>3. rowLock[x] = q => x # r
    BY <2>1, ConstantsAssumption
  <2> HIDE DEF r, x
  <2>4. x # r => status'[x] = status[x]
    BY <1>0, <1>x, <2>1
  <2>5. x = r => status'[x] \in {status[x], "Approved"}
    BY <1>0, <2>1
  <2> QED BY <2>2, <2>3, <2>4, <2>5 DEF x
<1> QED BY <1>0, <1>1, <1>2, <1>3, <1>4, <1>5, OthersFacts DEF Commit

(* A request that is not stored has one handler, which stores it. *)
LEMMA CreatedStep ==
  ASSUME RedemptionInv, NEW p \in Handlers, Act(p)
  PROVE  Created'
<1>0. TypeOK /\ PlaceOK /\ Created
  BY DEF RedemptionInv
<1>1. \A q \in Handlers \ {p} : pc'[q] = pc[q] /\ job'[q] = job[q]
  BY <1>0, OthersFacts
<1>2. CASE \E r \in Requests, to \in Statuses, first \in {"row", "item", "buyer", "update"} :
             Begun(p, r, to, first)
  <2> PICK r \in Requests, to \in Statuses, first \in {"row", "item", "buyer", "update"} :
             Begun(p, r, to, first)
    BY <1>2
  <2>1. /\ pc[p] = "idle" /\ job'[p].req = r /\ job'[p].to = to /\ status' = status
    BY <1>0, BegunJob
  <2>2. IF to = "Pending"
          THEN status[r] = "None" /\ \A q \in Handlers : pc[q] # "idle" => job[q].req # r
          ELSE status[r] # "None"
    BY DEF Begun, Fresh
  <2> QED BY <1>0, <1>1, <2>1, <2>2 DEF Created
<1>3. CASE /\ pc'[p] # "idle" => pc[p] # "idle" /\ job'[p] = job[p] /\ status' = status
  <2> SUFFICES ASSUME NEW q \in Handlers, pc'[q] # "idle"
      PROVE  IF job'[q].to = "Pending"
               THEN /\ status'[job'[q].req] = "None"
                    /\ \A x \in Handlers :
                         pc'[x] # "idle" /\ job'[x].req = job'[q].req => x = q
               ELSE status'[job'[q].req] # "None"
    BY DEF Created
  <2>1. \A x \in Handlers : pc'[x] # "idle" => pc[x] # "idle" /\ job'[x] = job[x]
    BY <1>1, <1>3
  <2>2. pc[q] # "idle" /\ job'[q] = job[q]
    BY <2>1
  <2>3. /\ job[q].to = "Pending" => status'[job[q].req] = status[job[q].req]
        /\ status[job[q].req] # "None" => status'[job[q].req] # "None"
    <3>1. CASE q = p
      BY <1>3, <3>1
    <3>2. CASE q # p
      BY <2>2, <3>2, StatusFacts
    <3> QED BY <3>1, <3>2
  <2> QED BY <1>0, <2>1, <2>2, <2>3 DEF Created
<1>4. CASE pc'[p] = "idle"
  BY <1>3, <1>4
<1>5. CASE TookRow(p) \/ TookItem(p) \/ Checked(p) \/ TookWallet(p)
  BY <1>3, <1>5 DEF TookRow, TookItem, Checked, TookWallet
<1> QED BY <1>0, <1>2, <1>4, <1>5, OwnCases

(* The row a handler decided on stays as it was. *)
LEMMA RowHeldStep ==
  ASSUME RedemptionInv, NEW p \in Handlers, Act(p)
  PROVE  RowHeld'
<1>0. TypeOK /\ PlaceOK /\ RowHeld
  BY DEF RedemptionInv
<1> SUFFICES ASSUME NEW q \in Handlers,
                    pc'[q] \in {"item", "wallet", "commit"}, job'[q].to # "Pending"
    PROVE  /\ rowLock'[job'[q].req] = q
           /\ Legal(job[q].req, job[q].to)'
  BY DEF RowHeld
<1>1. CASE q # p
  <2>1. pc'[q] = pc[q] /\ job'[q] = job[q]
        /\ \A r \in Requests : rowLock[r] = q => rowLock'[r] = q
    BY <1>0, <1>1, OthersFacts
  <2>2. job[q].req \in Requests /\ rowLock[job[q].req] = q /\ Legal(job[q].req, job[q].to)
    BY <1>0, <2>1, WorkingJob DEF RowHeld
  <2>3. status'[job[q].req] = status[job[q].req]
    BY <1>1, <2>1, <2>2, StatusFacts
  <2> QED BY <2>1, <2>2, <2>3 DEF Legal, IsVoucher
<1>2. CASE q = p
  <2>1. CASE \E r \in Requests, to \in Statuses, first \in {"row", "item", "buyer", "update"} :
               Begun(p, r, to, first)
    <3> PICK r \in Requests, to \in Statuses, first \in {"row", "item", "buyer", "update"} :
               Begun(p, r, to, first)
      BY <2>1
    <3>1. pc'[p] = first /\ job'[p].to = to
      BY <1>0, BegunJob
    <3>2. to # "Pending" => first \in {"row", "update"}
      BY DEF Begun
    <3> QED BY <1>2, <3>1, <3>2
  <2>2. CASE TookRow(p)
    <3>1. /\ pc[p] = "row" /\ job'[p] = job[p] /\ status' = status
          /\ Legal(job[p].req, job[p].to)
          /\ rowLock' = [rowLock EXCEPT ![job[p].req] = p]
      BY <2>2 DEF TookRow
    <3>2. rowLock'[job[p].req] = p
      BY <1>0, <3>1, WorkingJob DEF TypeOK
    <3> QED BY <1>2, <3>1, <3>2 DEF Legal, IsVoucher
  <2>3. CASE TookItem(p) \/ Checked(p) \/ TookWallet(p)
    <3>1. /\ pc[p] \in {"item", "buyer", "wallet"}
          /\ job' = job /\ status' = status /\ rowLock' = rowLock
      BY <2>3 DEF TookItem, Checked, TookWallet
    <3>2. pc[p] \in {"item", "wallet"}
      BY <1>0, <1>2, <3>1 DEF PlaceOK
    <3> QED BY <1>0, <1>2, <3>1, <3>2 DEF RowHeld, Legal, IsVoucher
  <2> QED BY <1>0, <1>2, <2>1, <2>2, <2>3, OwnCases
<1> QED BY <1>1, <1>2

(* So does the item, *)
LEMMA ItemHeldStep ==
  ASSUME RedemptionInv, NEW p \in Handlers, Act(p)
  PROVE  ItemHeld'
<1>0. /\ TypeOK /\ PlaceOK /\ ItemHeld /\ VouchersUnlimited
      /\ inventory \in [Items -> Nat \cup {Unlimited}]
  BY DEF RedemptionInv, TypeOK
<1> SUFFICES ASSUME NEW q \in Handlers, pc'[q] \in {"buyer", "wallet", "commit"},
                    job'[q].to \in {"Pending", "Rejected"}, ~IsVoucher(job'[q].req)
    PROVE  /\ itemLock'[ItemOf[job'[q].req]] = q
           /\ copy'[q] = inventory'[ItemOf[job'[q].req]]
           /\ job'[q].to = "Pending" => copy'[q] # 0
  BY DEF ItemHeld, IsVoucher
<1>1. CASE q # p
  <2> DEFINE i == ItemOf[job[q].req]
  <2>1. pc'[q] = pc[q] /\ job'[q] = job[q] /\ copy'[q] = copy[q]
        /\ \A x \in Items : itemLock[x] = q => itemLock'[x] = q
    BY <1>0, <1>1, OthersFacts
  <2>2. /\ i \in Items /\ itemLock[i] = q /\ copy[q] = inventory[i]
        /\ job[q].to = "Pending" => copy[q] # 0
    BY <1>0, <2>1, WorkingJob DEF ItemHeld
  <2>3. i \notin Vouchers
    BY <2>1 DEF IsVoucher
  <2>4. inventory'[i] = inventory[i]
    <3> DEFINE y == ItemOf[job[p].req]
    <3>1. CASE CommitRequest(p) \/ CommitRefund(p)
      <4>1. /\ y \in Items
            /\ IsVoucher(job[p].req) \/ itemLock[y] = p
            /\ inventory' = Piece(y, -1) \/ inventory' = Piece(y, 1)
        BY <3>1, RequestFacts, RefundFacts
      <4>2. i # y
        BY <1>1, <2>2, <2>3, <4>1 DEF IsVoucher
      <4> HIDE DEF i, y
      <4> QED BY <1>0, <2>2, <4>1, <4>2 DEF Piece
    <3>2. CASE CommitProcess(p) \/ UpdateApproved(p)
      BY <3>2, ProcessFacts, ApproveFacts
    <3> QED BY <1>0, <3>1, <3>2, OthersFacts DEF Commit
  <2> QED BY <2>1, <2>2, <2>4
<1>2. CASE q = p
  <2>1. CASE \E r \in Requests, to \in Statuses, first \in {"row", "item", "buyer", "update"} :
               Begun(p, r, to, first)
    <3> PICK r \in Requests, to \in Statuses, first \in {"row", "item", "buyer", "update"} :
               Begun(p, r, to, first)
      BY <2>1
    <3>1. pc'[p] = first /\ job'[p].req = r
      BY <1>0, BegunJob
    <3>2. first = "buyer" => IsVoucher(r)
      BY DEF Begun
    <3> QED BY <1>2, <3>1, <3>2
  <2>2. CASE TookRow(p)
    <3>1. /\ pc[p] = "row" /\ job'[p] = job[p]
          /\ pc'[p] = After(job[p].req, job[p].to, "row")
      BY <1>0, <2>2 DEF TookRow, TypeOK
    <3>2. job[p].to \in Statuses \ {"Pending"}
      BY <1>0, <3>1 DEF PlaceOK
    <3>3. pc'[p] = IF job[p].to = "Rejected"
                     THEN IF IsVoucher(job[p].req) THEN "wallet" ELSE "item"
                     ELSE "commit"
      BY <3>1, <3>2, AfterFacts
    <3> QED BY <1>2, <3>1, <3>2, <3>3
  <2>3. CASE TookItem(p)
    <3> DEFINE i == ItemOf[job[p].req]
    <3>1. /\ pc[p] = "item" /\ job'[p] = job[p] /\ inventory' = inventory
          /\ job[p].to = "Rejected" \/ inventory[i] # 0
          /\ itemLock' = [itemLock EXCEPT ![i] = p]
          /\ copy' = [copy EXCEPT ![p] = inventory[i]]
      BY <2>3 DEF TookItem
    <3>2. i \in Items
      BY <1>0, <3>1, WorkingJob
    <3>3. itemLock'[i] = p /\ copy'[p] = inventory[i]
      BY <1>0, <3>1, <3>2 DEF TypeOK
    <3> QED BY <1>2, <3>1, <3>3
  <2>4. CASE Checked(p) \/ TookWallet(p)
    <3>1. /\ pc[p] \in {"buyer", "wallet"} /\ job' = job /\ inventory' = inventory
          /\ itemLock' = itemLock /\ copy' = copy
      BY <2>4 DEF Checked, TookWallet
    <3> QED BY <1>0, <1>2, <3>1 DEF ItemHeld
  <2> QED BY <1>0, <1>2, <2>1, <2>2, <2>3, <2>4, OwnCases
<1> QED BY <1>1, <1>2

(* and the wallet. *)
LEMMA WalletHeldStep ==
  ASSUME RedemptionInv, NEW p \in Handlers, Act(p)
  PROVE  WalletHeld'
<1>0. /\ TypeOK /\ PlaceOK /\ WalletHeld
      /\ points \in [Users -> Nat]
  BY DEF RedemptionInv, TypeOK
<1> SUFFICES ASSUME NEW q \in Handlers, pc'[q] = "commit",
                    job'[q].to \in {"Pending", "Rejected"}
    PROVE  /\ userLock'[Buyer[job'[q].req]] = q
           /\ read'[q] = points'[Buyer[job'[q].req]]
           /\ job'[q].to = "Pending" => read'[q] >= Cost[ItemOf[job'[q].req]]
  BY DEF WalletHeld
<1>1. CASE q # p
  <2> DEFINE u == Buyer[job[q].req]
  <2>1. pc'[q] = pc[q] /\ job'[q] = job[q] /\ read'[q] = read[q]
        /\ \A x \in Users : userLock[x] = q => userLock'[x] = q
    BY <1>0, <1>1, OthersFacts
  <2>2. /\ u \in Users /\ userLock[u] = q /\ read[q] = points[u]
        /\ job[q].to = "Pending" => read[q] >= Cost[ItemOf[job[q].req]]
    BY <1>0, <2>1, WorkingJob DEF WalletHeld
  <2>3. points'[u] = points[u]
    <3> DEFINE y == Buyer[job[p].req]
    <3>1. CASE CommitRequest(p) \/ CommitRefund(p)
      <4>1. /\ y \in Users /\ userLock[y] = p
            /\ \/ points' = [points EXCEPT ![y] = points[y] - Cost[ItemOf[job[p].req]]]
               \/ points' = [points EXCEPT ![y] = points[y] + Cost[ItemOf[job[p].req]]]
        BY <3>1, RequestFacts, RefundFacts
      <4>2. u # y
        BY <1>1, <2>2, <4>1
      <4> HIDE DEF u, y
      <4> QED BY <1>0, <2>2, <4>1, <4>2
    <3>2. CASE CommitProcess(p) \/ UpdateApproved(p)
      BY <3>2, ProcessFacts, ApproveFacts
    <3> QED BY <1>0, <3>1, <3>2, OthersFacts DEF Commit
  <2> QED BY <2>1, <2>2, <2>3
<1>2. CASE q = p
  <2>1. CASE \E r \in Requests, to \in Statuses, first \in {"row", "item", "buyer", "update"} :
               Begun(p, r, to, first)
    BY <1>0, <1>2, <2>1, BegunJob
  <2>2. CASE TookRow(p)
    <3>1. /\ pc[p] = "row" /\ job'[p] = job[p]
          /\ pc'[p] = After(job[p].req, job[p].to, "row")
      BY <1>0, <2>2 DEF TookRow, TypeOK
    <3>2. job[p].to \in Statuses \ {"Pending"}
      BY <1>0, <3>1 DEF PlaceOK
    <3>3. pc'[p] = IF job[p].to = "Rejected"
                     THEN IF IsVoucher(job[p].req) THEN "wallet" ELSE "item"
                     ELSE "commit"
      BY <3>1, <3>2, AfterFacts
    <3> QED BY <1>2, <3>1, <3>2, <3>3
  <2>3. CASE TookItem(p)
    <3>1. /\ pc[p] = "item"
          /\ pc'[p] = After(job[p].req, job[p].to, "item")
      BY <1>0, <2>3 DEF TookItem, TypeOK
    <3>2. job[p].to \in {"Pending", "Rejected"}
      BY <1>0, <3>1 DEF PlaceOK
    <3>3. pc'[p] \in {"buyer", "wallet"}
      BY <3>1, <3>2, AfterFacts DEF Statuses
    <3> QED BY <1>2, <3>3
  <2>4. CASE Checked(p)
    BY <1>0, <1>2, <2>4 DEF Checked, TypeOK
  <2>5. CASE TookWallet(p)
    <3> DEFINE u == Buyer[job[p].req]
    <3>1. /\ pc[p] = "wallet" /\ job'[p] = job[p] /\ points' = points
          /\ job[p].to = "Rejected" \/ points[u] >= Cost[ItemOf[job[p].req]]
          /\ userLock' = [userLock EXCEPT ![u] = p]
          /\ read' = [read EXCEPT ![p] = points[u]]
      BY <2>5 DEF TookWallet
    <3>2. u \in Users
      BY <1>0, <3>1, WorkingJob
    <3>3. userLock'[u] = p /\ read'[p] = points[u]
      BY <1>0, <3>1, <3>2 DEF TypeOK
    <3> QED BY <1>2, <3>1, <3>3
  <2> QED BY <1>0, <1>2, <2>1, <2>2, <2>3, <2>4, <2>5, OwnCases
<1> QED BY <1>1, <1>2

(* Verified is for good. *)
LEMMA BuyersStep ==
  ASSUME RedemptionInv, NEW p \in Handlers, Act(p)
  PROVE  BuyersVerified'
<1>0. TypeOK /\ PlaceOK /\ BuyersVerified
  BY DEF RedemptionInv
<1>1. verified' = verified
  BY <1>0, OthersFacts, CommitTypes
<1> SUFFICES ASSUME NEW q \in Handlers,
                    pc'[q] \in {"wallet", "commit"}, job'[q].to = "Pending"
    PROVE  Buyer[job'[q].req] \in verified
  BY <1>1 DEF BuyersVerified
<1>2. CASE q # p
  BY <1>0, <1>2, OthersFacts DEF BuyersVerified
<1>3. CASE q = p
  <2>1. CASE \E r \in Requests, to \in Statuses, first \in {"row", "item", "buyer", "update"} :
               Begun(p, r, to, first)
    BY <1>0, <1>3, <2>1, BegunJob
  <2>2. CASE TookRow(p)
    BY <1>0, <1>3, <2>2 DEF TookRow, PlaceOK
  <2>3. CASE TookItem(p)
    <3>1. /\ pc[p] = "item" /\ job'[p] = job[p]
          /\ pc'[p] = After(job[p].req, job[p].to, "item")
      BY <1>0, <2>3 DEF TookItem, TypeOK
    <3>2. pc'[p] = "buyer"
      BY <1>3, <3>1, AfterFacts DEF Statuses
    <3> QED BY <1>3, <3>2
  <2>4. CASE Checked(p)
    BY <1>3, <2>4 DEF Checked
  <2>5. CASE TookWallet(p)
    BY <1>0, <1>3, <2>5 DEF TookWallet, BuyersVerified
  <2> QED BY <1>0, <1>3, <2>1, <2>2, <2>3, <2>4, <2>5, OwnCases
<1> QED BY <1>2, <1>3

LEMMA VouchersStep ==
  ASSUME RedemptionInv, NEW p \in Handlers, Act(p)
  PROVE  VouchersUnlimited'
<1>0. /\ TypeOK /\ PlaceOK /\ VouchersUnlimited
      /\ inventory \in [Items -> Nat \cup {Unlimited}]
  BY DEF RedemptionInv, TypeOK
<1> DEFINE y == ItemOf[job[p].req]
<1>1. CASE CommitRequest(p) \/ CommitRefund(p)
  <2>1. y \in Items /\ (inventory' = Piece(y, -1) \/ inventory' = Piece(y, 1))
    BY <1>1, RequestFacts, RefundFacts
  <2> HIDE DEF y
  <2>2. \A i \in Items : inventory[i] = Unlimited => inventory'[i] = Unlimited
    BY <1>0, <2>1 DEF Piece
  <2> QED BY <1>0, <2>2, ConstantsAssumption DEF VouchersUnlimited
<1>2. CASE CommitProcess(p) \/ UpdateApproved(p)
  BY <1>0, <1>2, ProcessFacts, ApproveFacts DEF VouchersUnlimited
<1>3. CASE UNCHANGED <<status, inventory, points, verified>>
  BY <1>0, <1>3 DEF VouchersUnlimited
<1> QED BY <1>0, <1>1, <1>2, <1>3, OthersFacts DEF Commit

(* The others come by no lock, and p holds its own where it may. *)
LEMMA LocksStep ==
  ASSUME RedemptionInv, NEW p \in Handlers, Act(p)
  PROVE  LocksOK'
<1>0. TypeOK /\ PlaceOK /\ LocksOK /\ LocksOf(p)
  BY DEF RedemptionInv, LocksOK
<1>1. \A q \in Handlers \ {p} : pc'[q] = pc[q] /\ job'[q] = job[q]
  BY <1>0, OthersFacts
<1>2. ASSUME LocksOf(p)',
             \A q \in Handlers \ {p} :
               /\ \A r \in Requests : rowLock'[r] = q => rowLock[r] = q
               /\ \A i \in Items : itemLock'[i] = q => itemLock[i] = q
               /\ \A u \in Users : userLock'[u] = q => userLock[u] = q
      PROVE  LocksOK'
  <2> SUFFICES ASSUME NEW q \in Handlers, q # p
               PROVE  LocksOf(q)'
    BY <1>2 DEF LocksOK
  <2>1. LocksOf(q) /\ pc'[q] = pc[q] /\ job'[q] = job[q]
    BY <1>0, <1>1 DEF LocksOK
  <2> QED BY <1>2, <2>1 DEF LocksOf
<1>3. CASE \E r \in Requests, to \in Statuses, first \in {"row", "item", "buyer", "update"} :
             Begun(p, r, to, first)
  <2>1. pc[p] = "idle" /\ rowLock' = rowLock /\ itemLock' = itemLock /\ userLock' = userLock
    BY <1>3 DEF Begun, Begin, locks
  <2>2. LocksOf(p)'
    BY <1>0, <2>1 DEF LocksOf
  <2> QED BY <1>2, <2>1, <2>2
<1>4. CASE Refuse(p) \/ Commit(p)
  <2>1. /\ rowLock' = [r \in Requests |-> IF rowLock[r] = p THEN NoProc ELSE rowLock[r]]
        /\ itemLock' = [i \in Items |-> IF itemLock[i] = p THEN NoProc ELSE itemLock[i]]
        /\ userLock' = [u \in Users |-> IF userLock[u] = p THEN NoProc ELSE userLock[u]]
    BY <1>4, CommitEnds DEF End
  <2>2. LocksOf(p)'
    BY <2>1, ConstantsAssumption DEF LocksOf
  <2> QED BY <1>2, <2>1, <2>2, ConstantsAssumption
<1>5. CASE TookRow(p)
  <2>1. /\ pc[p] = "row" /\ rowLock' = [rowLock EXCEPT ![job[p].req] = p]
        /\ pc' = [pc EXCEPT ![p] = After(job[p].req, job[p].to, "row")]
        /\ itemLock' = itemLock /\ userLock' = userLock /\ job' = job
    BY <1>5 DEF TookRow
  <2>2. pc'[p] \in {"item", "wallet", "commit"} /\ job[p].to # "Pending"
    BY <1>0, <2>1, WorkingJob, AfterFacts DEF PlaceOK, TypeOK
  <2>3. LocksOf(p)'
    BY <1>0, <2>1, <2>2 DEF LocksOf
  <2>4. \A q \in Handlers \ {p}, r \in Requests : rowLock'[r] = q => rowLock[r] = q
    BY <1>0, <2>1 DEF TypeOK
  <2> QED BY <1>2, <2>1, <2>3, <2>4
<1>6. CASE TookItem(p)
  <2> DEFINE i == ItemOf[job[p].req]
  <2>1. /\ pc[p] = "item" /\ itemLock' = [itemLock EXCEPT ![i] = p]
        /\ pc' = [pc EXCEPT ![p] = After(job[p].req, job[p].to, "item")]
        /\ rowLock' = rowLock /\ userLock' = userLock /\ job' = job
    BY <1>6 DEF TookItem
  <2>2. job[p].to \in {"Pending", "Rejected"}
    BY <1>0, <2>1 DEF PlaceOK
  <2>3. pc'[p] = IF job[p].to = "Rejected" THEN "wallet" ELSE "buyer"
    BY <1>0, <2>1, <2>2, WorkingJob, AfterFacts DEF TypeOK
  <2>4. LocksOf(p)'
    BY <1>0, <2>1, <2>2, <2>3 DEF LocksOf
  <2>5. \A q \in Handlers \ {p}, x \in Items : itemLock'[x] = q => itemLock[x] = q
    BY <1>0, <2>1 DEF TypeOK
  <2> QED BY <1>2, <2>1, <2>4, <2>5
<1>7. CASE Checked(p)
  <2>1. /\ pc[p] = "buyer" /\ pc' = [pc EXCEPT ![p] = "wallet"]
        /\ rowLock' = rowLock /\ itemLock' = itemLock /\ userLock' = userLock /\ job' = job
    BY <1>7 DEF Checked
  <2>2. LocksOf(p)'
    BY <1>0, <2>1 DEF LocksOf, TypeOK
  <2> QED BY <1>2, <2>1, <2>2
<1>8. CASE TookWallet(p)
  <2> DEFINE u == Buyer[job[p].req]
  <2>1. /\ pc[p] = "wallet" /\ userLock' = [userLock EXCEPT ![u] = p]
        /\ pc' = [pc EXCEPT ![p] = After(job[p].req, job[p].to, "wallet")]
        /\ rowLock' = rowLock /\ itemLock' = itemLock /\ job' = job
    BY <1>8 DEF TookWallet
  <2>2. pc'[p] = "commit"
    BY <1>0, <2>1, WorkingJob, AfterFacts DEF TypeOK
  <2>3. LocksOf(p)'
    BY <1>0, <2>1, <2>2 DEF LocksOf
  <2>4. \A q \in Handlers \ {p}, x \in Users : userLock'[x] = q => userLock[x] = q
    BY <1>0, <2>1 DEF TypeOK
  <2> QED BY <1>2, <2>1, <2>3, <2>4
<1> QED BY <1>3, <1>4, <1>5, <1>6, <1>7, <1>8, ActCases

-----------------------------------------------------------------------------
LEMMA RedemptionInvInit ==
  ASSUME Init
  PROVE  RedemptionInv
<1>1. TypeOK
  BY ConstantsAssumption DEF Init, TypeOK, NoJob
<1>2. VouchersUnlimited
  BY ConstantsAssumption DEF Init, VouchersUnlimited
<1>3. \A p \in Handlers : pc[p] = "idle"
  BY DEF Init
<1>4. PlaceOK /\ Created /\ RowHeld /\ ItemHeld /\ WalletHeld /\ BuyersVerified
  BY <1>3 DEF PlaceOK, Created, RowHeld, ItemHeld, WalletHeld, BuyersVerified
<1>5. LocksOK
  BY ConstantsAssumption DEF Init, LocksOK, LocksOf
<1> QED BY <1>1, <1>2, <1>4, <1>5 DEF RedemptionInv

(* Nobody minds a buyer who is verified now and was not when they asked.   *)
LEMMA QuietStep ==
  ASSUME RedemptionInv, verified' \subseteq Users, verified \subseteq verified',
         UNCHANGED <<status, inventory, points, rowLock, itemLock, userLock, pc, job, read, copy>>
  PROVE  RedemptionInv'
<1>1. TypeOK' /\ PlaceOK' /\ Created' /\ VouchersUnlimited'
  BY DEF RedemptionInv, TypeOK, PlaceOK, Created, VouchersUnlimited, IsVoucher
<1>2. RowHeld'
  BY DEF RedemptionInv, RowHeld, Legal, IsVoucher
<1>3. ItemHeld' /\ WalletHeld'
  BY DEF RedemptionInv, ItemHeld, WalletHeld, IsVoucher
<1>4. BuyersVerified' /\ LocksOK'
  BY DEF RedemptionInv, BuyersVerified, LocksOK, LocksOf
<1> QED BY <1>1, <1>2, <1>3, <1>4 DEF RedemptionInv

LEMMA RedemptionInvStep ==
  ASSUME RedemptionInv, [Next]_vars
  PROVE  RedemptionInv'
<1>1. CASE UNCHANGED vars
  BY <1>1, QuietStep DEF vars, tables, locks, memory, RedemptionInv, TypeOK
<1>2. CASE \E u \in Users : PassKyc(u)
  <2> PICK u \in Users : PassKyc(u)
    BY <1>2
  <2>1. /\ verified' = verified \cup {u}
        /\ UNCHANGED <<status, inventory, points, rowLock, itemLock, userLock,
                       pc, job, read, copy>>
    BY DEF PassKyc, locks, memory
  <2>2. verified \subseteq Users
    BY DEF RedemptionInv, TypeOK
  <2> QED BY <2>1, <2>2, QuietStep
<1>3. CASE \E p \in Handlers : Act(p)
  <2> PICK p \in Handlers : Act(p)
    BY <1>3
  <2> QED BY TypeStep, PlaceStep, CreatedStep, RowHeldStep, ItemHeldStep, WalletHeldStep,
             BuyersStep, VouchersStep, LocksStep DEF RedemptionInv
<1> QED BY <1>1, <1>2, <1>3, StepCases

(* What a handler of a redemption read under its locks, the row's status,  *)
(* the item's stock and the buyer's coins, is still so when it commits,    *)
(* however many users and admins are at it.                                *)
THEOREM RedemptionInvHolds == Spec => []RedemptionInv
<1>1. Init => RedemptionInv
  BY RedemptionInvInit
<1>2. RedemptionInv /\ [Next]_vars => RedemptionInv'
  BY RedemptionInvStep
<1> QED BY <1>1, <1>2, PTL DEF Spec

-----------------------------------------------------------------------------
(* Nobody waits for ever *)

(* A holder is past the lock it is waited for with: the only lock still to *)
(* come is one further on, the wallet the last.                            *)
LEMMA WaitsFacts ==
  ASSUME RedemptionInv, NEW p \in Handlers, NEW q \in Handlers, WaitsFor(p, q)
  PROVE  /\ pc[q] \in {"item", "buyer", "wallet", "commit"}
         /\ pc[p] = "item" => pc[q] # "item"
         /\ pc[p] = "wallet" => pc[q] = "commit"
         /\ pc[p] \in {"row", "update", "item", "wallet"}
<1>1. PlaceOK /\ LocksOf(q)
  BY DEF RedemptionInv, LocksOK
<1>2. pc[p] # "idle"
  BY DEF WaitsFor
<1>3. job[p].req \in Requests /\ ItemOf[job[p].req] \in Items /\ Buyer[job[p].req] \in Users
  BY <1>1, <1>2, WorkingJob
<1> QED BY <1>1, <1>3 DEF WaitsFor, LocksOf

LEMMA NoCircle ==
  ASSUME RedemptionInv, NEW S \in SUBSET Handlers, Circle(S)
  PROVE  FALSE
<1>1. \A p \in S : \E q \in S : WaitsFor(p, q)
  BY DEF Circle
<1>2. \A p \in S : pc[p] \in {"row", "update", "item", "wallet"}
  BY <1>1, WaitsFacts
<1>3. \A p \in S : pc[p] # "wallet"
  BY <1>1, <1>2, WaitsFacts
<1>4. \A p \in S : pc[p] # "item"
  BY <1>1, <1>2, <1>3, WaitsFacts
<1>5. PICK p \in S : TRUE
  BY DEF Circle
<1>6. PICK q \in S : WaitsFor(p, q)
  BY <1>1
<1> QED BY <1>2, <1>3, <1>4, <1>6, WaitsFacts

(* The request, then the item, then the wallet: buyers, the admins of      *)
(* queue_controller.go and those of reward_controller.go do not lock each  *)
(* other out, however many there are.                                      *)
THEOREM RedemptionsHold == Spec => []RedemptionsSafe
<1>1. RedemptionInv => RedemptionsSafe
  <2> SUFFICES ASSUME RedemptionInv
               PROVE  NobodyStuck
    BY DEF RedemptionsSafe
  <2>1. \A p, q \in Handlers : WaitsFor(p, q) => pc[q] # "idle"
    BY WaitsFacts
  <2>2. \A S \in SUBSET Handlers : ~Circle(S)
    BY NoCircle
  <2> QED BY <2>1, <2>2 DEF NobodyStuck
<1> QED BY <1>1, RedemptionInvHolds, PTL

-----------------------------------------------------------------------------
LEMMA OutcomeFacts ==
  ASSUME NEW r, NEW s
  PROVE  /\ s = "None" => Outcome(r, s) = "none"
         /\ s = "Rejected" => Outcome(r, s) = "refunded"
         /\ s = "Pending" => Outcome(r, s) = "open"
         /\ s = "Approved" => Outcome(r, s) = IF IsVoucher(r) THEN "delivered" ELSE "open"
         /\ s = "Completed" /\ ~IsVoucher(r) => Outcome(r, s) = "delivered"
<1>1. s = "None" => Outcome(r, s) = "none"
  BY DEF Outcome
<1>2. s = "Rejected" => Outcome(r, s) = "refunded"
  BY DEF Outcome
<1>3. s = "Pending" => Outcome(r, s) = "open"
  BY DEF Outcome
<1>4. s = "Approved" => Outcome(r, s) = IF IsVoucher(r) THEN "delivered" ELSE "open"
  BY DEF Outcome
<1>5. s = "Completed" /\ ~IsVoucher(r) => Outcome(r, s) = "delivered"
  BY DEF Outcome
<1> QED BY <1>1, <1>2, <1>3, <1>4, <1>5

(* A request that stays open or is delivered. *)
LEMMA Delivery ==
  ASSUME NEW r \in Requests,
         LET out == [x \in Requests |-> Outcome(x, status[x])]
         IN /\ out[r] = "open"
            /\ \E s \in {"open", "delivered"} :
                 [x \in Requests |-> Outcome(x, status'[x])] = [out EXCEPT ![r] = s],
         UNCHANGED <<inventory, points, verified>>
  PROVE  [Promise!FulfilmentNext]_(Promise!fulfilmentVars)
<1> DEFINE out == [x \in Requests |-> Outcome(x, status[x])]
           new == [x \in Requests |-> Outcome(x, status'[x])]
<1>1. out[r] = "open" /\ (new = [out EXCEPT ![r] = "open"] \/ new = [out EXCEPT ![r] = "delivered"])
  OBVIOUS
<1>2. CASE new = [out EXCEPT ![r] = "open"]
  <2>1. new = out
    BY <1>1, <1>2
  <2> QED BY <2>1 DEF Promise!fulfilmentVars
<1>3. CASE new = [out EXCEPT ![r] = "delivered"]
  <2>1. Promise!Deliver(r)
    BY <1>1, <1>3 DEF Promise!Deliver
  <2> QED BY <2>1 DEF Promise!FulfilmentNext
<1> QED BY <1>1, <1>2, <1>3

(* Under the mapping the commit of a request takes the coins and the       *)
(* piece, the commit of a refund gives them back, an approval or a         *)
(* completion delivers or changes nothing, and all else changes nothing.   *)
LEMMA StepRefines ==
  RedemptionInv /\ [Next]_vars => [Promise!FulfilmentNext]_(Promise!fulfilmentVars)
<1> SUFFICES ASSUME RedemptionInv, [Next]_vars
    PROVE  [Promise!FulfilmentNext]_(Promise!fulfilmentVars)
  OBVIOUS
<1>0. /\ TypeOK /\ PlaceOK
      /\ status \in [Requests -> Statuses \cup {"None"}]
  BY DEF RedemptionInv, TypeOK
<1> DEFINE out == [r \in Requests |-> Outcome(r, status[r])]
<1>1. CASE UNCHANGED <<status, inventory, points, verified>>
  BY <1>1 DEF Promise!fulfilmentVars
<1>2. CASE UNCHANGED vars
  BY <1>1, <1>2 DEF vars, tables
<1>3. CASE \E u \in Users : PassKyc(u)
  <2> PICK u \in Users : PassKyc(u)
    BY <1>3
  <2>1. verified' = verified \cup {u} /\ UNCHANGED <<status, inventory, points>>
    BY DEF PassKyc
  <2>2. out' = out
    BY <2>1
  <2>3. Promise!Identify(u)
    BY <2>1, <2>2 DEF Promise!Identify
  <2> QED BY <2>3 DEF Promise!FulfilmentNext
<1>4. ASSUME NEW r \in Requests, NEW s \in Statuses, status' = [status EXCEPT ![r] = s]
      PROVE  out' = [out EXCEPT ![r] = Outcome(r, s)]
  BY <1>0, <1>4
<1>5. CASE \E p \in Handlers : Act(p)
  <2> PICK p \in Handlers : Act(p)
    BY <1>5
  <2>1. PICK r : r = job[p].req
    OBVIOUS
  <2>2. PICK i : i = ItemOf[r]
    OBVIOUS
  <2>3. PICK u : u = Buyer[r]
    OBVIOUS
  <2>4. CASE CommitRequest(p)
    <3>1. /\ r \in Requests /\ i \in Items /\ u \in Users /\ u \in verified
          /\ status[r] = "None" /\ inventory[i] # 0 /\ points[u] >= Cost[i]
          /\ status' = [status EXCEPT ![r] = "Pending"]
          /\ points' = [points EXCEPT ![u] = points[u] - Cost[i]]
          /\ inventory' = Piece(i, -1)
          /\ verified' = verified
      BY <2>1, <2>2, <2>3, <2>4, RequestFacts
    <3>2. out[r] = "none" /\ out' = [out EXCEPT ![r] = "open"]
      <4>1. Outcome(r, status[r]) = "none" /\ Outcome(r, "Pending") = "open"
        BY <3>1, OutcomeFacts
      <4>2. out' = [out EXCEPT ![r] = Outcome(r, "Pending")]
        BY <1>4, <3>1 DEF Statuses
      <4> QED BY <3>1, <4>1, <4>2
    <3>3. inventory' = Promise!Moved(i, -1)
      BY <3>1 DEF Piece, Promise!Moved, Unlimited
    <3> HIDE DEF out
    <3>4. Promise!Ask(r)
      BY <2>2, <2>3, <3>1, <3>2, <3>3 DEF Promise!Ask, out
    <3> QED BY <3>1, <3>4 DEF Promise!FulfilmentNext
  <2>5. CASE CommitRefund(p)
    <3>1. /\ r \in Requests /\ i \in Items /\ u \in Users
          /\ status[r] \in {"Pending", "Approved"}
          /\ IsVoucher(r) => status[r] = "Pending"
          /\ status' = [status EXCEPT ![r] = "Rejected"]
          /\ points' = [points EXCEPT ![u] = points[u] + Cost[i]]
          /\ inventory' = Piece(i, 1)
          /\ verified' = verified
      BY <2>1, <2>2, <2>3, <2>5, RefundFacts
    <3>2. out[r] = "open" /\ out' = [out EXCEPT ![r] = "refunded"]
      <4>1. Outcome(r, status[r]) = "open" /\ Outcome(r, "Rejected") = "refunded"
        BY <3>1, OutcomeFacts
      <4>2. out' = [out EXCEPT ![r] = Outcome(r, "Rejected")]
        BY <1>4, <3>1 DEF Statuses
      <4> QED BY <3>1, <4>1, <4>2
    <3>3. inventory' = Promise!Moved(i, 1)
      BY <3>1 DEF Piece, Promise!Moved, Unlimited
    <3> HIDE DEF out
    <3>4. Promise!Refund(r)
      BY <2>2, <2>3, <3>1, <3>2, <3>3 DEF Promise!Refund, out
    <3> QED BY <3>1, <3>4 DEF Promise!FulfilmentNext
  <2>6. CASE CommitProcess(p)
    <3>1. /\ r \in Requests
          /\ job[p].to \in {"Approved", "Completed"} /\ Legal(r, job[p].to)
          /\ status' = [status EXCEPT ![r] = job[p].to]
          /\ UNCHANGED <<inventory, points, verified>>
      BY <2>1, <2>6, ProcessFacts
    <3>2. out' = [out EXCEPT ![r] = Outcome(r, job[p].to)]
      BY <1>4, <3>1 DEF Statuses
    <3>3. out[r] = "open" /\ Outcome(r, job[p].to) \in {"open", "delivered"}
      BY <3>1, OutcomeFacts DEF Legal
    <3> QED BY <3>1, <3>2, <3>3, Delivery
  <2>7. CASE UpdateApproved(p)
    <3>1. /\ r \in Requests /\ IsVoucher(r)
          /\ \/ status' = status
             \/ status[r] = "Pending" /\ status' = [status EXCEPT ![r] = "Approved"]
          /\ UNCHANGED <<inventory, points, verified>>
      BY <2>1, <2>7, ApproveFacts
    <3>2. CASE status' = status
      BY <1>1, <3>1, <3>2
    <3>3. CASE status[r] = "Pending" /\ status' = [status EXCEPT ![r] = "Approved"]
      <4>1. out' = [out EXCEPT ![r] = Outcome(r, "Approved")]
        BY <1>4, <3>1, <3>3 DEF Statuses
      <4>2. out[r] = "open" /\ Outcome(r, "Approved") = "delivered"
        BY <3>1, <3>3, OutcomeFacts
      <4> QED BY <3>1, <4>1, <4>2, Delivery
    <3> QED BY <3>1, <3>2, <3>3
  <2> QED BY <1>0, <1>1, <2>4, <2>5, <2>6, <2>7, OthersFacts DEF Commit
<1> QED BY <1>2, <1>3, <1>5, StepCases

(* Whatever users and admins do at once, a request is paid for once, by a  *)
(* verified user, and ends delivered or refunded, never both; a refund     *)
(* gives back the coins and the piece, and no piece is sold twice.         *)
THEOREM RedemptionIsFulfilment == Spec => FulfilmentSpec
<1>1. Init => Promise!FulfilmentInit
  <2> SUFFICES ASSUME Init
      PROVE  Promise!FulfilmentInit
    OBVIOUS
  <2>1. \A r \in Requests : Outcome(r, status[r]) = "none"
    BY OutcomeFacts DEF Init
  <2>2. [r \in Requests |-> Outcome(r, status[r])] = [r \in Requests |-> "none"]
    BY <2>1
  <2>3. inventory \in [Items -> Nat \cup {-1}]
    BY ConstantsAssumption DEF Init, Unlimited
  <2> QED BY <2>2, <2>3 DEF Init, Promise!FulfilmentInit
<1>2. RedemptionInv /\ [Next]_vars => [Promise!FulfilmentNext]_(Promise!fulfilmentVars)
  BY StepRefines
<1> QED BY <1>1, <1>2, RedemptionInvHolds, PTL DEF Spec, FulfilmentSpec, Promise!FulfilmentSpec
=============================================================================
