-------------------------- MODULE WalletInvariant --------------------------
(***************************************************************************)
(* The inductive invariant of Wallet, in named parts: where a transaction  *)
(* is and what it works for, which row locks it holds there, and what the  *)
(* locks keep true of the private copies it made of the tables.            *)
(***************************************************************************)
EXTENDS Wallet

(* Where a transaction is tells which call it executes. *)
PlaceOK ==
  \A p \in Procs :
    /\ pc[p] = "idle" => job[p] = NoJob
    /\ pc[p] \in {"idle", "lock", "select"} => cursor[p] = 0
    /\ pc[p] # "idle" => job[p] \in Job
    /\ pc[p] = "lock" => job[p].op \in {"debit", "expire"}
    /\ pc[p] \in {"select", "consume"} => job[p].op = "debit"
    /\ pc[p] = "recheck" => job[p].op = "expire"
    /\ pc[p] = "remind" => job[p].op = "remind"
    /\ pc[p] = "entry" => job[p].op \in {"credit", "debit", "expire"}
    /\ job[p].op \in {"expire", "remind"} => job[p].batch \in DOMAIN batches[job[p].user]

(* An entry about to be written was accepted by addLedgerEntry. *)
Accepted ==
  \A p \in Procs : pc[p] = "commit" /\ job[p].op # "remind" =>
    ~Refused(CreditOf(job[p]), DebitOf(job[p]), seen[p])

(* users.points never leaves the integer type. *)
PointsFit == \A u \in Users : points[u] <= MaxPoints

(* The users row is held from the first locking read to the end. *)
HoldsUser(p) ==
  \/ pc[p] \in {"select", "consume", "recheck"}
  \/ pc[p] = "entry" /\ job[p].op # "credit"
  \/ pc[p] = "commit" /\ job[p].op # "remind"

UserLocked == \A p \in Procs : HoldsUser(p) => userLock[job[p].user] = p

(* Two transactions never hold the same batch row. *)
RowsExclusive ==
  /\ \A p \in Procs : rows[p] # {} => pc[p] \in {"consume", "entry", "commit"}
  /\ \A p, q \in Procs :
       p # q /\ pc[p] # "idle" /\ pc[q] # "idle" /\ job[p].user = job[q].user
         => rows[p] \cap rows[q] = {}

(* The points read under the lock are still the points. *)
SeenIsCurrent ==
  \A p \in Procs : pc[p] = "commit" /\ job[p].op # "remind" =>
    seen[p] = points[job[p].user]

(* A job that writes one batch holds that row; the expiry still takes what *)
(* it read there.                                                          *)
BatchClaimed ==
  \A p \in Procs :
    /\ pc[p] = "commit" /\ job[p].op = "remind" => rows[p] = {job[p].batch}
    /\ pc[p] \in {"entry", "commit"} /\ job[p].op = "expire" =>
         LET b == batches[job[p].user][job[p].batch]
         IN /\ rows[p] = {job[p].batch}
            /\ b.balance = job[p].amount
            /\ b.balance > 0
            /\ b.expires <= now

(* Batches are in order of expiry, none beyond a year from now. *)
BatchesOrdered ==
  \A u \in Users : \A i \in DOMAIN batches[u] :
    /\ batches[u][i].balance <= batches[u][i].amount
    /\ batches[u][i].expires <= now + Year
    /\ \A k \in DOMAIN batches[u] : i <= k => batches[u][i].expires <= batches[u][k].expires

(* A clock reading is never ahead, and a minted batch expires last. *)
ClockOK ==
  \A p \in Procs :
    /\ clock[p] <= now
    /\ pc[p] = "commit" /\ job[p].op = "credit" =>
         \A i \in DOMAIN batches[job[p].user] :
           batches[job[p].user][i].expires <= clock[p] + Year

(* In the debit loop: the copy differs from the table in the balances the  *)
(* loop has saved; the batches left out of the list are empty or expired;  *)
(* all but the last batch visited are empty, and that one too while coins  *)
(* are still owed.                                                         *)
CopyOK(p) ==
  LET table == batches[job[p].user]
      copy == work[p]
  IN /\ DOMAIN copy = DOMAIN table
     /\ rows[p] \subseteq DOMAIN table
     /\ \A i \in DOMAIN table \ rows[p] : table[i].balance = 0 \/ table[i].expires <= now
     /\ \A i \in rows[p] :
          /\ copy[i].amount = table[i].amount
          /\ copy[i].expires = table[i].expires
          /\ copy[i].reminded = table[i].reminded
          /\ copy[i].balance <= table[i].balance
          /\ i < cursor[p] => copy[i].balance = 0
          /\ i = cursor[p] /\ rem[p] > 0 => copy[i].balance = 0

DebitCopy ==
  \A p \in Procs : job[p].op = "debit" /\ pc[p] \in {"consume", "entry", "commit"} => CopyOK(p)

(* The inductive invariant of the wallet: every lock the code takes is     *)
(* there for one of these facts, and any of them lost is a lost update.    *)
WalletInv ==
  /\ TypeOK /\ PlaceOK /\ Accepted /\ PointsFit
  /\ UserLocked /\ RowsExclusive
  /\ SeenIsCurrent /\ BatchClaimed
  /\ BatchesOrdered /\ ClockOK /\ DebitCopy

(* Nobody keeps a lock: not the users row outside HoldsUser, and a credit  *)
(* has no batch rows.  Inductive beside WalletInv.                         *)
LocksOwned ==
  /\ \A p \in Procs, u \in Users : userLock[u] = p => HoldsUser(p) /\ job[p].user = u
  /\ \A p \in Procs : rows[p] # {} => job[p].op # "credit"

WalletSafe == WalletInv /\ LocksOwned /\ NobodyStuck
-----------------------------------------------------------------------------
(* A debit on its way: what the rows it has saved no longer hold and what  *)
(* it still owes make up its amount, and the batches it has yet to visit   *)
(* hold in the copy what they hold in the table.                           *)
OnTrack(p) ==
  LET u == job[p].user
  IN /\ Coins(Saved(p, u)) + job[p].amount = points[u] + rem[p]
     /\ \A i \in rows[p] : i > cursor[p] => work[p][i].balance = batches[u][i].balance
     /\ pc[p] # "consume" => rem[p] = 0

DebitsOnTrack ==
  \A p \in Procs :
    job[p].op = "debit" /\ pc[p] \in {"consume", "entry", "commit"} => OnTrack(p)

(* What keeps users.points and the coin batches equal: inductive beside    *)
(* WalletInv.                                                              *)
CoinsInv == PointsBackedByBatches /\ DebitsOnTrack
=============================================================================
