------------------------------- MODULE Wallet -------------------------------
(***************************************************************************)
(* The coin wallet: services/wallet_service.go, and the hourly jobs of     *)
(* services/cron.go that touch it.                                         *)
(*                                                                         *)
(* The users, wallet_ledgers, coin_batches and notifications tables are    *)
(* the shared state.  A process is one database transaction of an HTTP     *)
(* request or of a cron worker.  PostgreSQL runs it at READ COMMITTED: the *)
(* rows it writes become visible when it commits, so a transaction is a    *)
(* sequence of steps that lock and read rows, and one last step that       *)
(* writes.  Rolling back (an error, or the process dying) is releasing the *)
(* locks and forgetting the private memory.                                *)
(***************************************************************************)
EXTENDS Integers, Sequences, FiniteSets

CONSTANTS
  Users,        \* user ids
  Clients,      \* transactions opened by HTTP handlers
  Crons,        \* transactions opened by cron workers
  NoProc,       \* "nobody holds this lock"
  Amounts,      \* the amounts handlers credit and debit
  MaxPoints,    \* largest int, int(^uint(0)>>1)
  Year,         \* life of a coin batch
  Notice,       \* how long before expiry a reminder is due (30 days)
  MaxTime,      \* bound: the clock stops there
  MaxLedger,    \* bound: no request is made for a wallet with this many entries
  MaxCrashes    \* bound: transactions that die

Procs == Clients \cup Crons

ASSUME ConstantsAssumption ==
  /\ NoProc \notin Procs
  /\ Clients \cap Crons = {}
  /\ Amounts \subseteq Nat
  /\ MaxPoints \in Nat
  /\ Year \in Nat \ {0}
  /\ Notice \in Nat
  /\ MaxTime \in Nat
  /\ MaxLedger \in Nat
  /\ MaxCrashes \in Nat

VARIABLES
  now,        \* time.Now()
  points,     \* users.points
  ledger,     \* ledger[u]: wallet_ledgers of u in insertion order
  batches,    \* batches[u]: coin_batches of u in order of created_at, id
  notified,   \* keys "expiry:<batch>" in notifications
  userLock,   \* userLock[u]: the transaction holding the users row FOR UPDATE
  pc,         \* pc[p]: the next statement of transaction p
  job,        \* job[p]: the arguments of the call p is executing
  seen,       \* seen[p]: users.points as p read it under the lock
  clock,      \* clock[p]: the last time.Now() of p
  work,       \* work[p]: p's copy of the batches it read
  rem,        \* rem[p]: coins still to take, remainingDebit
  cursor,     \* cursor[p]: the last batch p saved
  rows,       \* rows[p]: the coin_batches rows p holds FOR UPDATE
  crashes     \* transactions that died so far

tables == <<points, ledger, batches, notified>>
memory == <<seen, clock, work, rem, cursor, rows>>
vars == <<now, points, ledger, batches, notified, userLock, pc, job,
          seen, clock, work, rem, cursor, rows, crashes>>

-----------------------------------------------------------------------------
(* Types *)

Batch == [amount: Nat, balance: Nat, expires: Nat, reminded: BOOLEAN]

Entry == [type: {"credit", "debit", "expired"}, credit: Nat, debit: Nat,
          before: Nat, after: Nat, ref: Nat]

Job == [op: {"credit", "debit", "expire", "remind"}, user: Users,
        amount: Nat, batch: Nat]

NoJob == [op |-> "none"]

PCs == {"idle", "lock", "select", "consume", "recheck", "entry", "remind", "commit"}

TypeOK ==
  /\ now \in Nat
  /\ points \in [Users -> Nat]
  /\ ledger \in [Users -> Seq(Entry)]
  /\ batches \in [Users -> Seq(Batch)]
  /\ notified \subseteq Users \X Nat
  /\ userLock \in [Users -> Procs \cup {NoProc}]
  /\ pc \in [Procs -> PCs]
  /\ job \in [Procs -> Job \cup {NoJob}]
  /\ seen \in [Procs -> Nat]
  /\ clock \in [Procs -> Nat]
  /\ work \in [Procs -> Seq(Batch)]
  /\ rem \in [Procs -> Nat]
  /\ cursor \in [Procs -> Nat]
  /\ rows \in [Procs -> SUBSET Nat]
  /\ crashes \in Nat

-----------------------------------------------------------------------------
(* Helpers.  A definition followed by a second form of itself, with a name  *)
(* that says what the code does not do (NewestFirst beside IsNext), is the *)
(* slip the properties are tested against; no action uses it.              *)

(* UPDATE coin_batches SET balance = ..., SET reminder_sent_at = ... *)
WithBalance(b, n) ==
  [amount |-> b.amount, balance |-> n, expires |-> b.expires, reminded |-> b.reminded]

WithReminder(b) ==
  [amount |-> b.amount, balance |-> b.balance, expires |-> b.expires, reminded |-> TRUE]

(* The clause balance > 0 AND expires_at > now of the FIFO query. *)
Spendable(b, time) == b.balance > 0 /\ b.expires > time

(* ExpireCoinBatch goes on only with a batch that is due. *)
DueTooEarly(b, time) == b.balance > 0 /\ b.expires <= time + 1
DueForExpiry(b, time) == b.balance > 0 /\ b.expires <= time

(* SendExpiryReminder goes on only with such a batch. *)
DueForReminder(b, time) ==
  /\ ~b.reminded
  /\ b.balance > 0
  /\ b.expires > time
  /\ b.expires <= time + Notice

(* addLedgerEntry returns an error. *)
RefusedNoOverflow(credit, debit, before) ==
  (credit = 0 /\ debit = 0) \/ before + credit - debit < 0

Refused(credit, debit, before) ==
  \/ credit = 0 /\ debit = 0
  \/ credit > MaxPoints - before
  \/ before + credit - debit < 0

CreditOf(j) == IF j.op = "credit" THEN j.amount ELSE 0
DebitOf(j)  == IF j.op = "credit" THEN 0 ELSE j.amount

(* SELECT ... FOR UPDATE on a users row, on coin_batches rows: the lock is *)
(* granted when no other transaction has it.                               *)
UserFreeIgnored(p, u) == TRUE
UserFreeOutsideTx(p, u) == userLock[u] = NoProc
UserFree(p, u) == userLock[u] \in {NoProc, p}

BatchFreeIgnored(p, u, i) == TRUE
BatchFree(p, u, i) ==
  \A q \in Procs \ {p} : job[q] # NoJob => ~(job[q].user = u /\ i \in rows[q])

(* The batch list the debit loop goes through: every spendable one. *)
Selected(u, time) == {i \in DOMAIN batches[u] : Spendable(batches[u][i], time)}

(* The batches not visited yet, and the one that comes first (FIFO). *)
Unvisited(p) == {i \in rows[p] : i > cursor[p]}
NewestFirst(p, i) == i \in Unvisited(p) /\ \A k \in Unvisited(p) : k <= i
IsNext(p, i) == i \in Unvisited(p) /\ \A k \in Unvisited(p) : i <= k

(* What the loop takes from a batch. *)
TakenUnbounded(balance, owed) == owed
Taken(balance, owed) == IF balance <= owed THEN balance ELSE owed

(* The batch rows after the debit loop's tx.Save calls: a saved row is     *)
(* written whole, from the copy.                                           *)
SavedAllButLast(p, u) ==
  [i \in DOMAIN batches[u] |->
     IF i \in rows[p] /\ i < cursor[p] THEN work[p][i]
                                               ELSE batches[u][i]]
Saved(p, u) ==
  [i \in DOMAIN batches[u] |->
     IF i \in rows[p] /\ i <= cursor[p] THEN work[p][i]
                                                ELSE batches[u][i]]

(* The end of a transaction: locks released, memory gone. *)
End(p) ==
  /\ pc' = [pc EXCEPT ![p] = "idle"]
  /\ job' = [job EXCEPT ![p] = NoJob]
  /\ seen' = [seen EXCEPT ![p] = 0]
  /\ clock' = [clock EXCEPT ![p] = 0]
  /\ work' = [work EXCEPT ![p] = <<>>]
  /\ rem' = [rem EXCEPT ![p] = 0]
  /\ cursor' = [cursor EXCEPT ![p] = 0]
  /\ rows' = [rows EXCEPT ![p] = {}]
  /\ userLock' = [u \in Users |-> IF userLock[u] = p THEN NoProc ELSE userLock[u]]

Rollback(p) == End(p) /\ UNCHANGED tables

(* A transaction begins. *)
Begin(p, j, at) ==
  /\ pc[p] = "idle"
  /\ pc' = [pc EXCEPT ![p] = at]
  /\ job' = [job EXCEPT ![p] = j]
  /\ UNCHANGED <<now, tables, userLock, memory, crashes>>

-----------------------------------------------------------------------------
Init ==
  /\ now = 0
  /\ points = [u \in Users |-> 0]
  /\ ledger = [u \in Users |-> <<>>]
  /\ batches = [u \in Users |-> <<>>]
  /\ notified = {}
  /\ userLock = [u \in Users |-> NoProc]
  /\ pc = [p \in Procs |-> "idle"]
  /\ job = [p \in Procs |-> NoJob]
  /\ seen = [p \in Procs |-> 0]
  /\ clock = [p \in Procs |-> 0]
  /\ work = [p \in Procs |-> <<>>]
  /\ rem = [p \in Procs |-> 0]
  /\ cursor = [p \in Procs |-> 0]
  /\ rows = [p \in Procs |-> {}]
  /\ crashes = 0

(* CreditWalletTx: straight to addLedgerEntry. *)
CreditWallet(p, u, a) ==
  /\ Len(ledger[u]) < MaxLedger
  /\ Begin(p, [op |-> "credit", user |-> u, amount |-> a, batch |-> 0], "entry")

(* DebitWalletTx: refuses a non-positive amount before it reads anything. *)
DebitWallet(p, u, a) ==
  /\ Len(ledger[u]) < MaxLedger
  /\ a > 0
  /\ Begin(p, [op |-> "debit", user |-> u, amount |-> a, batch |-> 0], "lock")

(* processCoinExpiries finds a due batch and calls ExpireCoinBatch, whose  *)
(* first read takes no lock.                                               *)
ScanExpired(p, u, i) ==
  /\ DueForExpiry(batches[u][i], now)
  /\ Begin(p, [op |-> "expire", user |-> u, amount |-> 0, batch |-> i], "lock")

(* sendExpiryReminders finds a batch and calls SendExpiryReminder. *)
ScanReminder(p, u, i) ==
  /\ DueForReminder(batches[u][i], now)
  /\ Begin(p, [op |-> "remind", user |-> u, amount |-> 0, batch |-> i], "remind")

(* LockWalletTx, in DebitWalletTx and in ExpireCoinBatch.  The debit reads *)
(* time.Now() next, for the parameters of its query.                       *)
LockWallet(p) ==
  /\ pc[p] = "lock"
  /\ UserFree(p, job[p].user)
  /\ userLock' = [userLock EXCEPT ![job[p].user] = p]
  /\ clock' = [clock EXCEPT ![p] = now]
  /\ pc' = [pc EXCEPT ![p] = IF job[p].op = "debit" THEN "select" ELSE "recheck"]
  /\ UNCHANGED <<now, tables, job, seen, work, rem, cursor, rows, crashes>>

(* ConsumeCoinBatchesTx: the query, with FOR UPDATE. *)
SelectBatches(p) ==
  LET u == job[p].user
      sel == Selected(u, clock[p])
  IN /\ pc[p] = "select"
     /\ \A i \in sel : BatchFree(p, u, i)
     /\ rows' = [rows EXCEPT ![p] = sel]
     /\ work' = [work EXCEPT ![p] = batches[u]]
     /\ rem' = [rem EXCEPT ![p] = job[p].amount]
     /\ pc' = [pc EXCEPT ![p] = "consume"]
     /\ UNCHANGED <<now, tables, job, userLock, seen, clock, cursor, crashes>>

(* ConsumeCoinBatchesTx: one turn of the loop, tx.Save included. *)
ConsumeBatch(p) ==
  /\ pc[p] = "consume"
  /\ rem[p] > 0
  /\ \E i \in rows[p] :
       LET t == Taken(work[p][i].balance, rem[p])
       IN /\ IsNext(p, i)
          /\ work' = [work EXCEPT ![p][i] = WithBalance(@, @.balance - t)]
          /\ rem' = [rem EXCEPT ![p] = @ - t]
          /\ cursor' = [cursor EXCEPT ![p] = i]
  /\ UNCHANGED <<now, tables, pc, job, userLock, seen, clock, rows, crashes>>

(* The loop is over: on to addLedgerEntry, or insufficient unexpired coins. *)
ConsumeDone(p) ==
  /\ pc[p] = "consume"
  /\ rem[p] = 0
  /\ pc' = [pc EXCEPT ![p] = "entry"]
  /\ UNCHANGED <<now, tables, job, memory, userLock, crashes>>

ConsumeShort(p) ==
  /\ pc[p] = "consume"
  /\ rem[p] > 0
  /\ Unvisited(p) = {}
  /\ Rollback(p)
  /\ UNCHANGED <<now, crashes>>

(* ExpireCoinBatch: the second read, FOR UPDATE, and the check. *)
RecheckBatch(p) ==
  LET u == job[p].user
      i == job[p].batch
  IN /\ pc[p] = "recheck"
     /\ BatchFree(p, u, i)
     /\ IF DueForExpiry(batches[u][i], now)
          THEN /\ rows' = [rows EXCEPT ![p] = {i}]
               /\ job' = [job EXCEPT ![p] = [op |-> "expire", user |-> u, batch |-> i,
                                              amount |-> batches[u][i].balance]]
               /\ pc' = [pc EXCEPT ![p] = "entry"]
               /\ UNCHANGED <<tables, userLock, seen, clock, work, rem, cursor>>
          ELSE Rollback(p)
     /\ UNCHANGED <<now, crashes>>

(* addLedgerEntry up to its first write: lock the user row, read points,   *)
(* check; the batch it mints will carry the time of this moment.           *)
AddLedgerEntry(p) ==
  LET u == job[p].user
  IN /\ pc[p] = "entry"
     /\ UserFree(p, u)
     /\ IF Refused(CreditOf(job[p]), DebitOf(job[p]), points[u])
          THEN Rollback(p)
          ELSE /\ userLock' = [userLock EXCEPT ![u] = p]
               /\ seen' = [seen EXCEPT ![p] = points[u]]
               /\ clock' = [clock EXCEPT ![p] = now]
               /\ pc' = [pc EXCEPT ![p] = "commit"]
               /\ UNCHANGED <<tables, job, work, rem, cursor, rows>>
     /\ UNCHANGED <<now, crashes>>

(* The ledger row of addLedgerEntry, and the points it leaves. *)
After(p) == seen[p] + CreditOf(job[p]) - DebitOf(job[p])

EntryOf(p, type, ref) ==
  [type |-> type, credit |-> CreditOf(job[p]), debit |-> DebitOf(job[p]),
   before |-> seen[p], after |-> After(p), ref |-> ref]

PostEntry(p, type, ref) ==
  /\ ledger' = [ledger EXCEPT ![job[p].user] = Append(@, EntryOf(p, type, ref))]
  /\ points' = [points EXCEPT ![job[p].user] = After(p)]

(* The batch a credit mints. *)
Minted(p) == [amount |-> job[p].amount, balance |-> job[p].amount,
              expires |-> clock[p] + Year, reminded |-> FALSE]

CommitCredit(p) ==
  /\ pc[p] = "commit"
  /\ job[p].op = "credit"
  /\ PostEntry(p, "credit", 0)
  /\ batches' = [batches EXCEPT ![job[p].user] = Append(@, Minted(p))]
  /\ End(p)
  /\ UNCHANGED <<now, notified, crashes>>

CommitDebit(p) ==
  /\ pc[p] = "commit"
  /\ job[p].op = "debit"
  /\ PostEntry(p, "debit", 0)
  /\ batches' = [batches EXCEPT ![job[p].user] = Saved(p, job[p].user)]
  /\ End(p)
  /\ UNCHANGED <<now, notified, crashes>>

(* Update("balance", 0) writes that column only. *)
CommitExpire(p) ==
  /\ pc[p] = "commit"
  /\ job[p].op = "expire"
  /\ PostEntry(p, "expired", job[p].batch)
  /\ batches' = [batches EXCEPT ![job[p].user][job[p].batch] = WithBalance(@, 0)]
  /\ End(p)
  /\ UNCHANGED <<now, notified, crashes>>

(* SendExpiryReminder locks the batch row alone, and checks it. *)
LockReminder(p) ==
  LET u == job[p].user
      i == job[p].batch
  IN /\ pc[p] = "remind"
     /\ BatchFree(p, u, i)
     /\ IF DueForReminder(batches[u][i], now)
          THEN /\ rows' = [rows EXCEPT ![p] = {i}]
               /\ pc' = [pc EXCEPT ![p] = "commit"]
               /\ UNCHANGED <<tables, job, userLock, seen, clock, work, rem, cursor>>
          ELSE Rollback(p)
     /\ UNCHANGED <<now, crashes>>

(* The notification (its key is unique) and reminder_sent_at. *)
CommitReminder(p) ==
  /\ pc[p] = "commit"
  /\ job[p].op = "remind"
  /\ notified' = notified \cup {<<job[p].user, job[p].batch>>}
  /\ batches' = [batches EXCEPT ![job[p].user][job[p].batch] = WithReminder(@)]
  /\ End(p)
  /\ UNCHANGED <<now, points, ledger, crashes>>

(* The process or its connection dies: PostgreSQL rolls back. *)
Crash(p) ==
  /\ crashes < MaxCrashes
  /\ pc[p] # "idle"
  /\ Rollback(p)
  /\ crashes' = crashes + 1
  /\ UNCHANGED now

Tick ==
  /\ now < MaxTime
  /\ now' = now + 1
  /\ UNCHANGED <<tables, userLock, pc, job, memory, crashes>>

Request(p) ==
  \E u \in Users, a \in Amounts : CreditWallet(p, u, a) \/ DebitWallet(p, u, a)

Scan(p) ==
  \E u \in Users : \E i \in DOMAIN batches[u] :
    ScanExpired(p, u, i) \/ ScanReminder(p, u, i)

Step(p) ==
  \/ LockWallet(p) \/ SelectBatches(p) \/ ConsumeBatch(p)
  \/ ConsumeDone(p) \/ ConsumeShort(p) \/ RecheckBatch(p)
  \/ AddLedgerEntry(p) \/ LockReminder(p)
  \/ CommitCredit(p) \/ CommitDebit(p) \/ CommitExpire(p) \/ CommitReminder(p)

Next ==
  \/ Tick
  \/ \E p \in Clients : Request(p)
  \/ \E p \in Crons : Scan(p)
  \/ \E p \in Procs : Step(p) \/ Crash(p)

Spec == Init /\ [][Next]_vars

(* The database grants row locks in order of arrival, so a waiting         *)
(* transaction gets its turn (strong fairness); the hourly job runs again  *)
(* and again.  Handlers owe nothing.                                       *)
Fairness ==
  /\ \A p \in Procs : SF_vars(Step(p))
  /\ \A p \in Crons : WF_vars(Scan(p))

FairSpec == Spec /\ Fairness
-----------------------------------------------------------------------------
(* Correctness *)

(* The points an empty or non-empty ledger stands for. *)
Closing(entries) == IF entries = <<>> THEN 0 ELSE entries[Len(entries)].after

(* The ledger explains every balance: each entry starts where the one      *)
(* before it ended and moves by its credit or its debit, one of the two,   *)
(* and users.points is where the last one ended.  Two addLedgerEntry calls *)
(* working from the same reading of points would break it.                 *)
LedgerExplainsPoints ==
  \A u \in Users :
    /\ points[u] = Closing(ledger[u])
    /\ \A k \in DOMAIN ledger[u] :
         LET e == ledger[u][k]
         IN /\ e.before = IF k = 1 THEN 0 ELSE ledger[u][k - 1].after
            /\ e.after = e.before + e.credit - e.debit
            /\ (e.credit > 0 /\ e.debit = 0) \/ (e.debit > 0 /\ e.credit = 0)

(* The coins in a list of batches. *)
Coins(list) ==
  LET upTo[k \in 0..Len(list)] == IF k = 0 THEN 0 ELSE upTo[k - 1] + list[k].balance
  IN upTo[Len(list)]

(* users.points is the sum of the coin batches of the user, the ones the   *)
(* expiry job has yet to take included.                                    *)
PointsBackedByBatches == \A u \in Users : points[u] = Coins(batches[u])

(* Coins leave oldest first: a batch is touched only once every older one  *)
(* is empty, or past its year and left to the expiry job.  It is about     *)
(* ConsumeCoinBatchesTx running beside expiries, credits and reminders.    *)
OldestCoinsFirst ==
  \A u \in Users : \A i, k \in DOMAIN batches[u] :
    i < k /\ batches[u][k].balance < batches[u][k].amount
      => batches[u][i].balance = 0 \/ batches[u][i].expires <= now

(* ExpireCoinBatch runs once for a batch however many workers scanned it,  *)
(* never before the batch's year is over, and leaves nothing in it.        *)
ExpiredOnce ==
  \A u \in Users : \A k \in DOMAIN ledger[u] :
    LET e == ledger[u][k]
    IN e.type = "expired" =>
         /\ e.ref \in DOMAIN batches[u]
         /\ batches[u][e.ref].expires <= now
         /\ batches[u][e.ref].balance = 0
         /\ \A m \in DOMAIN ledger[u] :
              ledger[u][m].type = "expired" /\ ledger[u][m].ref = e.ref => m = k

(* A batch carries reminder_sent_at exactly when its owner was notified:   *)
(* tx.Save in the debit loop writes every column of the batch, and must    *)
(* not write back a row it read before the reminder was committed.         *)
ReminderMatchesNotification ==
  /\ \A u \in Users : \A i \in DOMAIN batches[u] :
       batches[u][i].reminded <=> <<u, i>> \in notified
  /\ \A key \in notified : key[2] \in DOMAIN batches[key[1]]

(* The wallet behaves as the one-step account of Account.tla, whatever the *)
(* transactions do in between: no movement is lost, split or doubled.      *)
Promise == INSTANCE Account WITH
  balance <- points,
  movements <- [u \in Users |-> [k \in DOMAIN ledger[u] |->
                                   ledger[u][k].credit - ledger[u][k].debit]]

AccountSpec == Promise!AccountSpec

(* p waits for a row that q holds. *)
WaitsFor(p, q) ==
  LET u == job[p].user
      wanted == IF pc[p] = "select" THEN Selected(u, clock[p]) ELSE {job[p].batch}
  IN /\ p # q
     /\ \/ pc[p] \in {"lock", "entry"} /\ userLock[u] = q
        \/ /\ pc[p] \in {"select", "recheck", "remind"}
           /\ job[q] # NoJob /\ job[q].user = u
           /\ wanted \cap rows[q] # {}

(* Debits and expiries hold the user and want batches, a reminder holds a  *)
(* batch: they do not lock each other out.  Whoever is waited for is at    *)
(* work, and what is waited for by somebody waited for is a reminder about *)
(* to commit.                                                              *)
NobodyStuck ==
  \A p, q \in Procs : WaitsFor(p, q) =>
    /\ pc[q] # "idle"
    /\ \A r \in Procs : WaitsFor(q, r) => pc[r] = "commit" /\ job[r].op = "remind"

(* Coins past their year leave the wallet once the hourly job gets to run; *)
(* a debit, which holds the user and wants batches, and a reminder, which  *)
(* holds a batch, do not keep it waiting for ever.                         *)
ExpiredCoinsLeave ==
  \A u \in Users : \A i \in 1..(MaxLedger + Cardinality(Procs)) :
    (/\ i \in DOMAIN batches[u]
     /\ batches[u][i].balance > 0
     /\ batches[u][i].expires <= now)
      ~> (i \in DOMAIN batches[u] /\ batches[u][i].balance = 0)
=============================================================================
