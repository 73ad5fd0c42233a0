---------------------------- MODULE WalletProofs ----------------------------
(***************************************************************************)
(* Theorems about the wallet, for any users, transactions, amounts and     *)
(* bounds.                                                                 *)
(***************************************************************************)
EXTENDS WalletInvariant, SequenceTheorems, WellFoundedInduction, TLAPS

(* What the proofs use of the constants. *)
LEMMA Constants ==
  /\ NoProc \notin Procs
  /\ Clients \subseteq Procs
  /\ Crons \subseteq Procs
  /\ Year \in Nat
  /\ MaxPoints \in Nat
  /\ \A a \in Amounts : a \in Nat
BY ConstantsAssumption DEF Procs

(* The two updates of a batch row keep it a batch row. *)
LEMMA BatchUpdates ==
  ASSUME NEW b \in Batch, NEW n \in Nat
  PROVE  /\ WithBalance(b, n) \in Batch
         /\ WithReminder(b) \in Batch
BY DEF WithBalance, WithReminder, Batch

-----------------------------------------------------------------------------
(* The initial state satisfies the inductive invariant. *)
LEMMA WalletInvInit == Init => WalletInv
<1> SUFFICES ASSUME Init PROVE WalletInv
  OBVIOUS
<1>1. TypeOK
  BY DEF Init, TypeOK, PCs
<1>2. PlaceOK /\ Accepted /\ UserLocked /\ SeenIsCurrent /\ BatchClaimed /\ DebitCopy
  BY DEF Init, PlaceOK, NoJob, Accepted, UserLocked, HoldsUser, SeenIsCurrent,
         BatchClaimed, DebitCopy
<1>3. RowsExclusive /\ BatchesOrdered /\ ClockOK /\ PointsFit
  BY Constants DEF Init, RowsExclusive, BatchesOrdered, ClockOK, PointsFit
<1> QED BY <1>1, <1>2, <1>3 DEF WalletInv

-----------------------------------------------------------------------------
(* Every action keeps the type invariant. *)
LEMMA TypeStep == WalletInv /\ [Next]_vars => TypeOK'
<1> SUFFICES ASSUME WalletInv, [Next]_vars PROVE TypeOK'
  OBVIOUS
<1> USE Constants
<1>t. TypeOK /\ PlaceOK /\ Accepted /\ BatchClaimed /\ DebitCopy
  BY DEF WalletInv
<1>e. ASSUME NEW p \in Procs, End(p)
      PROVE  /\ pc' \in [Procs -> PCs]
             /\ job' \in [Procs -> Job \cup {NoJob}]
             /\ seen' \in [Procs -> Nat]
             /\ clock' \in [Procs -> Nat]
             /\ work' \in [Procs -> Seq(Batch)]
             /\ rem' \in [Procs -> Nat]
             /\ cursor' \in [Procs -> Nat]
             /\ rows' \in [Procs -> SUBSET Nat]
             /\ userLock' \in [Users -> Procs \cup {NoProc}]
  BY <1>t, <1>e DEF End, TypeOK, PCs
<1>r. ASSUME NEW p \in Procs, Rollback(p), now' = now, crashes' \in Nat PROVE TypeOK'
  BY <1>t, <1>e, <1>r DEF Rollback, TypeOK, tables
<1>1. CASE Tick
  BY <1>t, <1>1 DEF Tick, TypeOK, tables, memory
<1>2. CASE UNCHANGED vars
  BY <1>t, <1>2 DEF vars, TypeOK
<1>3. ASSUME NEW p \in Procs, NEW u \in Users, NEW a \in Amounts, CreditWallet(p, u, a)
      PROVE TypeOK'
  BY <1>t, <1>3 DEF CreditWallet, Begin, TypeOK, tables, memory, PCs, Job
<1>4. ASSUME NEW p \in Procs, NEW u \in Users, NEW a \in Amounts, DebitWallet(p, u, a)
      PROVE TypeOK'
  BY <1>t, <1>4 DEF DebitWallet, Begin, TypeOK, tables, memory, PCs, Job
<1>5. ASSUME NEW p \in Procs, NEW u \in Users, NEW i \in DOMAIN batches[u],
             ScanExpired(p, u, i) \/ ScanReminder(p, u, i)
      PROVE TypeOK'
  <2>1. i \in Nat
    BY <1>t DEF TypeOK
  <2>2. CASE ScanExpired(p, u, i)
    BY <1>t, <2>1, <2>2 DEF ScanExpired, Begin, TypeOK, tables, memory, PCs, Job
  <2>3. CASE ScanReminder(p, u, i)
    BY <1>t, <2>1, <2>3 DEF ScanReminder, Begin, TypeOK, tables, memory, PCs, Job
  <2> QED BY <1>5, <2>2, <2>3
<1>6. ASSUME NEW p \in Procs, LockWallet(p) PROVE TypeOK'
  BY <1>t, <1>6 DEF LockWallet, TypeOK, tables, PCs, PlaceOK, Job
<1>7. ASSUME NEW p \in Procs, SelectBatches(p) PROVE TypeOK'
  BY <1>t, <1>7 DEF SelectBatches, Selected, TypeOK, tables, PCs, PlaceOK, Job
<1>8. ASSUME NEW p \in Procs, ConsumeBatch(p) PROVE TypeOK'
  <2>1. PICK i \in rows[p] :
          LET t == Taken(work[p][i].balance, rem[p])
          IN /\ IsNext(p, i)
             /\ work' = [work EXCEPT ![p][i] = WithBalance(@, @.balance - t)]
             /\ rem' = [rem EXCEPT ![p] = @ - t]
             /\ cursor' = [cursor EXCEPT ![p] = i]
    BY <1>8 DEF ConsumeBatch
  <2> DEFINE t == Taken(work[p][i].balance, rem[p])
  <2>2. i \in DOMAIN work[p] /\ i \in Nat /\ work[p] \in Seq(Batch) /\ rem[p] \in Nat
    BY <1>t, <1>8 DEF ConsumeBatch, PlaceOK, DebitCopy, CopyOK, TypeOK
  <2>3. work[p][i] \in Batch
    BY <2>2
  <2>3b. work[p][i].balance \in Nat
    BY <2>3 DEF Batch
  <2>4. work[p][i].balance - t \in Nat /\ rem[p] - t \in Nat
    BY <2>2, <2>3b DEF Taken
  <2>5. WithBalance(work[p][i], work[p][i].balance - t) \in Batch
    BY <2>3, <2>4, BatchUpdates
  <2> HIDE DEF t
  <2>6. [work[p] EXCEPT ![i] = WithBalance(work[p][i], work[p][i].balance - t)] \in Seq(Batch)
    BY <2>2, <2>5
  <2>6b. work' = [work EXCEPT ![p] =
                    [work[p] EXCEPT ![i] = WithBalance(work[p][i], work[p][i].balance - t)]]
    BY <2>1 DEF t
  <2>7. work' \in [Procs -> Seq(Batch)]
    BY <1>t, <2>6, <2>6b DEF TypeOK
  <2>8. rem' \in [Procs -> Nat] /\ cursor' \in [Procs -> Nat]
    BY <1>t, <2>1, <2>2, <2>4 DEF TypeOK, t
  <2> QED BY <1>t, <1>8, <2>7, <2>8 DEF ConsumeBatch, TypeOK, tables
<1>9. ASSUME NEW p \in Procs, ConsumeDone(p) PROVE TypeOK'
  BY <1>t, <1>9 DEF ConsumeDone, TypeOK, tables, memory, PCs
<1>10. ASSUME NEW p \in Procs, ConsumeShort(p) PROVE TypeOK'
  BY <1>r, <1>t, <1>10 DEF ConsumeShort, TypeOK
<1>11. ASSUME NEW p \in Procs, RecheckBatch(p) PROVE TypeOK'
  <2>1. CASE Rollback(p)
    BY <1>t, <1>r, <1>11, <2>1 DEF RecheckBatch, TypeOK
  <2> DEFINE u == job[p].user
             i == job[p].batch
  <2>2. u \in Users /\ i \in Nat /\ i \in DOMAIN batches[u] /\ batches[u] \in Seq(Batch)
    BY <1>t, <1>11 DEF RecheckBatch, PlaceOK, Job, TypeOK
  <2>3. batches[u][i] \in Batch
    BY <2>2
  <2>3b. batches[u][i].balance \in Nat
    BY <2>3 DEF Batch
  <2>4. CASE ~Rollback(p)
    <3>1. /\ rows' = [rows EXCEPT ![p] = {i}]
          /\ job' = [job EXCEPT ![p] = [op |-> "expire", user |-> u, batch |-> i,
                                         amount |-> batches[u][i].balance]]
          /\ pc' = [pc EXCEPT ![p] = "entry"]
          /\ UNCHANGED <<tables, userLock, seen, clock, work, rem, cursor, now, crashes>>
      BY <1>11, <2>4 DEF RecheckBatch
    <3>2. [op |-> "expire", user |-> u, batch |-> i, amount |-> batches[u][i].balance] \in Job
      BY <2>2, <2>3b DEF Job
    <3> QED BY <1>t, <2>2, <3>1, <3>2 DEF TypeOK, tables, PCs
  <2> QED BY <2>1, <2>4
<1>12. ASSUME NEW p \in Procs, AddLedgerEntry(p) PROVE TypeOK'
  <2>1. CASE Rollback(p)
    BY <1>t, <1>r, <1>12, <2>1 DEF AddLedgerEntry, TypeOK
  <2>2. CASE ~Rollback(p)
    <3>1. /\ userLock' = [userLock EXCEPT ![job[p].user] = p]
          /\ seen' = [seen EXCEPT ![p] = points[job[p].user]]
          /\ clock' = [clock EXCEPT ![p] = now]
          /\ pc' = [pc EXCEPT ![p] = "commit"]
          /\ UNCHANGED <<tables, job, work, rem, cursor, rows, now, crashes>>
      BY <1>12, <2>2 DEF AddLedgerEntry
    <3>2. job[p].user \in Users
      BY <1>t, <1>12 DEF AddLedgerEntry, PlaceOK, Job
    <3> QED BY <1>t, <3>1, <3>2 DEF TypeOK, tables, PCs
  <2> QED BY <2>1, <2>2
<1>13. ASSUME NEW p \in Procs, LockReminder(p) PROVE TypeOK'
  <2>1. CASE Rollback(p)
    BY <1>t, <1>r, <1>13, <2>1 DEF LockReminder, TypeOK
  <2>2. CASE ~Rollback(p)
    <3>1. /\ rows' = [rows EXCEPT ![p] = {job[p].batch}]
          /\ pc' = [pc EXCEPT ![p] = "commit"]
          /\ UNCHANGED <<tables, job, userLock, seen, clock, work, rem, cursor, now, crashes>>
      BY <1>13, <2>2 DEF LockReminder
    <3>2. job[p].batch \in Nat
      BY <1>t, <1>13 DEF LockReminder, PlaceOK, Job
    <3> QED BY <1>t, <3>1, <3>2 DEF TypeOK, tables, PCs
  <2> QED BY <2>1, <2>2
<1>p. ASSUME NEW p \in Procs, NEW type \in {"credit", "debit", "expired"}, NEW ref \in Nat,
             pc[p] = "commit", job[p].op # "remind", PostEntry(p, type, ref)
      PROVE  /\ ledger' \in [Users -> Seq(Entry)]
             /\ points' \in [Users -> Nat]
             /\ job[p] \in Job
  <2>1. job[p] \in Job /\ job[p].user \in Users /\ job[p].amount \in Nat /\ seen[p] \in Nat
    BY <1>t, <1>p DEF PlaceOK, TypeOK, Job
  <2>2. CreditOf(job[p]) \in Nat /\ DebitOf(job[p]) \in Nat
    BY <2>1 DEF CreditOf, DebitOf
  <2>3. After(p) \in Nat
    BY <1>t, <1>p, <2>1, <2>2 DEF Accepted, Refused, After
  <2>4. EntryOf(p, type, ref) \in Entry
    BY <1>p, <2>1, <2>2, <2>3 DEF EntryOf, Entry
  <2> QED BY <1>t, <1>p, <2>1, <2>3, <2>4 DEF PostEntry, TypeOK
<1>14. ASSUME NEW p \in Procs, CommitCredit(p) PROVE TypeOK'
  <2>1. /\ ledger' \in [Users -> Seq(Entry)]
        /\ points' \in [Users -> Nat]
        /\ job[p] \in Job
    BY <1>p, <1>14 DEF CommitCredit
  <2>2. Minted(p) \in Batch
    BY <1>t, <2>1 DEF Minted, Batch, Job, TypeOK
  <2>3. batches' \in [Users -> Seq(Batch)]
    BY <1>t, <1>14, <2>1, <2>2 DEF CommitCredit, TypeOK, Job
  <2> QED BY <1>t, <1>e, <1>14, <2>1, <2>3 DEF CommitCredit, TypeOK
<1>15. ASSUME NEW p \in Procs, CommitDebit(p) PROVE TypeOK'
  <2> DEFINE u == job[p].user
  <2>1. /\ ledger' \in [Users -> Seq(Entry)]
        /\ points' \in [Users -> Nat]
        /\ job[p] \in Job
    BY <1>p, <1>15 DEF CommitDebit
  <2>2. u \in Users /\ batches[u] \in Seq(Batch) /\ work[p] \in Seq(Batch)
    BY <1>t, <2>1 DEF Job, TypeOK
  <2>3. DOMAIN work[p] = DOMAIN batches[u]
    BY <1>t, <1>15 DEF CommitDebit, DebitCopy, CopyOK
  <2>4. Saved(p, u) \in Seq(Batch)
    BY <2>2, <2>3 DEF Saved
  <2>5. batches' \in [Users -> Seq(Batch)]
    BY <1>t, <1>15, <2>2, <2>4 DEF CommitDebit, TypeOK
  <2> QED BY <1>t, <1>e, <1>15, <2>1, <2>5 DEF CommitDebit, TypeOK
<1>16. ASSUME NEW p \in Procs, CommitExpire(p) PROVE TypeOK'
  <2> DEFINE u == job[p].user
             i == job[p].batch
  <2>0. job[p] \in Job /\ i \in Nat
    BY <1>t, <1>16 DEF CommitExpire, PlaceOK, Job
  <2>1. /\ ledger' \in [Users -> Seq(Entry)]
        /\ points' \in [Users -> Nat]
    BY <1>p, <1>16, <2>0 DEF CommitExpire
  <2>2. u \in Users /\ batches[u] \in Seq(Batch) /\ i \in DOMAIN batches[u]
    BY <1>t, <1>16, <2>0 DEF Job, TypeOK, PlaceOK, CommitExpire
  <2>3. batches[u][i] \in Batch
    BY <2>2
  <2>4. WithBalance(batches[u][i], 0) \in Batch
    BY <2>3, BatchUpdates
  <2>5. [batches[u] EXCEPT ![i] = WithBalance(batches[u][i], 0)] \in Seq(Batch)
    BY <2>2, <2>4
  <2>5b. batches' = [batches EXCEPT ![u] = [batches[u] EXCEPT ![i] = WithBalance(batches[u][i], 0)]]
    BY <1>16 DEF CommitExpire
  <2>6. batches' \in [Users -> Seq(Batch)]
    BY <1>t, <2>2, <2>5, <2>5b DEF TypeOK
  <2> QED BY <1>t, <1>e, <1>16, <2>1, <2>6 DEF CommitExpire, TypeOK
<1>17. ASSUME NEW p \in Procs, CommitReminder(p) PROVE TypeOK'
  <2> DEFINE u == job[p].user
             i == job[p].batch
  <2>0. job[p] \in Job /\ i \in Nat
    BY <1>t, <1>17 DEF CommitReminder, PlaceOK, Job
  <2>2. u \in Users /\ batches[u] \in Seq(Batch) /\ i \in DOMAIN batches[u]
    BY <1>t, <1>17, <2>0 DEF Job, TypeOK, PlaceOK, CommitReminder
  <2>3. batches[u][i] \in Batch
    BY <2>2
  <2>4. WithReminder(batches[u][i]) \in Batch
    BY <2>3, BatchUpdates
  <2>5. [batches[u] EXCEPT ![i] = WithReminder(batches[u][i])] \in Seq(Batch)
    BY <2>2, <2>4
  <2>5b. batches' = [batches EXCEPT ![u] = [batches[u] EXCEPT ![i] = WithReminder(batches[u][i])]]
    BY <1>17 DEF CommitReminder
  <2>6. batches' \in [Users -> Seq(Batch)]
    BY <1>t, <2>2, <2>5, <2>5b DEF TypeOK
  <2>7. notified' \subseteq Users \X Nat
    BY <1>t, <1>17, <2>0, <2>2 DEF CommitReminder, TypeOK
  <2> QED BY <1>t, <1>e, <1>17, <2>6, <2>7 DEF CommitReminder, TypeOK
<1>18. ASSUME NEW p \in Procs, Crash(p) PROVE TypeOK'
  BY <1>t, <1>r, <1>18 DEF Crash, TypeOK
<1> QED
  BY <1>1, <1>2, <1>3, <1>4, <1>5, <1>6, <1>7, <1>8, <1>9, <1>10, <1>11, <1>12,
     <1>13, <1>14, <1>15, <1>16, <1>17, <1>18
     DEF Next, Request, Scan, Step
-----------------------------------------------------------------------------
(* What one transaction's step can do to the others, and to the tables.    *)
Act(p) == Request(p) \/ Scan(p) \/ Step(p) \/ Crash(p)

(* A step of the wallet is a tick of the clock or a step of one process. *)
LEMMA StepIsTickOrAct == [Next]_vars => Tick \/ UNCHANGED vars \/ \E p \in Procs : Act(p)
BY Constants DEF Next, Act

(* A transaction writes its own memory only. *)
OthersKept(p) ==
  /\ now' = now
  /\ \A q \in Procs \ {p} :
       /\ pc'[q] = pc[q] /\ job'[q] = job[q] /\ seen'[q] = seen[q]
       /\ clock'[q] = clock[q] /\ work'[q] = work[q] /\ rem'[q] = rem[q]
       /\ cursor'[q] = cursor[q] /\ rows'[q] = rows[q]
  /\ \A u \in Users :
       userLock'[u] = userLock[u]
         \/ (userLock[u] \in {NoProc, p} /\ userLock'[u] \in {NoProc, p})

(* A step of p leaves the memory of every other transaction alone, and the *)
(* users rows they hold.                                                   *)
LEMMA ActKeepsOthers ==
  ASSUME TypeOK, NEW p \in Procs, Act(p)
  PROVE  OthersKept(p)
<1>e. ASSUME End(p), now' = now PROVE OthersKept(p)
  BY <1>e DEF End, OthersKept, TypeOK
<1>r. ASSUME Rollback(p), now' = now PROVE OthersKept(p)
  BY <1>e, <1>r DEF Rollback
<1>b. ASSUME NEW j, NEW at, Begin(p, j, at) PROVE OthersKept(p)
  BY <1>b DEF Begin, OthersKept, TypeOK, memory
<1>1. CASE Request(p)
  BY <1>b, <1>1 DEF Request, CreditWallet, DebitWallet
<1>2. CASE Scan(p)
  BY <1>b, <1>2 DEF Scan, ScanExpired, ScanReminder
<1>3. CASE LockWallet(p)
  BY <1>3 DEF LockWallet, UserFree, OthersKept, TypeOK
<1>4. CASE SelectBatches(p)
  BY <1>4 DEF SelectBatches, OthersKept, TypeOK
<1>5. CASE ConsumeBatch(p)
  BY <1>5 DEF ConsumeBatch, OthersKept, TypeOK
<1>6. CASE ConsumeDone(p)
  BY <1>6 DEF ConsumeDone, OthersKept, TypeOK, memory
<1>7. CASE ConsumeShort(p)
  BY <1>r, <1>7 DEF ConsumeShort
<1>8. CASE RecheckBatch(p)
  <2>1. CASE Rollback(p)
    BY <1>r, <1>8, <2>1 DEF RecheckBatch
  <2>2. CASE ~Rollback(p)
    BY <1>8, <2>2 DEF RecheckBatch, OthersKept, TypeOK
  <2> QED BY <2>1, <2>2
<1>9. CASE AddLedgerEntry(p)
  <2>1. CASE Rollback(p)
    BY <1>r, <1>9, <2>1 DEF AddLedgerEntry
  <2>2. CASE ~Rollback(p)
    BY <1>9, <2>2 DEF AddLedgerEntry, UserFree, OthersKept, TypeOK
  <2> QED BY <2>1, <2>2
<1>10. CASE LockReminder(p)
  <2>1. CASE Rollback(p)
    BY <1>r, <1>10, <2>1 DEF LockReminder
  <2>2. CASE ~Rollback(p)
    BY <1>10, <2>2 DEF LockReminder, OthersKept, TypeOK
  <2> QED BY <2>1, <2>2
<1>11. CASE CommitCredit(p) \/ CommitDebit(p) \/ CommitExpire(p) \/ CommitReminder(p)
  BY <1>e, <1>11 DEF CommitCredit, CommitDebit, CommitExpire, CommitReminder
<1>12. CASE Crash(p)
  BY <1>r, <1>12 DEF Crash
<1> QED
  BY <1>1, <1>2, <1>3, <1>4, <1>5, <1>6, <1>7, <1>8, <1>9, <1>10, <1>11, <1>12
     DEF Act, Step

(* A step that is not a commit writes no table. *)
Commit(p) == CommitCredit(p) \/ CommitDebit(p) \/ CommitExpire(p) \/ CommitReminder(p)

(* No table changes before a commit. *)
LEMMA OnlyCommitWrites ==
  ASSUME NEW p \in Procs, Act(p), ~Commit(p)
  PROVE  UNCHANGED tables
BY DEF Act, Commit, Request, Scan, Step, Crash, Rollback, CreditWallet, DebitWallet,
       ScanExpired, ScanReminder, Begin, LockWallet, SelectBatches, ConsumeBatch,
       ConsumeDone, ConsumeShort, RecheckBatch, AddLedgerEntry, LockReminder, tables

(* A commit touches only the batch rows it holds, and moves coins only in  *)
(* the wallet it holds.                                                    *)
BatchesKept(p) ==
  \A u \in Users :
    /\ DOMAIN batches[u] \subseteq DOMAIN batches'[u]
    /\ userLock[u] # p => DOMAIN batches'[u] = DOMAIN batches[u]
    /\ \A i \in DOMAIN batches[u] :
         /\ batches'[u][i].amount = batches[u][i].amount
         /\ batches'[u][i].expires = batches[u][i].expires
         /\ batches'[u][i].balance <= batches[u][i].balance
         /\ batches'[u][i] # batches[u][i] =>
              pc[p] = "commit" /\ u = job[p].user /\ i \in rows[p]
         /\ batches'[u][i].balance # batches[u][i].balance => userLock[u] = p

(* What a transaction that commits holds and has read. *)
LEMMA CommitFacts ==
  ASSUME WalletInv, NEW p \in Procs, Commit(p)
  PROVE  /\ pc[p] = "commit"
         /\ job[p] \in Job /\ job[p].user \in Users
         /\ batches[job[p].user] \in Seq(Batch)
         /\ pc'[p] = "idle" /\ rows'[p] = {} /\ cursor'[p] = 0 /\ job'[p] = NoJob
         /\ job[p].op # "remind" => userLock[job[p].user] = p
         /\ job[p].op # "remind" => seen[p] = points[job[p].user]
         /\ job[p].op # "credit" /\ job[p].op # "debit"
              => job[p].batch \in DOMAIN batches[job[p].user]
<1>1. pc[p] = "commit" /\ End(p)
  BY DEF Commit, CommitCredit, CommitDebit, CommitExpire, CommitReminder
<1>2. job[p] \in Job
  BY <1>1 DEF WalletInv, PlaceOK
<1>3. job[p].user \in Users /\ job[p].op \in {"credit", "debit", "expire", "remind"}
  BY <1>2 DEF Job
<1>4. batches[job[p].user] \in Seq(Batch)
  BY <1>3 DEF WalletInv, TypeOK
<1>5. pc'[p] = "idle" /\ rows'[p] = {} /\ cursor'[p] = 0 /\ job'[p] = NoJob
  BY <1>1 DEF End, WalletInv, TypeOK
<1>6. job[p].op # "remind" => userLock[job[p].user] = p
  BY <1>1 DEF WalletInv, UserLocked, HoldsUser
<1>7. job[p].op # "remind" => seen[p] = points[job[p].user]
  BY <1>1 DEF WalletInv, SeenIsCurrent
<1>8. job[p].op # "credit" /\ job[p].op # "debit"
        => job[p].batch \in DOMAIN batches[job[p].user]
  BY <1>1, <1>3 DEF WalletInv, PlaceOK
<1> QED BY <1>1, <1>2, <1>3, <1>4, <1>5, <1>6, <1>7, <1>8

(* A credit mints one batch and touches no other (addLedgerEntry). *)
LEMMA CreditBatches ==
  ASSUME WalletInv, NEW p \in Procs, CommitCredit(p)
  PROVE  LET u == job[p].user
             n == Len(batches[u])
         IN /\ \A v \in Users \ {u} : batches'[v] = batches[v]
            /\ DOMAIN batches[u] = 1..n
            /\ DOMAIN batches'[u] = 1..(n + 1)
            /\ \A i \in 1..n : batches'[u][i] = batches[u][i]
            /\ batches'[u][n + 1] = Minted(p)
<1>1. batches' = [batches EXCEPT ![job[p].user] = Append(batches[job[p].user], Minted(p))]
  BY DEF CommitCredit
<1>2. job[p].user \in Users /\ batches \in [Users -> Seq(Batch)]
  BY CommitFacts DEF Commit, WalletInv, TypeOK
<1>3. batches[job[p].user] \in Seq(Batch)
  BY <1>2
<1>4. batches'[job[p].user] = Append(batches[job[p].user], Minted(p))
  BY <1>1, <1>2
<1>5. \A v \in Users \ {job[p].user} : batches'[v] = batches[v]
  BY <1>1, <1>2
<1> HIDE DEF Minted
<1> QED BY <1>3, <1>4, <1>5

(* A debit writes back the copies of the batches it visited                *)
(* (ConsumeCoinBatchesTx).                                                 *)
LEMMA DebitBatches ==
  ASSUME WalletInv, NEW p \in Procs, CommitDebit(p)
  PROVE  LET u == job[p].user
         IN /\ \A v \in Users \ {u} : batches'[v] = batches[v]
            /\ DOMAIN batches'[u] = DOMAIN batches[u]
            /\ \A i \in DOMAIN batches[u] :
                 batches'[u][i] = IF i \in rows[p] /\ i <= cursor[p]
                                    THEN work[p][i] ELSE batches[u][i]
            /\ CopyOK(p)
<1>1. batches' = [batches EXCEPT ![job[p].user] = Saved(p, job[p].user)]
  BY DEF CommitDebit
<1>2. job[p].user \in Users /\ batches \in [Users -> Seq(Batch)]
  BY CommitFacts DEF Commit, WalletInv, TypeOK
<1>3. batches'[job[p].user] = Saved(p, job[p].user)
  BY <1>1, <1>2
<1>4. \A v \in Users \ {job[p].user} : batches'[v] = batches[v]
  BY <1>1, <1>2
<1>5. CopyOK(p)
  BY DEF CommitDebit, WalletInv, DebitCopy
<1> QED BY <1>3, <1>4, <1>5 DEF Saved

(* ExpireCoinBatch and SendExpiryReminder each write one row. *)
LEMMA OneBatch ==
  ASSUME WalletInv, NEW p \in Procs, CommitExpire(p) \/ CommitReminder(p)
  PROVE  LET u == job[p].user
             i == job[p].batch
         IN /\ \A v \in Users \ {u} : batches'[v] = batches[v]
            /\ i \in DOMAIN batches[u]
            /\ DOMAIN batches'[u] = DOMAIN batches[u]
            /\ \A k \in DOMAIN batches[u] \ {i} : batches'[u][k] = batches[u][k]
            /\ rows[p] = {i}
            /\ CommitExpire(p) => batches'[u][i] = WithBalance(batches[u][i], 0)
            /\ CommitReminder(p) => batches'[u][i] = WithReminder(batches[u][i])
<1> DEFINE u == job[p].user
           i == job[p].batch
<1>1. u \in Users /\ batches \in [Users -> Seq(Batch)] /\ i \in DOMAIN batches[u]
  BY CommitFacts DEF Commit, WalletInv, TypeOK, CommitExpire, CommitReminder
<1>2. rows[p] = {i}
  BY DEF WalletInv, BatchClaimed, CommitExpire, CommitReminder
<1>3. PICK b : batches' = [batches EXCEPT ![u] = [batches[u] EXCEPT ![i] = b]]
          /\ (CommitExpire(p) => b = WithBalance(batches[u][i], 0))
          /\ (CommitReminder(p) => b = WithReminder(batches[u][i]))
  <2>1. CASE CommitExpire(p)
    <3>1. batches' = [batches EXCEPT ![u] = [batches[u] EXCEPT ![i] = WithBalance(batches[u][i], 0)]]
      BY <2>1 DEF CommitExpire
    <3>2. ~CommitReminder(p)
      BY <2>1 DEF CommitExpire, CommitReminder
    <3> QED BY <3>1, <3>2
  <2>2. CASE CommitReminder(p)
    <3>1. batches' = [batches EXCEPT ![u] = [batches[u] EXCEPT ![i] = WithReminder(batches[u][i])]]
      BY <2>2 DEF CommitReminder
    <3>2. ~CommitExpire(p)
      BY <2>2 DEF CommitExpire, CommitReminder
    <3> QED BY <3>1, <3>2
  <2> QED BY <2>1, <2>2
<1>4. batches'[u] = [batches[u] EXCEPT ![i] = b]
  BY <1>1, <1>3
<1>5. \A v \in Users \ {u} : batches'[v] = batches[v]
  BY <1>1, <1>3
<1>6. batches[u] \in Seq(Batch)
  BY <1>1
<1>7. DOMAIN batches'[u] = DOMAIN batches[u] /\ batches'[u][i] = b
      /\ \A k \in DOMAIN batches[u] \ {i} : batches'[u][k] = batches[u][k]
  BY <1>1, <1>4, <1>6
<1> QED BY <1>1, <1>2, <1>3, <1>5, <1>7

(* So every step keeps batches as BatchesKept says. *)
LEMMA ActKeepsBatches ==
  ASSUME WalletInv, NEW p \in Procs, Act(p)
  PROVE  BatchesKept(p)
<1>t. batches \in [Users -> Seq(Batch)]
  BY DEF WalletInv, TypeOK
<1>b. \A u \in Users : \A i \in DOMAIN batches[u] : batches[u][i] \in Batch
  BY <1>t
<1>n. \A u \in Users : \A i \in DOMAIN batches[u] : batches[u][i].balance \in Nat
  BY <1>b DEF Batch
<1>1. CASE ~Commit(p)
  BY <1>1, <1>n, OnlyCommitWrites DEF BatchesKept, tables
<1>2. CASE CommitCredit(p)
  <2>1. job[p].op # "remind" /\ userLock[job[p].user] = p
    BY <1>2, CommitFacts DEF Commit, CommitCredit
  <2>2. Len(batches[job[p].user]) \in Nat
    BY <1>2, <1>t, CommitFacts DEF Commit
  <2>3. /\ \A v \in Users \ {job[p].user} : batches'[v] = batches[v]
        /\ DOMAIN batches[job[p].user] \subseteq DOMAIN batches'[job[p].user]
        /\ \A i \in DOMAIN batches[job[p].user] :
             batches'[job[p].user][i] = batches[job[p].user][i]
    BY <1>2, <2>2, CreditBatches
  <2> QED BY <1>n, <2>1, <2>3 DEF BatchesKept
<1>3. CASE CommitDebit(p)
  <2>1. job[p].op # "remind" /\ userLock[job[p].user] = p /\ pc[p] = "commit"
    BY <1>3, CommitFacts DEF Commit, CommitDebit
  <2> QED BY <1>3, <1>n, <2>1, DebitBatches DEF BatchesKept, CopyOK
<1>4. CASE CommitExpire(p)
  <2>1. job[p].op # "remind" /\ userLock[job[p].user] = p /\ pc[p] = "commit"
    BY <1>4, CommitFacts DEF Commit, CommitExpire
  <2> DEFINE u == job[p].user
             i == job[p].batch
             b == batches'[u][i]
  <2>2. b.amount = batches[u][i].amount /\ b.expires = batches[u][i].expires /\ b.balance = 0
    <3>1. b = WithBalance(batches[u][i], 0)
      BY <1>4, OneBatch
    <3> QED BY <3>1 DEF WithBalance
  <2>3. /\ \A v \in Users \ {u} : batches'[v] = batches[v]
        /\ DOMAIN batches'[u] = DOMAIN batches[u]
        /\ \A k \in DOMAIN batches[u] \ {i} : batches'[u][k] = batches[u][k]
        /\ i \in rows[p]
    BY <1>4, OneBatch
  <2> QED BY <1>n, <2>1, <2>2, <2>3 DEF BatchesKept
<1>5. CASE CommitReminder(p)
  <2>1. pc[p] = "commit"
    BY <1>5 DEF CommitReminder
  <2> DEFINE u == job[p].user
             i == job[p].batch
             b == batches'[u][i]
  <2>2. b.amount = batches[u][i].amount /\ b.expires = batches[u][i].expires
        /\ b.balance = batches[u][i].balance
    <3>1. b = WithReminder(batches[u][i])
      BY <1>5, OneBatch
    <3> QED BY <3>1 DEF WithReminder
  <2>3. /\ \A v \in Users \ {u} : batches'[v] = batches[v]
        /\ DOMAIN batches'[u] = DOMAIN batches[u]
        /\ \A k \in DOMAIN batches[u] \ {i} : batches'[u][k] = batches[u][k]
        /\ i \in rows[p]
    BY <1>5, OneBatch
  <2> QED BY <1>n, <2>1, <2>2, <2>3 DEF BatchesKept
<1> QED BY <1>1, <1>2, <1>3, <1>4, <1>5 DEF Commit

-----------------------------------------------------------------------------
(* Small facts the conjuncts share. *)
(* The end of a transaction forgets its job, its copies and its rows. *)
LEMMA EndFacts ==
  ASSUME TypeOK, NEW p \in Procs, End(p)
  PROVE  /\ pc'[p] = "idle" /\ job'[p] = NoJob
         /\ clock'[p] = 0 /\ cursor'[p] = 0 /\ rows'[p] = {}
         /\ \A u \in Users : userLock'[u] # p
BY Constants DEF End, TypeOK

(* A transaction under way has a well-formed job. *)
LEMMA WorkingJob ==
  ASSUME WalletInv, NEW p \in Procs, pc[p] # "idle"
  PROVE  /\ job[p] \in Job
         /\ job[p].user \in Users
         /\ job[p].op \in {"credit", "debit", "expire", "remind"}
         /\ job[p].amount \in Nat
         /\ job[p].batch \in Nat
<1>1. job[p] \in Job
  BY DEF WalletInv, PlaceOK
<1> QED BY <1>1 DEF Job

(* Whoever holds a users row is the only one to change that wallet. *)
LEMMA WalletKept ==
  ASSUME WalletInv, NEW p \in Procs, Act(p), NEW u \in Users, userLock[u] # p
  PROVE  points'[u] = points[u] /\ ledger'[u] = ledger[u]
<1>1. CASE ~Commit(p)
  BY <1>1, OnlyCommitWrites DEF tables
<1>2. CASE CommitReminder(p)
  BY <1>2 DEF CommitReminder
<1>3. CASE CommitCredit(p) \/ CommitDebit(p) \/ CommitExpire(p)
  <2>1. u # job[p].user
    BY <1>3, CommitFacts DEF Commit, CommitCredit, CommitDebit, CommitExpire
  <2>2. PICK type, ref : PostEntry(p, type, ref)
    BY <1>3 DEF CommitCredit, CommitDebit, CommitExpire
  <2> QED BY <2>1, <2>2 DEF PostEntry, WalletInv, TypeOK
<1> QED BY <1>1, <1>2, <1>3 DEF Commit

(* The end of a step of p, by kind. *)
Ends(p) ==
  /\ pc'[p] = "idle" /\ job'[p] = NoJob
  /\ clock'[p] = 0 /\ cursor'[p] = 0 /\ rows'[p] = {}
  /\ \A u \in Users : userLock'[u] # p

Begins(p) ==
  \E j \in Job : \E at \in {"entry", "lock", "remind"} :
    /\ pc[p] = "idle" /\ pc'[p] = at /\ job'[p] = j
    /\ at = "entry" => j.op = "credit"
    /\ at = "lock" => j.op \in {"debit", "expire"}
    /\ at = "remind" => j.op = "remind"
    /\ j.op \in {"expire", "remind"} => j.batch \in DOMAIN batches[j.user]
    /\ UNCHANGED <<tables, userLock, memory>>

(* The cases of a step of p: it ends, it begins, or it goes on to the next *)
(* place.                                                                  *)
LEMMA ActCases ==
  ASSUME WalletInv, NEW p \in Procs, Act(p)
  PROVE  \/ Ends(p)
         \/ Begins(p)
         \/ LockWallet(p) \/ SelectBatches(p) \/ ConsumeBatch(p) \/ ConsumeDone(p)
         \/ RecheckBatch(p) /\ pc'[p] = "entry" /\ ~Rollback(p)
         \/ AddLedgerEntry(p) /\ pc'[p] = "commit" /\ ~Rollback(p)
         \/ LockReminder(p) /\ pc'[p] = "commit" /\ ~Rollback(p)
<1>t. TypeOK
  BY DEF WalletInv
<1>e. ASSUME End(p) PROVE Ends(p)
  BY <1>t, <1>e, EndFacts DEF Ends
<1>r. ASSUME Rollback(p) PROVE Ends(p)
  BY <1>e, <1>r DEF Rollback
<1>1. ASSUME NEW u \in Users, NEW a \in Amounts, CreditWallet(p, u, a) PROVE Begins(p)
  <2> DEFINE j == [op |-> "credit", user |-> u, amount |-> a, batch |-> 0]
  <2>1. j \in Job /\ j.op = "credit"
    BY Constants DEF Job
  <2>2. pc[p] = "idle" /\ pc'[p] = "entry" /\ job'[p] = j /\ UNCHANGED <<tables, userLock, memory>>
    BY <1>t, <1>1 DEF CreditWallet, Begin, TypeOK
  <2> HIDE DEF j
  <2> QED BY <2>1, <2>2 DEF Begins
<1>2. ASSUME NEW u \in Users, NEW a \in Amounts, DebitWallet(p, u, a) PROVE Begins(p)
  <2> DEFINE j == [op |-> "debit", user |-> u, amount |-> a, batch |-> 0]
  <2>1. j \in Job /\ j.op = "debit"
    BY Constants DEF Job
  <2>2. pc[p] = "idle" /\ pc'[p] = "lock" /\ job'[p] = j /\ UNCHANGED <<tables, userLock, memory>>
    BY <1>t, <1>2 DEF DebitWallet, Begin, TypeOK
  <2> HIDE DEF j
  <2> QED BY <2>1, <2>2 DEF Begins
<1>3. ASSUME NEW u \in Users, NEW i \in DOMAIN batches[u], ScanExpired(p, u, i) PROVE Begins(p)
  <2> DEFINE j == [op |-> "expire", user |-> u, amount |-> 0, batch |-> i]
  <2>0. i \in Nat
    BY <1>t DEF TypeOK
  <2>1. j \in Job /\ j.op = "expire" /\ j.batch \in DOMAIN batches[j.user]
    BY <2>0 DEF Job
  <2>2. pc[p] = "idle" /\ pc'[p] = "lock" /\ job'[p] = j /\ UNCHANGED <<tables, userLock, memory>>
    BY <1>t, <1>3 DEF ScanExpired, Begin, TypeOK
  <2> HIDE DEF j
  <2> QED BY <2>1, <2>2 DEF Begins
<1>4. ASSUME NEW u \in Users, NEW i \in DOMAIN batches[u], ScanReminder(p, u, i) PROVE Begins(p)
  <2> DEFINE j == [op |-> "remind", user |-> u, amount |-> 0, batch |-> i]
  <2>0. i \in Nat
    BY <1>t DEF TypeOK
  <2>1. j \in Job /\ j.op = "remind" /\ j.batch \in DOMAIN batches[j.user]
    BY <2>0 DEF Job
  <2>2. pc[p] = "idle" /\ pc'[p] = "remind" /\ job'[p] = j /\ UNCHANGED <<tables, userLock, memory>>
    BY <1>t, <1>4 DEF ScanReminder, Begin, TypeOK
  <2> HIDE DEF j
  <2> QED BY <2>1, <2>2 DEF Begins
<1>5. CASE RecheckBatch(p)
  BY <1>t, <1>r, <1>5 DEF RecheckBatch, TypeOK
<1>6. CASE AddLedgerEntry(p)
  BY <1>t, <1>r, <1>6 DEF AddLedgerEntry, TypeOK
<1>7. CASE LockReminder(p)
  BY <1>t, <1>r, <1>7 DEF LockReminder, TypeOK
<1>8. CASE ConsumeShort(p) \/ CommitCredit(p) \/ CommitDebit(p) \/ CommitExpire(p)
           \/ CommitReminder(p) \/ Crash(p)
  BY <1>e, <1>r, <1>8 DEF ConsumeShort, CommitCredit, CommitDebit, CommitExpire,
     CommitReminder, Crash
<1>9. Request(p) \/ Scan(p) => Begins(p)
  BY <1>1, <1>2, <1>3, <1>4 DEF Request, Scan
<1> QED BY <1>5, <1>6, <1>7, <1>8, <1>9 DEF Act, Step

-----------------------------------------------------------------------------
(* The conjuncts of the invariant, one lemma each.                         *)

(* The place of a transaction tells what it executes. *)
LEMMA PlaceStep ==
  ASSUME WalletInv, NEW p \in Procs, Act(p)
  PROVE  PlaceOK'
<1>k. OthersKept(p) /\ BatchesKept(p)
  BY ActKeepsOthers, ActKeepsBatches DEF WalletInv
<1>t. TypeOK /\ PlaceOK
  BY DEF WalletInv
<1> SUFFICES ASSUME NEW q \in Procs
    PROVE  /\ pc'[q] = "idle" => job'[q] = NoJob
           /\ pc'[q] \in {"idle", "lock", "select"} => cursor'[q] = 0
           /\ pc'[q] # "idle" => job'[q] \in Job
           /\ pc'[q] = "lock" => job'[q].op \in {"debit", "expire"}
           /\ pc'[q] \in {"select", "consume"} => job'[q].op = "debit"
           /\ pc'[q] = "recheck" => job'[q].op = "expire"
           /\ pc'[q] = "remind" => job'[q].op = "remind"
           /\ pc'[q] = "entry" => job'[q].op \in {"credit", "debit", "expire"}
           /\ job'[q].op \in {"expire", "remind"} => job'[q].batch \in DOMAIN batches'[job'[q].user]
  BY DEF PlaceOK
<1>n. NoJob.op = "none"
  BY DEF NoJob
<1>1. CASE q # p
  <2>1. pc[q] = "idle" => job[q].op = "none"
    BY <1>t, <1>n DEF PlaceOK
  <2>2. pc[q] # "idle" => job[q].user \in Users
    BY WorkingJob
  <2>3. pc'[q] = pc[q] /\ job'[q] = job[q] /\ cursor'[q] = cursor[q]
    BY <1>1, <1>k DEF OthersKept
  <2>4. \A u \in Users : DOMAIN batches[u] \subseteq DOMAIN batches'[u]
    BY <1>k DEF BatchesKept
  <2>5. job[q].op \in {"expire", "remind"} => job[q].batch \in DOMAIN batches'[job[q].user]
    BY <1>t, <2>1, <2>2, <2>4 DEF PlaceOK
  <2> QED BY <1>t, <2>3, <2>5 DEF PlaceOK
<1>2. CASE q = p
  <2>1. CASE Ends(p)
    BY <1>2, <1>n, <2>1 DEF Ends
  <2>2. CASE Begins(p)
    BY <1>2, <1>t, <2>2 DEF Begins, PlaceOK, tables, memory, Job
  <2>3. CASE LockWallet(p)
    BY <1>2, <1>t, <2>3 DEF LockWallet, PlaceOK, TypeOK, tables
  <2>4. CASE SelectBatches(p)
    BY <1>2, <1>t, <2>4 DEF SelectBatches, PlaceOK, TypeOK, tables
  <2>5. CASE ConsumeBatch(p)
    BY <1>2, <1>t, <2>5 DEF ConsumeBatch, PlaceOK, TypeOK, tables
  <2>6. CASE ConsumeDone(p)
    BY <1>2, <1>t, <2>6 DEF ConsumeDone, PlaceOK, TypeOK, tables
  <2>7. CASE RecheckBatch(p) /\ pc'[p] = "entry" /\ ~Rollback(p)
    <3> DEFINE u == job[p].user
               i == job[p].batch
               j == [op |-> "expire", user |-> u, batch |-> i, amount |-> batches[u][i].balance]
    <3>1. job'[p] = j /\ batches' = batches
      BY <1>t, <2>7 DEF RecheckBatch, TypeOK, tables
    <3>2. pc[p] = "recheck" /\ i \in DOMAIN batches[u] /\ u \in Users /\ i \in Nat
      BY <1>t, <2>7, WorkingJob DEF RecheckBatch, PlaceOK
    <3>3. batches[u][i] \in Batch
      BY <1>t, <3>2 DEF TypeOK
    <3>4. j \in Job
      BY <3>2, <3>3 DEF Batch, Job
    <3>5. j.op = "expire" /\ j.batch = i /\ j.user = u
      OBVIOUS
    <3> QED BY <1>2, <2>7, <3>1, <3>2, <3>4, <3>5
  <2>8. CASE AddLedgerEntry(p) /\ pc'[p] = "commit" /\ ~Rollback(p)
    BY <1>2, <1>t, <2>8 DEF AddLedgerEntry, PlaceOK, TypeOK, tables
  <2>9. CASE LockReminder(p) /\ pc'[p] = "commit" /\ ~Rollback(p)
    BY <1>2, <1>t, <2>9 DEF LockReminder, PlaceOK, TypeOK, tables
  <2> QED BY <2>1, <2>2, <2>3, <2>4, <2>5, <2>6, <2>7, <2>8, <2>9, ActCases
<1> QED BY <1>1, <1>2

(* What addLedgerEntry accepted stays acceptable until the commit. *)
LEMMA AcceptedStep ==
  ASSUME WalletInv, NEW p \in Procs, Act(p)
  PROVE  Accepted'
<1>k. OthersKept(p)
  BY ActKeepsOthers DEF WalletInv
<1>t. TypeOK /\ PlaceOK /\ Accepted
  BY DEF WalletInv
<1> SUFFICES ASSUME NEW q \in Procs, pc'[q] = "commit", job'[q].op # "remind"
    PROVE  ~Refused(CreditOf(job'[q]), DebitOf(job'[q]), seen'[q])
  BY DEF Accepted, Refused
<1>1. CASE q # p
  BY <1>1, <1>k, <1>t DEF OthersKept, Accepted
<1>2. CASE q = p
  <2>1. CASE AddLedgerEntry(p) /\ pc'[p] = "commit" /\ ~Rollback(p)
    BY <1>2, <1>t, <2>1 DEF AddLedgerEntry, TypeOK
  <2>2. CASE LockReminder(p) /\ pc'[p] = "commit" /\ ~Rollback(p)
    BY <1>2, <1>t, <2>2 DEF LockReminder, TypeOK, PlaceOK
  <2>3. CASE LockWallet(p) \/ SelectBatches(p) \/ ConsumeBatch(p) \/ ConsumeDone(p)
    BY <1>2, <1>t, <2>3 DEF LockWallet, SelectBatches, ConsumeBatch, ConsumeDone, TypeOK
  <2>4. CASE Ends(p) \/ Begins(p)
    BY <1>2, <2>4 DEF Ends, Begins
  <2> QED BY <1>2, <2>1, <2>2, <2>3, <2>4, ActCases
<1> QED BY <1>1, <1>2

(* What addLedgerEntry writes, in the commits that call it. *)
Posted(p, e) ==
  LET u == job[p].user
  IN /\ \A v \in Users \ {u} : ledger'[v] = ledger[v] /\ points'[v] = points[v]
     /\ ledger'[u] = Append(ledger[u], e)
     /\ points'[u] = e.after
     /\ e.before = points[u]
     /\ e.after = e.before + e.credit - e.debit
     /\ (e.credit > 0 /\ e.debit = 0) \/ (e.debit > 0 /\ e.credit = 0)
     /\ e.credit <= MaxPoints - points[u]
     /\ e.debit <= points[u]

(* A commit that posts appends one entry that starts from the points       *)
(* before it.                                                              *)
LEMMA PostFacts ==
  ASSUME WalletInv, NEW p \in Procs, Commit(p), ~CommitReminder(p)
  PROVE  \E e \in Entry :
           /\ Posted(p, e)
           /\ e.type = "expired" <=> CommitExpire(p)
           /\ CommitExpire(p) => e.ref = job[p].batch
<1>1. PICK type \in {"credit", "debit", "expired"}, ref \in Nat :
        /\ PostEntry(p, type, ref)
        /\ type = "expired" <=> CommitExpire(p)
        /\ CommitExpire(p) => ref = job[p].batch
  <2>1. CASE CommitCredit(p)
    BY <2>1 DEF CommitCredit, CommitExpire
  <2>2. CASE CommitDebit(p)
    BY <2>2 DEF CommitDebit, CommitExpire
  <2>3. CASE CommitExpire(p)
    <3>1. job[p].batch \in Nat
      BY <2>3, CommitFacts DEF Commit, Job
    <3> QED BY <2>3, <3>1 DEF CommitExpire
  <2> QED BY <2>1, <2>2, <2>3 DEF Commit
<1>2. job[p].op # "remind" /\ pc[p] = "commit"
  BY DEF Commit, CommitCredit, CommitDebit, CommitExpire
<1>3. /\ job[p] \in Job /\ job[p].user \in Users /\ job[p].amount \in Nat
      /\ seen[p] = points[job[p].user] /\ seen[p] \in Nat
  BY <1>2, CommitFacts DEF Job, WalletInv, TypeOK
<1>4. CreditOf(job[p]) \in Nat /\ DebitOf(job[p]) \in Nat /\ (CreditOf(job[p]) = 0 \/ DebitOf(job[p]) = 0)
  BY <1>3 DEF CreditOf, DebitOf
<1>5. ~Refused(CreditOf(job[p]), DebitOf(job[p]), seen[p])
  BY <1>2 DEF WalletInv, Accepted
<1> DEFINE e == EntryOf(p, type, ref)
<1>6. /\ e.type = type /\ e.ref = ref /\ e.credit = CreditOf(job[p]) /\ e.debit = DebitOf(job[p])
      /\ e.before = seen[p] /\ e.after = After(p)
  BY DEF EntryOf
<1>7. /\ After(p) \in Nat
      /\ After(p) = seen[p] + CreditOf(job[p]) - DebitOf(job[p])
      /\ CreditOf(job[p]) <= MaxPoints - seen[p]
      /\ DebitOf(job[p]) <= seen[p]
      /\ CreditOf(job[p]) > 0 \/ DebitOf(job[p]) > 0
  BY <1>3, <1>4, <1>5, Constants DEF After, Refused
<1>8. e \in Entry
  BY <1>3, <1>4, <1>7 DEF EntryOf, Entry
<1>9. /\ \A v \in Users \ {job[p].user} : ledger'[v] = ledger[v] /\ points'[v] = points[v]
      /\ ledger'[job[p].user] = Append(ledger[job[p].user], e)
      /\ points'[job[p].user] = After(p)
  BY <1>1, <1>3 DEF PostEntry, WalletInv, TypeOK
<1> HIDE DEF e
<1>10. Posted(p, e)
  BY <1>3, <1>4, <1>6, <1>7, <1>9 DEF Posted
<1> QED BY <1>1, <1>6, <1>8, <1>10

(* Every other step leaves points and ledger alone. *)
LEMMA NoPost ==
  ASSUME NEW p \in Procs, Act(p), ~Commit(p) \/ CommitReminder(p)
  PROVE  points' = points /\ ledger' = ledger
BY OnlyCommitWrites DEF tables, CommitReminder

(* Points fit their type, for entries are refused before they overflow. *)
LEMMA PointsStep ==
  ASSUME WalletInv, NEW p \in Procs, Act(p)
  PROVE  PointsFit'
<1>t. TypeOK /\ PointsFit /\ MaxPoints \in Nat
  BY Constants DEF WalletInv
<1>1. CASE ~Commit(p) \/ CommitReminder(p)
  BY <1>1, <1>t, NoPost DEF PointsFit
<1>2. CASE Commit(p) /\ ~CommitReminder(p)
  <2>1. PICK e \in Entry : Posted(p, e)
    BY <1>2, PostFacts
  <2>2. e.credit \in Nat /\ e.debit \in Nat /\ job[p].user \in Users /\ points[job[p].user] \in Nat
    BY <1>t, <1>2, <2>1, CommitFacts DEF Entry, TypeOK
  <2>3. points'[job[p].user] <= MaxPoints
    BY <1>t, <2>1, <2>2 DEF Posted, PointsFit
  <2> QED BY <1>t, <2>1, <2>3 DEF Posted, PointsFit
<1> QED BY <1>1, <1>2

(* The lock of the users row is kept from the first locking read to the    *)
(* end.                                                                    *)
LEMMA UserLockedStep ==
  ASSUME WalletInv, NEW p \in Procs, Act(p)
  PROVE  UserLocked'
<1>k. OthersKept(p)
  BY ActKeepsOthers DEF WalletInv
<1>t. TypeOK /\ PlaceOK /\ UserLocked
  BY DEF WalletInv
<1> SUFFICES ASSUME NEW q \in Procs, HoldsUser(q)' PROVE userLock'[job'[q].user] = q
  BY DEF UserLocked
<1>1. CASE q # p
  <2>1. HoldsUser(q) /\ pc[q] # "idle" /\ job'[q] = job[q]
    BY <1>1, <1>k DEF OthersKept, HoldsUser
  <2>2. job[q].user \in Users /\ userLock[job[q].user] = q
    BY <1>t, <2>1, WorkingJob DEF UserLocked
  <2> QED BY <1>1, <1>k, <2>1, <2>2, Constants DEF OthersKept
<1>2. CASE q = p
  <2>1. CASE Ends(p)
    BY <1>2, <2>1 DEF Ends, HoldsUser
  <2>2. CASE Begins(p)
    BY <1>2, <2>2 DEF Begins, HoldsUser
  <2>3. CASE LockWallet(p)
    BY <1>2, <1>t, <2>3, WorkingJob DEF LockWallet, TypeOK
  <2>4. CASE SelectBatches(p) \/ ConsumeBatch(p) \/ ConsumeDone(p)
    BY <1>2, <1>t, <2>4 DEF SelectBatches, ConsumeBatch, ConsumeDone, HoldsUser, UserLocked, PlaceOK
  <2>5. CASE RecheckBatch(p) /\ pc'[p] = "entry" /\ ~Rollback(p)
    <3>1. userLock' = userLock /\ pc[p] = "recheck" /\ job'[p].user = job[p].user
      BY <1>t, <2>5 DEF RecheckBatch, TypeOK
    <3> QED BY <1>2, <1>t, <3>1 DEF HoldsUser, UserLocked
  <2>6. CASE AddLedgerEntry(p) /\ pc'[p] = "commit" /\ ~Rollback(p)
    BY <1>2, <1>t, <2>6, WorkingJob DEF AddLedgerEntry, TypeOK
  <2>7. CASE LockReminder(p) /\ pc'[p] = "commit" /\ ~Rollback(p)
    BY <1>2, <1>t, <2>7 DEF LockReminder, TypeOK, PlaceOK, HoldsUser
  <2> QED BY <2>1, <2>2, <2>3, <2>4, <2>5, <2>6, <2>7, ActCases
<1> QED BY <1>1, <1>2

(* No step of another transaction outdates the points read under the lock. *)
LEMMA SeenStep ==
  ASSUME WalletInv, NEW p \in Procs, Act(p)
  PROVE  SeenIsCurrent'
<1>k. OthersKept(p)
  BY ActKeepsOthers DEF WalletInv
<1>t. TypeOK /\ PlaceOK /\ UserLocked /\ SeenIsCurrent
  BY DEF WalletInv
<1> SUFFICES ASSUME NEW q \in Procs, pc'[q] = "commit", job'[q].op # "remind"
    PROVE  seen'[q] = points'[job'[q].user]
  BY DEF SeenIsCurrent
<1>1. CASE q # p
  <2>1. pc[q] = "commit" /\ job[q].op # "remind" /\ job'[q] = job[q] /\ seen'[q] = seen[q]
    BY <1>1, <1>k DEF OthersKept
  <2>2. job[q].user \in Users /\ userLock[job[q].user] = q /\ seen[q] = points[job[q].user]
    BY <1>t, <2>1, WorkingJob DEF UserLocked, HoldsUser, SeenIsCurrent
  <2> QED BY <1>1, <2>1, <2>2, WalletKept
<1>2. CASE q = p
  <2>1. CASE AddLedgerEntry(p) /\ pc'[p] = "commit" /\ ~Rollback(p)
    BY <1>2, <1>t, <2>1 DEF AddLedgerEntry, TypeOK, tables
  <2>2. CASE LockReminder(p) /\ pc'[p] = "commit" /\ ~Rollback(p)
    BY <1>2, <1>t, <2>2 DEF LockReminder, TypeOK, PlaceOK
  <2>3. CASE LockWallet(p) \/ SelectBatches(p) \/ ConsumeBatch(p) \/ ConsumeDone(p)
    BY <1>2, <1>t, <2>3 DEF LockWallet, SelectBatches, ConsumeBatch, ConsumeDone, TypeOK
  <2>4. CASE Ends(p) \/ Begins(p)
    BY <1>2, <2>4 DEF Ends, Begins
  <2> QED BY <1>2, <2>1, <2>2, <2>3, <2>4, ActCases
<1> QED BY <1>1, <1>2

(* The batch rows a step of p takes were free. *)
LEMMA RowsOfActor ==
  ASSUME WalletInv, NEW p \in Procs, Act(p)
  PROVE  /\ rows'[p] # {} => /\ pc'[p] \in {"consume", "entry", "commit"}
                             /\ pc[p] # "idle" /\ job'[p].user = job[p].user
         /\ \A i \in rows'[p] : i \in rows[p] \/ BatchFree(p, job[p].user, i)
<1>t. TypeOK /\ PlaceOK /\ RowsExclusive
  BY DEF WalletInv
<1>1. CASE Ends(p)
  BY <1>1 DEF Ends
<1>2. CASE Begins(p)
  BY <1>t, <1>2 DEF Begins, RowsExclusive, memory
<1>3. CASE LockWallet(p)
  BY <1>t, <1>3 DEF LockWallet, RowsExclusive
<1>4. CASE SelectBatches(p)
  BY <1>t, <1>4 DEF SelectBatches, TypeOK
<1>5. CASE ConsumeBatch(p) \/ ConsumeDone(p)
  BY <1>t, <1>5 DEF ConsumeBatch, ConsumeDone, RowsExclusive, TypeOK, memory
<1>6. CASE RecheckBatch(p) /\ pc'[p] = "entry" /\ ~Rollback(p)
  BY <1>t, <1>6 DEF RecheckBatch, TypeOK
<1>7. CASE AddLedgerEntry(p) /\ pc'[p] = "commit" /\ ~Rollback(p)
  BY <1>t, <1>7 DEF AddLedgerEntry, RowsExclusive, TypeOK
<1>8. CASE LockReminder(p) /\ pc'[p] = "commit" /\ ~Rollback(p)
  BY <1>t, <1>8 DEF LockReminder, TypeOK
<1> QED BY <1>1, <1>2, <1>3, <1>4, <1>5, <1>6, <1>7, <1>8, ActCases

(* Batch rows are exclusive: SELECT ... FOR UPDATE takes only free ones. *)
LEMMA RowsStep ==
  ASSUME WalletInv, NEW p \in Procs, Act(p)
  PROVE  RowsExclusive'
<1>k. OthersKept(p)
  BY ActKeepsOthers DEF WalletInv
<1>t. PlaceOK /\ RowsExclusive
  BY DEF WalletInv
<1>1. \A q \in Procs : rows'[q] # {} => pc'[q] \in {"consume", "entry", "commit"}
  BY <1>k, <1>t, RowsOfActor DEF OthersKept, RowsExclusive
<1>n. NoJob.op = "none" /\ \A j \in Job : j # NoJob
  BY DEF NoJob, Job
<1>2. ASSUME NEW q \in Procs, q # p, pc'[p] # "idle", pc'[q] # "idle", job'[p].user = job'[q].user
      PROVE  rows'[p] \cap rows'[q] = {}
  <2>1. pc[q] # "idle" /\ job'[q] = job[q] /\ rows'[q] = rows[q] /\ job[q] # NoJob
    BY <1>2, <1>k, <1>n, WorkingJob DEF OthersKept
  <2>2. CASE rows'[p] = {}
    BY <2>2
  <2>3. CASE rows'[p] # {}
    <3>1. pc[p] # "idle" /\ job[p].user = job[q].user
      BY <1>2, <2>1, <2>3, RowsOfActor
    <3>2. rows[p] \cap rows[q] = {}
      BY <1>2, <1>t, <2>1, <3>1 DEF RowsExclusive
    <3>3. \A i \in rows'[p] : i \notin rows[q]
      BY <1>2, <2>1, <3>1, <3>2, RowsOfActor DEF BatchFree
    <3> QED BY <2>1, <3>3
  <2> QED BY <2>2, <2>3
<1>3. ASSUME NEW q \in Procs, NEW r \in Procs, q # p, r # p, q # r,
             pc'[q] # "idle", pc'[r] # "idle", job'[q].user = job'[r].user
      PROVE  rows'[q] \cap rows'[r] = {}
  BY <1>3, <1>k, <1>t DEF OthersKept, RowsExclusive
<1> QED BY <1>1, <1>2, <1>3 DEF RowsExclusive

(* ExpireCoinBatch and SendExpiryReminder write the batch they looked at. *)
LEMMA ClaimStep ==
  ASSUME WalletInv, NEW p \in Procs, Act(p)
  PROVE  BatchClaimed'
<1>k. OthersKept(p) /\ BatchesKept(p)
  BY ActKeepsOthers, ActKeepsBatches DEF WalletInv
<1>t. TypeOK /\ PlaceOK /\ UserLocked /\ BatchClaimed
  BY DEF WalletInv
<1> SUFFICES ASSUME NEW q \in Procs
    PROVE  /\ pc'[q] = "commit" /\ job'[q].op = "remind" => rows'[q] = {job'[q].batch}
           /\ pc'[q] \in {"entry", "commit"} /\ job'[q].op = "expire" =>
                /\ rows'[q] = {job'[q].batch}
                /\ batches'[job'[q].user][job'[q].batch].balance = job'[q].amount
                /\ batches'[job'[q].user][job'[q].batch].balance > 0
                /\ batches'[job'[q].user][job'[q].batch].expires <= now'
  BY DEF BatchClaimed
<1>1. CASE q # p
  <2>1. pc'[q] = pc[q] /\ job'[q] = job[q] /\ rows'[q] = rows[q] /\ now' = now
    BY <1>1, <1>k DEF OthersKept
  <2>2. ASSUME pc[q] \in {"entry", "commit"}, job[q].op = "expire"
        PROVE  /\ rows[q] = {job[q].batch}
               /\ batches'[job[q].user][job[q].batch].balance = job[q].amount
               /\ batches'[job[q].user][job[q].batch].balance > 0
               /\ batches'[job[q].user][job[q].batch].expires <= now
    <3>1. userLock[job[q].user] = q
      BY <1>t, <2>2 DEF UserLocked, HoldsUser
    <3>2. job[q].user \in Users /\ job[q].batch \in DOMAIN batches[job[q].user]
      BY <1>t, <2>2, WorkingJob DEF PlaceOK
    <3>3. /\ batches'[job[q].user][job[q].batch].balance = batches[job[q].user][job[q].batch].balance
          /\ batches'[job[q].user][job[q].batch].expires = batches[job[q].user][job[q].batch].expires
      BY <1>1, <1>k, <3>1, <3>2 DEF BatchesKept
    <3> QED BY <1>t, <2>2, <3>3 DEF BatchClaimed
  <2> QED BY <1>t, <2>1, <2>2 DEF BatchClaimed
<1>2. CASE q = p
  <2>1. CASE Ends(p)
    BY <1>2, <2>1 DEF Ends
  <2>2. CASE Begins(p)
    BY <1>2, <2>2 DEF Begins
  <2>3. CASE LockWallet(p) \/ SelectBatches(p) \/ ConsumeBatch(p)
    BY <1>2, <1>t, <2>3 DEF LockWallet, SelectBatches, ConsumeBatch, TypeOK
  <2>4. CASE ConsumeDone(p)
    BY <1>2, <1>t, <2>4 DEF ConsumeDone, PlaceOK, TypeOK
  <2>5. CASE RecheckBatch(p) /\ pc'[p] = "entry" /\ ~Rollback(p)
    <3> DEFINE u == job[p].user
               i == job[p].batch
               j == [op |-> "expire", user |-> u, batch |-> i, amount |-> batches[u][i].balance]
    <3>1. /\ job'[p] = j /\ rows'[p] = {i}
          /\ batches' = batches /\ now' = now
          /\ DueForExpiry(batches[u][i], now)
      BY <1>t, <2>5 DEF RecheckBatch, TypeOK, tables
    <3>2. j.op = "expire" /\ j.user = u /\ j.batch = i /\ j.amount = batches[u][i].balance
      OBVIOUS
    <3> HIDE DEF j
    <3> QED BY <1>2, <3>1, <3>2 DEF DueForExpiry
  <2>6. CASE AddLedgerEntry(p) /\ pc'[p] = "commit" /\ ~Rollback(p)
    <3>1. /\ pc[p] = "entry" /\ job'[p] = job[p] /\ rows'[p] = rows[p]
          /\ batches' = batches /\ now' = now
      BY <1>t, <2>6 DEF AddLedgerEntry, tables
    <3> QED BY <1>2, <1>t, <3>1 DEF BatchClaimed, PlaceOK
  <2>7. CASE LockReminder(p) /\ pc'[p] = "commit" /\ ~Rollback(p)
    BY <1>2, <1>t, <2>7 DEF LockReminder, TypeOK, PlaceOK
  <2> QED BY <2>1, <2>2, <2>3, <2>4, <2>5, <2>6, <2>7, ActCases
<1> QED BY <1>1, <1>2

(* Clock readings stay behind the clock, and a minted batch expires last. *)
LEMMA ClockStep ==
  ASSUME WalletInv, NEW p \in Procs, Act(p)
  PROVE  ClockOK'
<1>k. OthersKept(p) /\ BatchesKept(p)
  BY ActKeepsOthers, ActKeepsBatches DEF WalletInv
<1>t. TypeOK /\ PlaceOK /\ UserLocked /\ BatchesOrdered /\ ClockOK
  BY DEF WalletInv
<1> SUFFICES ASSUME NEW q \in Procs
    PROVE  /\ clock'[q] <= now'
           /\ pc'[q] = "commit" /\ job'[q].op = "credit" =>
                \A i \in DOMAIN batches'[job'[q].user] :
                  batches'[job'[q].user][i].expires <= clock'[q] + Year
  BY DEF ClockOK
<1>1. CASE q # p
  <2>1. pc'[q] = pc[q] /\ job'[q] = job[q] /\ clock'[q] = clock[q] /\ now' = now
    BY <1>1, <1>k DEF OthersKept
  <2>2. ASSUME pc[q] = "commit", job[q].op = "credit"
        PROVE  \A i \in DOMAIN batches'[job[q].user] :
                  batches'[job[q].user][i].expires <= clock[q] + Year
    <3>1. userLock[job[q].user] = q /\ job[q].user \in Users
      BY <1>t, <2>2, WorkingJob DEF UserLocked, HoldsUser
    <3>2. DOMAIN batches'[job[q].user] = DOMAIN batches[job[q].user]
      BY <1>1, <1>k, <3>1 DEF BatchesKept
    <3>3. \A i \in DOMAIN batches[job[q].user] :
            batches'[job[q].user][i].expires = batches[job[q].user][i].expires
      BY <1>k, <3>1 DEF BatchesKept
    <3> QED BY <1>t, <2>2, <3>2, <3>3 DEF ClockOK
  <2> QED BY <1>t, <2>1, <2>2 DEF ClockOK
<1>2. CASE q = p
  <2>1. now' = now /\ now \in Nat /\ clock[p] \in Nat
    BY <1>k, <1>t DEF OthersKept, TypeOK
  <2>2. CASE Ends(p)
    BY <1>2, <2>1, <2>2 DEF Ends
  <2>3. CASE Begins(p)
    BY <1>2, <1>t, <2>1, <2>3 DEF Begins, ClockOK, memory
  <2>4. CASE LockWallet(p)
    BY <1>2, <1>t, <2>1, <2>4 DEF LockWallet, TypeOK
  <2>5. CASE SelectBatches(p) \/ ConsumeBatch(p) \/ ConsumeDone(p)
    BY <1>2, <1>t, <2>1, <2>5 DEF SelectBatches, ConsumeBatch, ConsumeDone, TypeOK, ClockOK, memory
  <2>6. CASE RecheckBatch(p) /\ pc'[p] = "entry" /\ ~Rollback(p)
    BY <1>2, <1>t, <2>1, <2>6 DEF RecheckBatch, TypeOK, ClockOK
  <2>7. CASE AddLedgerEntry(p) /\ pc'[p] = "commit" /\ ~Rollback(p)
    <3>1. clock'[p] = now /\ job'[p] = job[p] /\ batches' = batches /\ pc[p] = "entry"
      BY <1>t, <2>7 DEF AddLedgerEntry, TypeOK, tables
    <3>2. job[p].user \in Users
      BY <3>1, WorkingJob
    <3> QED BY <1>2, <1>t, <2>1, <3>1, <3>2 DEF BatchesOrdered
  <2>8. CASE LockReminder(p) /\ pc'[p] = "commit" /\ ~Rollback(p)
    BY <1>2, <1>t, <2>1, <2>8 DEF LockReminder, TypeOK, ClockOK, PlaceOK
  <2> QED BY <2>2, <2>3, <2>4, <2>5, <2>6, <2>7, <2>8, ActCases
<1> QED BY <1>1, <1>2

(* Batches stay in the order in which they expire. *)
LEMMA OrderedStep ==
  ASSUME WalletInv, TypeOK', NEW p \in Procs, Act(p)
  PROVE  BatchesOrdered'
<1>k. OthersKept(p) /\ BatchesKept(p)
  BY ActKeepsOthers, ActKeepsBatches DEF WalletInv
<1>t. TypeOK /\ BatchesOrdered /\ ClockOK
  BY DEF WalletInv
<1>now. now' = now /\ now \in Nat
  BY <1>k, <1>t DEF OthersKept, TypeOK
<1>b. \A u \in Users : \A i \in DOMAIN batches[u] :
        batches[u][i].balance \in Nat /\ batches[u][i].amount \in Nat
          /\ batches[u][i].expires \in Nat
  <2>1. \A u \in Users : \A i \in DOMAIN batches[u] : batches[u][i] \in Batch
    BY <1>t DEF TypeOK
  <2> QED BY <2>1 DEF Batch
<1>b2. \A u \in Users : \A i \in DOMAIN batches'[u] : batches'[u][i].balance \in Nat
  <2>1. \A u \in Users : \A i \in DOMAIN batches'[u] : batches'[u][i] \in Batch
    BY DEF TypeOK
  <2> QED BY <2>1 DEF Batch
<1>1. CASE ~CommitCredit(p)
  <2>1. \A u \in Users : DOMAIN batches'[u] = DOMAIN batches[u]
    <3>1. CASE ~Commit(p)
      BY <3>1, OnlyCommitWrites DEF tables
    <3>2. CASE CommitDebit(p)
      BY <3>2, DebitBatches
    <3>3. CASE CommitExpire(p) \/ CommitReminder(p)
      BY <3>3, OneBatch
    <3> QED BY <1>1, <3>1, <3>2, <3>3 DEF Commit
  <2>2. \A u \in Users : \A i \in DOMAIN batches[u] :
          /\ batches'[u][i].amount = batches[u][i].amount
          /\ batches'[u][i].expires = batches[u][i].expires
          /\ batches'[u][i].balance <= batches[u][i].balance
    BY <1>k DEF BatchesKept
  <2>3. \A u \in Users : \A i \in DOMAIN batches'[u] : batches'[u][i].balance <= batches'[u][i].amount
    BY <1>t, <1>b, <1>b2, <2>1, <2>2 DEF BatchesOrdered
  <2> QED BY <1>t, <1>now, <2>1, <2>2, <2>3 DEF BatchesOrdered
<1>2. CASE CommitCredit(p)
  <2> DEFINE u == job[p].user
             n == Len(batches[u])
  <2>1. /\ \A v \in Users \ {u} : batches'[v] = batches[v]
        /\ DOMAIN batches[u] = 1..n
        /\ DOMAIN batches'[u] = 1..(n + 1)
        /\ \A i \in 1..n : batches'[u][i] = batches[u][i]
        /\ batches'[u][n + 1] = Minted(p)
    BY <1>2, CreditBatches
  <2>2. u \in Users /\ n \in Nat /\ pc[p] = "commit" /\ job[p] \in Job /\ job[p].op = "credit"
    <3>1. u \in Users /\ batches[u] \in Seq(Batch) /\ pc[p] = "commit" /\ job[p] \in Job
      BY <1>2, CommitFacts DEF Commit
    <3>2. n \in Nat
      BY <3>1
    <3> QED BY <1>2, <3>1, <3>2 DEF CommitCredit
  <2>3. /\ Minted(p).balance = Minted(p).amount
        /\ Minted(p).balance \in Nat
        /\ Minted(p).expires = clock[p] + Year
    BY <2>2 DEF Minted, Job
  <2>4. clock[p] \in Nat /\ clock[p] <= now /\ Year \in Nat
    BY <1>t, Constants DEF TypeOK, ClockOK
  <2>5. \A i \in 1..n : batches[u][i].expires <= clock[p] + Year
    BY <1>t, <2>1, <2>2 DEF ClockOK
  <2> HIDE DEF n, u
  <2>6. /\ batches'[u][n + 1].balance <= batches'[u][n + 1].amount
        /\ batches'[u][n + 1].expires <= now + Year
    <3>1. batches'[u][n + 1] = Minted(p)
      BY <2>1
    <3>2. now \in Nat
      BY <1>now
    <3> QED BY <2>3, <2>4, <3>1, <3>2
  <2>7. \A i \in DOMAIN batches'[u] :
          /\ batches'[u][i].balance <= batches'[u][i].amount
          /\ batches'[u][i].expires <= now + Year
    BY <1>t, <2>1, <2>2, <2>6 DEF BatchesOrdered
  <2>8. ASSUME NEW i \in DOMAIN batches'[u], NEW k \in DOMAIN batches'[u], i <= k
        PROVE  batches'[u][i].expires <= batches'[u][k].expires
    <3>1. CASE k \in 1..n
      BY <1>t, <2>1, <2>2, <2>8, <3>1 DEF BatchesOrdered
    <3>2. CASE k = n + 1 /\ i \in 1..n
      BY <2>1, <2>2, <2>3, <2>5, <3>2
    <3>3. CASE k = n + 1 /\ i = n + 1
      BY <2>1, <2>3, <2>4, <3>3
    <3> QED BY <2>1, <2>2, <2>8, <3>1, <3>2, <3>3
  <2>9. ASSUME NEW v \in Users, v # u
        PROVE  \A i \in DOMAIN batches'[v] :
                 /\ batches'[v][i].balance <= batches'[v][i].amount
                 /\ batches'[v][i].expires <= now + Year
                 /\ \A k \in DOMAIN batches'[v] : i <= k => batches'[v][i].expires <= batches'[v][k].expires
    BY <1>t, <2>1, <2>9 DEF BatchesOrdered
  <2> QED BY <1>now, <2>2, <2>7, <2>8, <2>9 DEF BatchesOrdered, u
<1> QED BY <1>1, <1>2

(* The copy a debit made stays good while other transactions run. *)
LEMMA CopyUndisturbed ==
  ASSUME WalletInv, NEW p \in Procs, Act(p), NEW q \in Procs, q # p,
         job[q].op = "debit", pc[q] \in {"consume", "entry", "commit"}
  PROVE  CopyOK(q)'
<1>k. OthersKept(p) /\ BatchesKept(p)
  BY ActKeepsOthers, ActKeepsBatches DEF WalletInv
<1> DEFINE u == job[q].user
<1>1. u \in Users /\ userLock[u] = q /\ CopyOK(q) /\ pc[q] # "idle"
  BY WorkingJob DEF WalletInv, UserLocked, HoldsUser, DebitCopy
<1>2. /\ DOMAIN batches'[u] = DOMAIN batches[u]
      /\ \A i \in DOMAIN batches[u] :
           /\ batches'[u][i].amount = batches[u][i].amount
           /\ batches'[u][i].expires = batches[u][i].expires
           /\ batches'[u][i].balance = batches[u][i].balance
           /\ batches'[u][i] # batches[u][i] => pc[p] = "commit" /\ u = job[p].user /\ i \in rows[p]
  BY <1>k, <1>1 DEF BatchesKept
<1>3. \A i \in rows[q] : batches'[u][i] = batches[u][i]
  <2>1. pc[p] = "commit" /\ u = job[p].user => rows[q] \cap rows[p] = {}
    BY <1>1 DEF WalletInv, RowsExclusive
  <2>2. rows[q] \subseteq DOMAIN batches[u]
    BY <1>1 DEF CopyOK
  <2> QED BY <1>2, <2>1, <2>2
<1>4. /\ job'[q] = job[q] /\ work'[q] = work[q] /\ rem'[q] = rem[q]
      /\ cursor'[q] = cursor[q] /\ rows'[q] = rows[q] /\ now' = now
  BY <1>k DEF OthersKept
<1> QED BY <1>1, <1>2, <1>3, <1>4 DEF CopyOK

(* The copy a debit works on stays what CopyOK says while its loop runs. *)
LEMMA CopyStep ==
  ASSUME WalletInv, NEW p \in Procs, Act(p)
  PROVE  DebitCopy'
<1>k. OthersKept(p)
  BY ActKeepsOthers DEF WalletInv
<1>t. TypeOK /\ PlaceOK /\ DebitCopy /\ ClockOK
  BY DEF WalletInv
<1> SUFFICES ASSUME NEW q \in Procs, job'[q].op = "debit", pc'[q] \in {"consume", "entry", "commit"}
    PROVE  CopyOK(q)'
  BY DEF DebitCopy
<1>1. CASE q # p
  BY <1>1, <1>k, CopyUndisturbed DEF OthersKept
<1>2. CASE q = p
  <2>1. CASE Ends(p)
    BY <1>2, <2>1 DEF Ends
  <2>2. CASE Begins(p)
    BY <1>2, <2>2 DEF Begins
  <2>3. CASE LockWallet(p)
    BY <1>2, <1>t, <2>3 DEF LockWallet, TypeOK
  <2>4. CASE SelectBatches(p)
    <3> DEFINE u == job[p].user
    <3>1. /\ pc[p] = "select" /\ cursor[p] = 0 /\ cursor' = cursor /\ job' = job
          /\ rows'[p] = Selected(u, clock[p]) /\ work'[p] = batches[u]
          /\ batches' = batches /\ now' = now
      BY <1>t, <2>4 DEF SelectBatches, TypeOK, PlaceOK, tables
    <3>2. u \in Users /\ batches[u] \in Seq(Batch) /\ now \in Nat /\ clock[p] \in Nat /\ clock[p] <= now
      BY <1>t, <3>1, WorkingJob DEF TypeOK, ClockOK
    <3>3. \A i \in DOMAIN batches[u] : batches[u][i] \in Batch /\ i \in Nat /\ i > 0
      BY <3>2
    <3>4. \A i \in DOMAIN batches[u] : batches[u][i].balance \in Nat /\ batches[u][i].expires \in Nat
      BY <3>3 DEF Batch
    <3>5. \A i \in DOMAIN batches[u] \ Selected(u, clock[p]) :
            batches[u][i].balance = 0 \/ batches[u][i].expires <= now
      BY <3>2, <3>4 DEF Selected, Spendable
    <3>6. Selected(u, clock[p]) \subseteq DOMAIN batches[u]
      BY DEF Selected
    <3> QED BY <1>2, <3>1, <3>3, <3>4, <3>5, <3>6 DEF CopyOK
  <2>5. CASE ConsumeBatch(p)
    <3> DEFINE u == job[p].user
    <3>1. /\ pc[p] = "consume" /\ rem[p] > 0 /\ job' = job /\ rows' = rows
          /\ batches' = batches /\ now' = now
      BY <2>5 DEF ConsumeBatch, tables
    <3>2. PICK i \in rows[p] :
            /\ IsNext(p, i)
            /\ work' = [work EXCEPT ![p] = [work[p] EXCEPT ![i] =
                          WithBalance(work[p][i], work[p][i].balance - Taken(work[p][i].balance, rem[p]))]]
            /\ rem' = [rem EXCEPT ![p] = rem[p] - Taken(work[p][i].balance, rem[p])]
            /\ cursor' = [cursor EXCEPT ![p] = i]
      BY <2>5 DEF ConsumeBatch
    <3>3. job[p].op = "debit" /\ CopyOK(p)
      BY <1>t, <3>1 DEF PlaceOK, DebitCopy
    <3>4. u \in Users /\ work[p] \in Seq(Batch) /\ rem[p] \in Nat /\ cursor[p] \in Nat /\ rows[p] \subseteq Nat
      BY <1>t, <3>1, WorkingJob DEF TypeOK
    <3>5. i \in DOMAIN work[p]
      BY <3>2, <3>3 DEF CopyOK
    <3>6. \A k \in DOMAIN work[p] : work[p][k] \in Batch
      BY <3>4
    <3>7. work[p][i].balance \in Nat
      BY <3>5, <3>6 DEF Batch
    <3> DEFINE left == work[p][i].balance - Taken(work[p][i].balance, rem[p])
               b == WithBalance(work[p][i], left)
    <3>8. /\ rem'[p] = rem[p] - Taken(work[p][i].balance, rem[p]) /\ cursor'[p] = i
          /\ work'[p] = [work[p] EXCEPT ![i] = b]
      BY <1>t, <3>2 DEF TypeOK
    <3>9. left \in Nat /\ left <= work[p][i].balance /\ (rem'[p] > 0 => left = 0)
      BY <3>1, <3>4, <3>7, <3>8 DEF Taken
    <3>10. /\ b.amount = work[p][i].amount /\ b.expires = work[p][i].expires
           /\ b.reminded = work[p][i].reminded /\ b.balance = left
      BY DEF WithBalance
    <3> HIDE DEF b, left
    <3>11. DOMAIN work'[p] = DOMAIN work[p] /\ work'[p][i] = b
           /\ \A k \in DOMAIN work[p] \ {i} : work'[p][k] = work[p][k]
      BY <3>4, <3>5, <3>8
    <3>12. batches[u] \in Seq(Batch) /\ i \in DOMAIN batches[u]
      BY <1>t, <3>3, <3>4, <3>5 DEF TypeOK, CopyOK
    <3>13. batches[u][i] \in Batch
      BY <3>12
    <3>14. batches[u][i].balance \in Nat
      BY <3>13 DEF Batch
    <3>15. \A k \in rows[p] :
             /\ k < i => work[p][k].balance = 0
             /\ k = i \/ k # i
      BY <3>1, <3>2, <3>3, <3>4 DEF IsNext, Unvisited, CopyOK
    <3>16. work'[p][i].balance <= batches[u][i].balance
      BY <3>3, <3>7, <3>9, <3>10, <3>11, <3>14 DEF CopyOK
    <3>17. \A k \in rows[p] :
             /\ work'[p][k].amount = batches[u][k].amount
             /\ work'[p][k].expires = batches[u][k].expires
             /\ work'[p][k].reminded = batches[u][k].reminded
             /\ work'[p][k].balance <= batches[u][k].balance
             /\ k < i => work'[p][k].balance = 0
             /\ k = i /\ rem'[p] > 0 => work'[p][k].balance = 0
      <4> SUFFICES ASSUME NEW k \in rows[p]
          PROVE  /\ work'[p][k].amount = batches[u][k].amount
                 /\ work'[p][k].expires = batches[u][k].expires
                 /\ work'[p][k].reminded = batches[u][k].reminded
                 /\ work'[p][k].balance <= batches[u][k].balance
                 /\ k < i => work'[p][k].balance = 0
                 /\ k = i /\ rem'[p] > 0 => work'[p][k].balance = 0
        OBVIOUS
      <4>1. CASE k = i
        BY <3>3, <3>4, <3>9, <3>10, <3>11, <3>16, <4>1 DEF CopyOK
      <4>2. CASE k # i
        BY <3>3, <3>11, <3>15, <4>2 DEF CopyOK
      <4> QED BY <4>1, <4>2
    <3> QED BY <1>2, <3>1, <3>3, <3>8, <3>11, <3>17 DEF CopyOK
  <2>6. CASE ConsumeDone(p)
    <3>1. /\ pc[p] = "consume" /\ UNCHANGED <<batches, job, work, rem, cursor, rows, now>>
      BY <2>6 DEF ConsumeDone, tables, memory
    <3>2. CopyOK(p)
      BY <1>t, <3>1 DEF DebitCopy, PlaceOK
    <3> QED BY <1>2, <3>1, <3>2 DEF CopyOK
  <2>7. CASE RecheckBatch(p) /\ pc'[p] = "entry" /\ ~Rollback(p)
    <3>1. job'[p].op = "expire"
      BY <1>t, <2>7 DEF RecheckBatch, TypeOK
    <3> QED BY <1>2, <3>1
  <2>8. CASE AddLedgerEntry(p) /\ pc'[p] = "commit" /\ ~Rollback(p)
    <3>1. /\ pc[p] = "entry" /\ UNCHANGED <<batches, job, work, rem, cursor, rows, now>>
      BY <2>8 DEF AddLedgerEntry, tables
    <3>2. CopyOK(p)
      BY <1>2, <1>t, <3>1 DEF DebitCopy
    <3> QED BY <1>2, <3>1, <3>2 DEF CopyOK
  <2>9. CASE LockReminder(p) /\ pc'[p] = "commit" /\ ~Rollback(p)
    BY <1>2, <1>t, <2>9 DEF LockReminder, TypeOK, PlaceOK
  <2> QED BY <2>1, <2>2, <2>3, <2>4, <2>5, <2>6, <2>7, <2>8, <2>9, ActCases
<1> QED BY <1>1, <1>2

-----------------------------------------------------------------------------
(* Every step keeps the inductive invariant. *)
LEMMA WalletInvStep == WalletInv /\ [Next]_vars => WalletInv'
<1> SUFFICES ASSUME WalletInv, [Next]_vars PROVE WalletInv'
  OBVIOUS
<1>0. TypeOK'
  BY TypeStep
<1>1. CASE \E p \in Procs : Act(p)
  BY <1>0, <1>1, PlaceStep, AcceptedStep, UserLockedStep, RowsStep, SeenStep, ClaimStep,
     OrderedStep, ClockStep, CopyStep, PointsStep DEF WalletInv
<1>2. CASE Tick
  <2>1. /\ now' = now + 1 /\ now \in Nat /\ Year \in Nat
        /\ UNCHANGED <<points, ledger, batches, notified, userLock, pc, job,
                       seen, clock, work, rem, cursor, rows>>
    BY <1>2, Constants DEF Tick, tables, memory, WalletInv, TypeOK
  <2>b. \A u \in Users : \A i \in DOMAIN batches[u] : batches[u][i].expires \in Nat
    <3>1. \A u \in Users : \A i \in DOMAIN batches[u] : batches[u][i] \in Batch
      BY DEF WalletInv, TypeOK
    <3> QED BY <3>1 DEF Batch
  <2>2. /\ PlaceOK' /\ Accepted' /\ UserLocked' /\ RowsExclusive' /\ SeenIsCurrent'
        /\ PointsFit'
    BY <2>1 DEF WalletInv, PlaceOK, Accepted, PointsFit, UserLocked, HoldsUser, RowsExclusive, SeenIsCurrent
  <2>3. BatchesOrdered'
    BY <2>1, <2>b DEF WalletInv, BatchesOrdered
  <2>4. ClockOK'
    <3>1. clock \in [Procs -> Nat]
      BY DEF WalletInv, TypeOK
    <3> QED BY <2>1, <3>1 DEF WalletInv, ClockOK
  <2>5. BatchClaimed'
    <3> SUFFICES ASSUME NEW p \in Procs
        PROVE  /\ pc[p] = "commit" /\ job[p].op = "remind" => rows[p] = {job[p].batch}
               /\ pc[p] \in {"entry", "commit"} /\ job[p].op = "expire" =>
                    LET b == batches[job[p].user][job[p].batch]
                    IN /\ rows[p] = {job[p].batch}
                       /\ b.balance = job[p].amount
                       /\ b.balance > 0
                       /\ b.expires <= now + 1
      BY <2>1 DEF BatchClaimed
    <3>1. pc[p] # "idle" /\ job[p].op = "expire" => job[p].user \in Users /\ job[p].batch \in DOMAIN batches[job[p].user]
      BY WorkingJob DEF WalletInv, PlaceOK
    <3> QED BY <2>1, <2>b, <3>1 DEF WalletInv, BatchClaimed
  <2>6. DebitCopy'
    <3> SUFFICES ASSUME NEW p \in Procs, job[p].op = "debit", pc[p] \in {"consume", "entry", "commit"}
        PROVE  CopyOK(p)'
      BY <2>1 DEF DebitCopy
    <3>1. CopyOK(p) /\ job[p].user \in Users
      BY WorkingJob DEF WalletInv, DebitCopy
    <3> QED BY <2>1, <2>b, <3>1 DEF CopyOK
  <2> QED BY <1>0, <2>2, <2>3, <2>4, <2>5, <2>6 DEF WalletInv
<1>3. CASE UNCHANGED vars
  BY <1>0, <1>3 DEF vars, WalletInv, PlaceOK, Accepted, UserLocked, HoldsUser, RowsExclusive,
     SeenIsCurrent, BatchClaimed, BatchesOrdered, ClockOK, DebitCopy, CopyOK, PointsFit
<1> QED BY <1>1, <1>2, <1>3, StepIsTickOrAct

(* The inductive invariant holds in every reachable state. *)
THEOREM WalletInvHolds == Spec => []WalletInv
BY WalletInvInit, WalletInvStep, PTL DEF Spec

-----------------------------------------------------------------------------
(* Nobody waits for ever.                                                  *)

LEMMA OwnedStep ==
  ASSUME WalletInv, LocksOwned, NEW p \in Procs, Act(p)
  PROVE  LocksOwned'
<1>t. TypeOK /\ PlaceOK /\ RowsExclusive /\ OthersKept(p)
  BY ActKeepsOthers DEF WalletInv
<1>n. NoJob.op = "none"
  BY DEF NoJob
<1>1. ASSUME NEW q \in Procs, q # p, NEW u \in Users, userLock'[u] = q
      PROVE  HoldsUser(q)' /\ job'[q].user = u
  <2>1. userLock[u] = q /\ pc'[q] = pc[q] /\ job'[q] = job[q]
    BY <1>1, <1>t, Constants DEF OthersKept
  <2> QED BY <2>1 DEF LocksOwned, HoldsUser
<1>2. ASSUME NEW q \in Procs, q # p, rows'[q] # {}
      PROVE  job'[q].op # "credit"
  BY <1>2, <1>t DEF OthersKept, LocksOwned
<1>3. ASSUME NEW u \in Users, userLock'[u] = p
      PROVE  HoldsUser(p)' /\ job'[p].user = u
  <2>1. CASE Ends(p)
    BY <1>3, <2>1 DEF Ends
  <2>2. CASE Begins(p)
    BY <1>3, <2>2 DEF Begins, LocksOwned, HoldsUser
  <2>3. CASE LockWallet(p)
    <3>1. userLock[u] # p
      BY <2>3 DEF LockWallet, LocksOwned, HoldsUser
    <3>2. u = job[p].user
      BY <1>3, <1>t, <2>3, <3>1 DEF LockWallet, TypeOK
    <3> QED BY <1>t, <2>3, <3>2 DEF LockWallet, TypeOK, HoldsUser
  <2>4. CASE SelectBatches(p) \/ ConsumeBatch(p) \/ ConsumeDone(p)
    BY <1>3, <1>t, <2>4
       DEF SelectBatches, ConsumeBatch, ConsumeDone, LocksOwned, HoldsUser, PlaceOK, TypeOK
  <2>5. CASE RecheckBatch(p) /\ pc'[p] = "entry" /\ ~Rollback(p)
    <3>1. userLock' = userLock /\ job'[p].user = job[p].user /\ job'[p].op = "expire"
      BY <1>t, <2>5 DEF RecheckBatch, TypeOK
    <3> QED BY <1>3, <2>5, <3>1 DEF LocksOwned, HoldsUser
  <2>6. CASE AddLedgerEntry(p) /\ pc'[p] = "commit" /\ ~Rollback(p)
    <3>1. /\ userLock' = [userLock EXCEPT ![job[p].user] = p] /\ job' = job
          /\ job[p].op # "remind"
      BY <1>t, <2>6 DEF AddLedgerEntry, PlaceOK
    <3>2. u = job[p].user \/ userLock[u] = p
      BY <1>3, <1>t, <3>1 DEF TypeOK
    <3> QED BY <2>6, <3>1, <3>2 DEF LocksOwned, HoldsUser
  <2>7. CASE LockReminder(p) /\ pc'[p] = "commit" /\ ~Rollback(p)
    BY <1>3, <2>7 DEF LockReminder, LocksOwned, HoldsUser
  <2> QED BY <2>1, <2>2, <2>3, <2>4, <2>5, <2>6, <2>7, ActCases
<1>4. ASSUME rows'[p] # {}
      PROVE  job'[p].op # "credit"
  <2>1. CASE Ends(p)
    BY <1>4, <2>1 DEF Ends
  <2>2. CASE Begins(p)
    BY <1>4, <1>t, <2>2 DEF Begins, RowsExclusive, memory
  <2>3. CASE LockWallet(p)
    BY <1>4, <2>3 DEF LockWallet, LocksOwned
  <2>4. CASE SelectBatches(p) \/ ConsumeBatch(p) \/ ConsumeDone(p)
    BY <1>4, <1>t, <2>4 DEF SelectBatches, ConsumeBatch, ConsumeDone, PlaceOK
  <2>5. CASE RecheckBatch(p) /\ pc'[p] = "entry" /\ ~Rollback(p)
    BY <1>t, <2>5 DEF RecheckBatch, TypeOK
  <2>6. CASE AddLedgerEntry(p) /\ pc'[p] = "commit" /\ ~Rollback(p)
    BY <1>4, <2>6 DEF AddLedgerEntry, LocksOwned
  <2>7. CASE LockReminder(p) /\ pc'[p] = "commit" /\ ~Rollback(p)
    BY <1>t, <2>7 DEF LockReminder, PlaceOK
  <2> QED BY <2>1, <2>2, <2>3, <2>4, <2>5, <2>6, <2>7, ActCases
<1> QED BY <1>1, <1>2, <1>3, <1>4 DEF LocksOwned

LEMMA LocksOwnedStep == WalletInv /\ LocksOwned /\ [Next]_vars => LocksOwned'
<1> SUFFICES ASSUME WalletInv, LocksOwned, [Next]_vars PROVE LocksOwned'
  OBVIOUS
<1>1. CASE Tick \/ UNCHANGED vars
  BY <1>1 DEF Tick, vars, memory, LocksOwned, HoldsUser
<1> QED BY <1>1, OwnedStep, StepIsTickOrAct

(* Who is waited for holds the user, or batch rows.                        *)
LEMMA WaitsFacts ==
  ASSUME WalletInv, LocksOwned, NEW p \in Procs, NEW q \in Procs, WaitsFor(p, q)
  PROVE  /\ pc[q] # "idle"
         /\ pc[p] \in {"lock", "entry", "select", "recheck", "remind"}
         /\ HoldsUser(q) \/ (pc[q] = "commit" /\ job[q].op = "remind")
<1>1. job[p].user \in Users
  BY WorkingJob DEF WaitsFor
<1>2. CASE pc[p] \in {"lock", "entry"} /\ userLock[job[p].user] = q
  BY <1>1, <1>2 DEF LocksOwned, HoldsUser
<1>3. CASE pc[p] \in {"select", "recheck", "remind"} /\ rows[q] # {}
  <2>1. pc[q] \in {"consume", "entry", "commit"} /\ job[q].op # "credit"
    BY <1>3 DEF WalletInv, RowsExclusive, LocksOwned
  <2> QED BY <1>3, <2>1 DEF HoldsUser
<1> QED BY <1>2, <1>3 DEF WaitsFor

LEMMA NobodyIsStuck == WalletInv /\ LocksOwned => NobodyStuck
<1> SUFFICES ASSUME WalletInv, LocksOwned,
                    NEW p \in Procs, NEW q \in Procs, WaitsFor(p, q),
                    NEW r \in Procs, WaitsFor(q, r)
             PROVE  pc[r] = "commit" /\ job[r].op = "remind"
  BY WaitsFacts DEF NobodyStuck
<1>1. HoldsUser(q) /\ pc[q] \in {"lock", "entry", "select", "recheck", "remind"}
  BY WaitsFacts
<1>2. job[q].user \in Users /\ userLock[job[q].user] = q
  BY <1>1, WorkingJob DEF HoldsUser, WalletInv, UserLocked
<1>3. pc[q] \in {"select", "recheck"} /\ job[r].user = job[q].user
  BY <1>1, <1>2 DEF WaitsFor, HoldsUser
<1>4. ~HoldsUser(r)
  BY <1>2, <1>3 DEF WalletInv, UserLocked, WaitsFor
<1> QED BY <1>4, WaitsFacts

(* Debits, expiries, credits and reminders of any wallets, in any number:  *)
(* all lock the users row before coin batches (wallet_service.go:86 and    *)
(* 105, 189 and 192), but for the reminder, which locks one batch and      *)
(* nothing else; nobody waits for ever.                                    *)
THEOREM WalletSafeHolds == Spec => []WalletSafe
<1>1. Init => LocksOwned
  BY Constants DEF Init, LocksOwned
<1>2. WalletInv /\ LocksOwned => WalletSafe
  BY NobodyIsStuck DEF WalletSafe
<1> QED BY <1>1, <1>2, LocksOwnedStep, WalletInvHolds, PTL DEF Spec

-----------------------------------------------------------------------------
(* The type invariant, from the inductive one. *)
THEOREM TypesHold == Spec => []TypeOK
<1>1. WalletInv => TypeOK
  BY DEF WalletInv
<1> QED BY <1>1, WalletInvHolds, PTL

(* Every balance is explained by the ledger, entry by entry: addLedgerEntry *)
(* computes from a reading of points no other transaction can outdate.     *)
THEOREM LedgerHolds == Spec => []LedgerExplainsPoints
<1>1. Init => LedgerExplainsPoints
  BY DEF Init, LedgerExplainsPoints, Closing
<1>2. WalletInv /\ LedgerExplainsPoints /\ [Next]_vars => LedgerExplainsPoints'
  <2> SUFFICES ASSUME WalletInv, LedgerExplainsPoints, [Next]_vars PROVE LedgerExplainsPoints'
    OBVIOUS
  <2>1. CASE Tick \/ UNCHANGED vars
    <3>1. points' = points /\ ledger' = ledger
      BY <2>1 DEF Tick, vars, tables
    <3> QED BY <3>1 DEF LedgerExplainsPoints, Closing
  <2>2. ASSUME NEW p \in Procs, Act(p) PROVE LedgerExplainsPoints'
    <3>1. CASE ~Commit(p) \/ CommitReminder(p)
      <4>1. points' = points /\ ledger' = ledger
        BY <2>2, <3>1, NoPost
      <4> QED BY <4>1 DEF LedgerExplainsPoints, Closing
    <3>2. CASE Commit(p) /\ ~CommitReminder(p)
      <4> DEFINE u == job[p].user
                 n == Len(ledger[u])
      <4>1. PICK e \in Entry : Posted(p, e)
        BY <3>2, PostFacts
      <4>2. u \in Users /\ ledger[u] \in Seq(Entry)
        BY <3>2, CommitFacts DEF WalletInv, TypeOK
      <4>3. n \in Nat /\ DOMAIN ledger[u] = 1..n
        BY <4>2
      <4>4. ledger'[u] = Append(ledger[u], e) /\ points'[u] = e.after
        BY <4>1 DEF Posted
      <4>5. /\ DOMAIN ledger'[u] = 1..(n + 1) /\ Len(ledger'[u]) = n + 1
            /\ ledger'[u] # <<>> /\ ledger'[u][n + 1] = e
            /\ \A k \in 1..n : ledger'[u][k] = ledger[u][k]
        <5>1. /\ Append(ledger[u], e) \in Seq(Entry) /\ Len(Append(ledger[u], e)) = n + 1
              /\ Append(ledger[u], e)[n + 1] = e
              /\ \A k \in 1..n : Append(ledger[u], e)[k] = ledger[u][k]
          BY <4>2
        <5>2. ledger'[u] \in Seq(Entry) /\ Len(ledger'[u]) = n + 1
          BY <4>4, <5>1
        <5>3. DOMAIN ledger'[u] = 1..(n + 1) /\ ledger'[u] # <<>>
          BY <4>3, <5>2
        <5> QED BY <4>4, <5>1, <5>2, <5>3
      <4>6. points'[u] = Closing(ledger'[u])
        BY <4>4, <4>5 DEF Closing
      <4>7. e.before = IF n + 1 = 1 THEN 0 ELSE ledger'[u][n].after
        <5>1. e.before = points[u] /\ points[u] = Closing(ledger[u])
          BY <4>1, <4>2 DEF Posted, LedgerExplainsPoints
        <5>2. CASE n = 0
          BY <4>2, <5>1, <5>2 DEF Closing
        <5>3. CASE n # 0
          <6>1. ledger[u] # <<>> /\ n \in 1..n
            BY <4>2, <4>3, <5>3
          <6> QED BY <4>3, <4>5, <5>1, <5>3, <6>1 DEF Closing
        <5> QED BY <5>2, <5>3
      <4>8. /\ e.after = e.before + e.credit - e.debit
            /\ (e.credit > 0 /\ e.debit = 0) \/ (e.debit > 0 /\ e.credit = 0)
        BY <4>1 DEF Posted
      <4> DEFINE Good(v, k) ==
             LET x == ledger'[v][k]
             IN /\ x.before = IF k = 1 THEN 0 ELSE ledger'[v][k - 1].after
                /\ x.after = x.before + x.credit - x.debit
                /\ (x.credit > 0 /\ x.debit = 0) \/ (x.debit > 0 /\ x.credit = 0)
      <4> HIDE DEF n
      <4>9. ASSUME NEW k \in DOMAIN ledger'[u] PROVE Good(u, k)
        <5>1. CASE k = n + 1
          <6>1. k - 1 = n /\ (k = 1 <=> n + 1 = 1)
            BY <4>3, <5>1
          <6> QED BY <4>5, <4>7, <4>8, <5>1, <6>1
        <5>2. CASE k \in 1..n
          <6>1. k \in DOMAIN ledger[u] /\ ledger'[u][k] = ledger[u][k]
            BY <4>3, <4>5, <5>2
          <6>2. k # 1 => k - 1 \in 1..n
            BY <4>3, <5>2
          <6>3. k # 1 => ledger'[u][k - 1] = ledger[u][k - 1]
            BY <4>5, <6>2
          <6> QED BY <4>2, <6>1, <6>3 DEF LedgerExplainsPoints
        <5> QED BY <4>3, <4>5, <5>1, <5>2
      <4>10. ASSUME NEW v \in Users, v # u
             PROVE  /\ points'[v] = Closing(ledger'[v])
                    /\ \A k \in DOMAIN ledger'[v] : Good(v, k)
        <5>1. ledger'[v] = ledger[v] /\ points'[v] = points[v]
          BY <4>1, <4>10 DEF Posted
        <5> QED BY <5>1 DEF LedgerExplainsPoints, Closing
      <4> QED BY <4>2, <4>6, <4>9, <4>10 DEF LedgerExplainsPoints, Closing
    <3> QED BY <3>1, <3>2
  <2> QED BY <2>1, <2>2, StepIsTickOrAct
<1> QED BY <1>1, <1>2, WalletInvHolds, PTL DEF Spec

(* Reminders are recorded on the batch exactly when they were sent: the    *)
(* debit loop saves rows it read under the lock the reminder also takes.   *)
THEOREM ReminderHolds == Spec => []ReminderMatchesNotification
<1>1. Init => ReminderMatchesNotification
  BY DEF Init, ReminderMatchesNotification
<1>2. WalletInv /\ ReminderMatchesNotification /\ [Next]_vars => ReminderMatchesNotification'
  <2> SUFFICES ASSUME WalletInv, ReminderMatchesNotification, [Next]_vars
      PROVE  ReminderMatchesNotification'
    OBVIOUS
  <2>1. CASE Tick \/ UNCHANGED vars
    BY <2>1 DEF Tick, vars, tables, ReminderMatchesNotification
  <2>2. ASSUME NEW p \in Procs, Act(p) PROVE ReminderMatchesNotification'
    <3>k. \A u \in Users : DOMAIN batches[u] \subseteq DOMAIN batches'[u]
      BY <2>2, ActKeepsBatches DEF BatchesKept
    <3>n. \A key \in notified : key[1] \in Users /\ key = <<key[1], key[2]>>
      BY DEF WalletInv, TypeOK
    <3>m. \A key \in notified : key[2] \in DOMAIN batches'[key[1]]
      BY <3>k, <3>n DEF ReminderMatchesNotification
    <3>1. CASE ~Commit(p)
      BY <2>2, <3>1, OnlyCommitWrites DEF tables, ReminderMatchesNotification
    <3>2. CASE CommitCredit(p)
      <4>1. notified' = notified
        BY <3>2 DEF CommitCredit
      <4> DEFINE u == job[p].user
                 n == Len(batches[u])
      <4>2. u \in Users /\ n \in Nat /\ job[p] \in Job
        <5>1. u \in Users /\ batches[u] \in Seq(Batch) /\ job[p] \in Job
          BY <3>2, CommitFacts DEF Commit
        <5> QED BY <5>1
      <4>3. /\ \A v \in Users \ {u} : batches'[v] = batches[v]
            /\ DOMAIN batches[u] = 1..n
            /\ DOMAIN batches'[u] = 1..(n + 1)
            /\ \A i \in 1..n : batches'[u][i] = batches[u][i]
            /\ batches'[u][n + 1] = Minted(p)
        BY <3>2, CreditBatches
      <4>4. ~Minted(p).reminded
        BY DEF Minted
      <4> HIDE DEF n, u
      <4>5. <<u, n + 1>> \notin notified
        BY <3>n, <4>2, <4>3 DEF ReminderMatchesNotification
      <4>6. \A i \in DOMAIN batches'[u] : batches'[u][i].reminded <=> <<u, i>> \in notified
        BY <4>2, <4>3, <4>4, <4>5 DEF ReminderMatchesNotification
      <4> QED BY <3>m, <4>1, <4>2, <4>3, <4>6 DEF ReminderMatchesNotification
    <3>3. CASE CommitDebit(p)
      <4>1. notified' = notified
        BY <3>3 DEF CommitDebit
      <4>2. \A u \in Users : \A i \in DOMAIN batches'[u] :
              /\ i \in DOMAIN batches[u]
              /\ batches'[u][i].reminded = batches[u][i].reminded
        BY <3>3, DebitBatches DEF CopyOK
      <4> QED BY <3>m, <4>1, <4>2 DEF ReminderMatchesNotification
    <3>4. CASE CommitExpire(p)
      <4>1. notified' = notified
        BY <3>4 DEF CommitExpire
      <4>2. \A u \in Users : \A i \in DOMAIN batches'[u] :
              /\ i \in DOMAIN batches[u]
              /\ batches'[u][i].reminded = batches[u][i].reminded
        <5> DEFINE v == job[p].user
                   k == job[p].batch
        <5>1. batches'[v][k] = WithBalance(batches[v][k], 0)
          BY <3>4, OneBatch
        <5>2. batches'[v][k].reminded = batches[v][k].reminded
          BY <5>1 DEF WithBalance
        <5>3. /\ \A u \in Users \ {v} : batches'[u] = batches[u]
              /\ DOMAIN batches'[v] = DOMAIN batches[v]
              /\ \A i \in DOMAIN batches[v] \ {k} : batches'[v][i] = batches[v][i]
          BY <3>4, OneBatch
        <5> QED BY <5>2, <5>3
      <4> QED BY <3>m, <4>1, <4>2 DEF ReminderMatchesNotification
    <3>5. CASE CommitReminder(p)
      <4> DEFINE u == job[p].user
                 i == job[p].batch
      <4>1. notified' = notified \cup {<<u, i>>}
        BY <3>5 DEF CommitReminder
      <4>2. batches'[u][i] = WithReminder(batches[u][i])
        BY <3>5, OneBatch
      <4>3. batches'[u][i].reminded = TRUE
        BY <4>2 DEF WithReminder
      <4>4. /\ \A v \in Users \ {u} : batches'[v] = batches[v]
            /\ DOMAIN batches'[u] = DOMAIN batches[u]
            /\ \A k \in DOMAIN batches[u] \ {i} : batches'[u][k] = batches[u][k]
        BY <3>5, OneBatch
      <4>5. i \in DOMAIN batches'[u]
        BY <3>5, <4>4, OneBatch
      <4> QED BY <3>m, <4>1, <4>3, <4>4, <4>5 DEF ReminderMatchesNotification
    <3> QED BY <3>1, <3>2, <3>3, <3>4, <3>5 DEF Commit
  <2> QED BY <2>1, <2>2, StepIsTickOrAct
<1> QED BY <1>1, <1>2, WalletInvHolds, PTL DEF Spec

(* Coins leave the oldest batch first, whatever runs beside the debit.     *)
THEOREM OldestFirstHolds == Spec => []OldestCoinsFirst
<1>1. Init => OldestCoinsFirst
  BY DEF Init, OldestCoinsFirst
<1>2. WalletInv /\ WalletInv' /\ OldestCoinsFirst /\ [Next]_vars => OldestCoinsFirst'
  <2> SUFFICES ASSUME WalletInv, WalletInv', OldestCoinsFirst, [Next]_vars
      PROVE  OldestCoinsFirst'
    OBVIOUS
  <2>b. ASSUME NEW u \in Users, NEW i \in DOMAIN batches[u]
        PROVE  /\ batches[u][i].balance \in Nat /\ batches[u][i].amount \in Nat
               /\ batches[u][i].expires \in Nat /\ i \in Nat
    <3>1. batches[u][i] \in Batch /\ i \in Nat
      BY DEF WalletInv, TypeOK
    <3> QED BY <3>1 DEF Batch
  <2>c. ASSUME NEW u \in Users, NEW i \in DOMAIN batches'[u]
        PROVE  /\ batches'[u][i].balance \in Nat /\ batches'[u][i].amount \in Nat
               /\ batches'[u][i].expires \in Nat /\ i \in Nat
    <3>1. batches'[u][i] \in Batch /\ i \in Nat
      BY DEF WalletInv, TypeOK
    <3> QED BY <3>1 DEF Batch
  <2>n. now \in Nat /\ now' \in Nat
    BY DEF WalletInv, TypeOK
  <2>1. CASE Tick \/ UNCHANGED vars
    <3>1. batches' = batches /\ now' >= now
      BY <2>1, <2>n DEF Tick, vars, tables
    <3> QED BY <2>b, <2>n, <3>1 DEF OldestCoinsFirst
  <2>2. ASSUME NEW p \in Procs, Act(p) PROVE OldestCoinsFirst'
    <3>k. OthersKept(p) /\ BatchesKept(p)
      BY <2>2, ActKeepsOthers, ActKeepsBatches DEF WalletInv
    <3>now. now' = now
      BY <3>k DEF OthersKept
    <3> SUFFICES ASSUME NEW u \in Users, NEW i \in DOMAIN batches'[u], NEW k \in DOMAIN batches'[u],
                        i < k, batches'[u][k].balance < batches'[u][k].amount
        PROVE  batches'[u][i].balance = 0 \/ batches'[u][i].expires <= now
      BY <3>now DEF OldestCoinsFirst
    <3>1. CASE k \in DOMAIN batches[u] /\ batches[u][k].balance < batches[u][k].amount
      <4>1. i \in DOMAIN batches[u]
        <5>1. batches[u] \in Seq(Batch)
          BY DEF WalletInv, TypeOK
        <5>2. i \in Nat /\ i >= 1
          BY DEF WalletInv, TypeOK
        <5>3. Len(batches[u]) \in Nat /\ DOMAIN batches[u] = 1..Len(batches[u])
          BY <5>1
        <5> QED BY <3>1, <5>2, <5>3
      <4>2. batches[u][i].balance = 0 \/ batches[u][i].expires <= now
        BY <3>1, <4>1 DEF OldestCoinsFirst
      <4>3. batches'[u][i].balance <= batches[u][i].balance /\ batches'[u][i].expires = batches[u][i].expires
        BY <3>k, <4>1 DEF BatchesKept
      <4> QED BY <2>b, <2>c, <4>1, <4>2, <4>3
    <3>2. CASE k \in DOMAIN batches[u] /\ ~(batches[u][k].balance < batches[u][k].amount)
      <4>1. batches'[u][k].balance # batches[u][k].balance
        BY <2>b, <2>c, <3>k, <3>2 DEF BatchesKept
      <4>2. Commit(p) /\ ~CommitReminder(p) /\ ~CommitCredit(p) /\ u = job[p].user /\ k \in rows[p]
        <5>1. Commit(p)
          BY <2>2, <4>1, OnlyCommitWrites DEF tables
        <5>2. u = job[p].user /\ k \in rows[p]
          BY <3>k, <3>2, <4>1 DEF BatchesKept
        <5>3. ~CommitCredit(p)
          BY <3>2, <4>1, <5>2, CreditBatches
        <5>4. ~CommitReminder(p)
          <6>1. ASSUME CommitReminder(p) PROVE batches'[u][k] = WithReminder(batches[u][k])
            BY <5>2, <6>1, OneBatch
          <6> QED BY <4>1, <6>1 DEF WithReminder
        <5> QED BY <5>1, <5>2, <5>3, <5>4
      <4>3. CASE CommitDebit(p)
        <5>1. /\ DOMAIN batches'[u] = DOMAIN batches[u]
              /\ \A m \in DOMAIN batches[u] :
                   batches'[u][m] = IF m \in rows[p] /\ m <= cursor[p] THEN work[p][m] ELSE batches[u][m]
              /\ CopyOK(p)
          BY <4>2, <4>3, DebitBatches
        <5>2. k <= cursor[p] /\ i \in DOMAIN batches[u] /\ cursor[p] \in Nat
          BY <3>2, <4>1, <5>1 DEF WalletInv, TypeOK
        <5>3. i \in Nat /\ k \in Nat /\ i < cursor[p]
          BY <2>b, <3>2, <5>2
        <5>4. CASE i \in rows[p]
          BY <5>1, <5>2, <5>3, <5>4 DEF CopyOK
        <5>5. CASE i \notin rows[p]
          BY <4>2, <5>1, <5>2, <5>5 DEF CopyOK
        <5> QED BY <5>4, <5>5
      <4>4. CASE CommitExpire(p)
        <5>1. rows[p] = {job[p].batch} /\ DOMAIN batches'[u] = DOMAIN batches[u]
          BY <4>2, <4>4, OneBatch
        <5>2. k = job[p].batch /\ batches[u][k].expires <= now
          BY <4>2, <4>4, <5>1 DEF WalletInv, BatchClaimed, CommitExpire
        <5>3. batches[u][i].expires <= batches[u][k].expires
          BY <2>b, <3>2, <5>1 DEF WalletInv, BatchesOrdered
        <5>4. batches'[u][i].expires = batches[u][i].expires
          BY <3>k, <5>1 DEF BatchesKept
        <5> QED BY <2>b, <2>n, <3>2, <5>1, <5>2, <5>3, <5>4
      <4> QED BY <4>2, <4>3, <4>4 DEF Commit
    <3>3. CASE k \notin DOMAIN batches[u]
      <4>1. CommitCredit(p) /\ u = job[p].user
        <5>1. Commit(p)
          BY <2>2, <3>3, OnlyCommitWrites DEF tables
        <5>2. ~CommitDebit(p)
          BY <3>3, DebitBatches
        <5>3. ~CommitExpire(p) /\ ~CommitReminder(p)
          BY <3>3, OneBatch
        <5>4. CommitCredit(p)
          BY <5>1, <5>2, <5>3 DEF Commit
        <5> QED BY <3>3, <5>4, CreditBatches
      <4>2. batches'[u][k] = Minted(p)
        <5>1. Len(batches[u]) \in Nat
          BY DEF WalletInv, TypeOK
        <5> QED BY <3>3, <4>1, <5>1, CreditBatches
      <4>3. batches'[u][k].balance = batches'[u][k].amount
        BY <4>2 DEF Minted
      <4> QED BY <2>c, <4>3
    <3> QED BY <3>1, <3>2, <3>3
  <2> QED BY <2>1, <2>2, StepIsTickOrAct
<1> QED BY <1>1, <1>2, WalletInvHolds, PTL DEF Spec

(* A batch is expired once, after its year, and entirely. *)
THEOREM ExpiredOnceHolds == Spec => []ExpiredOnce
<1>1. Init => ExpiredOnce
  BY DEF Init, ExpiredOnce
<1>2. WalletInv /\ WalletInv' /\ ExpiredOnce /\ [Next]_vars => ExpiredOnce'
  <2> SUFFICES ASSUME WalletInv, WalletInv', ExpiredOnce, [Next]_vars PROVE ExpiredOnce'
    OBVIOUS
  <2>b. ASSUME NEW u \in Users, NEW i \in DOMAIN batches[u]
        PROVE  batches[u][i].expires \in Nat /\ batches[u][i].balance \in Nat
    <3>1. batches[u][i] \in Batch
      BY DEF WalletInv, TypeOK
    <3> QED BY <3>1 DEF Batch
  <2>c. ASSUME NEW u \in Users, NEW i \in DOMAIN batches'[u] PROVE batches'[u][i].balance \in Nat
    <3>1. batches'[u][i] \in Batch
      BY DEF WalletInv, TypeOK
    <3> QED BY <3>1 DEF Batch
  <2>1. CASE Tick \/ UNCHANGED vars
    <3>1. batches' = batches /\ ledger' = ledger /\ now \in Nat /\ (now' = now \/ now' = now + 1)
      BY <2>1 DEF Tick, vars, tables, WalletInv, TypeOK
    <3> QED BY <2>b, <3>1 DEF ExpiredOnce
  <2>2. ASSUME NEW p \in Procs, Act(p) PROVE ExpiredOnce'
    <3>k. OthersKept(p) /\ BatchesKept(p)
      BY <2>2, ActKeepsOthers, ActKeepsBatches DEF WalletInv
    <3>now. now' = now
      BY <3>k DEF OthersKept
    <3>e. ASSUME NEW u \in Users, NEW k \in DOMAIN ledger[u], ledger[u][k].type = "expired"
          PROVE  /\ ledger[u][k].ref \in DOMAIN batches'[u]
                 /\ batches'[u][ledger[u][k].ref].expires <= now
                 /\ batches'[u][ledger[u][k].ref].balance = 0
      <4> DEFINE r == ledger[u][k].ref
      <4>1. r \in DOMAIN batches[u] /\ batches[u][r].expires <= now /\ batches[u][r].balance = 0
        BY <3>e DEF ExpiredOnce
      <4>2. /\ r \in DOMAIN batches'[u] /\ batches'[u][r].expires = batches[u][r].expires
            /\ batches'[u][r].balance <= batches[u][r].balance
        BY <3>k, <4>1 DEF BatchesKept
      <4>3. batches'[u][r].balance \in Nat
        BY <2>c, <4>2
      <4> HIDE DEF r
      <4>4. batches'[u][r].balance = 0
        BY <4>1, <4>2, <4>3
      <4> QED BY <4>1, <4>2, <4>4 DEF r
    <3>1. CASE ~Commit(p) \/ CommitReminder(p)
      <4>1. ledger' = ledger
        BY <2>2, <3>1, NoPost
      <4> QED BY <3>e, <3>now, <4>1 DEF ExpiredOnce
    <3>2. CASE Commit(p) /\ ~CommitReminder(p)
      <4> DEFINE w == job[p].user
                 n == Len(ledger[w])
      <4>1. PICK e \in Entry : /\ Posted(p, e)
                               /\ e.type = "expired" <=> CommitExpire(p)
                               /\ CommitExpire(p) => e.ref = job[p].batch
        BY <3>2, PostFacts
      <4>2. w \in Users /\ ledger[w] \in Seq(Entry)
        BY <3>2, CommitFacts DEF WalletInv, TypeOK
      <4>3. n \in Nat /\ DOMAIN ledger[w] = 1..n
        BY <4>2
      <4>4. /\ \A v \in Users \ {w} : ledger'[v] = ledger[v]
            /\ ledger'[w] = Append(ledger[w], e)
        BY <4>1 DEF Posted
      <4>5. /\ DOMAIN ledger'[w] = 1..(n + 1) /\ ledger'[w][n + 1] = e
            /\ \A k \in 1..n : ledger'[w][k] = ledger[w][k]
        <5>1. /\ Append(ledger[w], e) \in Seq(Entry) /\ Len(Append(ledger[w], e)) = n + 1
              /\ Append(ledger[w], e)[n + 1] = e
              /\ \A k \in 1..n : Append(ledger[w], e)[k] = ledger[w][k]
          BY <4>2
        <5>2. ledger'[w] \in Seq(Entry) /\ Len(ledger'[w]) = n + 1
          BY <4>4, <5>1
        <5>3. DOMAIN ledger'[w] = 1..(n + 1)
          BY <4>3, <5>2
        <5> QED BY <4>4, <5>1, <5>3
      <4>6. ASSUME CommitExpire(p)
            PROVE  /\ e.ref \in DOMAIN batches'[w]
                   /\ batches'[w][e.ref].expires <= now
                   /\ batches'[w][e.ref].balance = 0
                   /\ \A m \in 1..n : ~(ledger[w][m].type = "expired" /\ ledger[w][m].ref = e.ref)
        <5>1. /\ e.ref = job[p].batch /\ e.ref \in DOMAIN batches[w]
              /\ batches'[w][e.ref] = WithBalance(batches[w][e.ref], 0)
              /\ DOMAIN batches'[w] = DOMAIN batches[w]
          BY <4>1, <4>6, OneBatch
        <5>2. batches[w][e.ref].balance > 0 /\ batches[w][e.ref].expires <= now
          BY <4>6, <5>1 DEF WalletInv, BatchClaimed, CommitExpire
        <5>3. batches'[w][e.ref].balance = 0 /\ batches'[w][e.ref].expires = batches[w][e.ref].expires
          BY <5>1 DEF WithBalance
        <5>4. \A m \in 1..n : ledger[w][m].type = "expired" /\ ledger[w][m].ref = e.ref
                 => batches[w][e.ref].balance = 0
          BY <4>2, <4>3 DEF ExpiredOnce
        <5> QED BY <5>1, <5>2, <5>3, <5>4
      <4> HIDE DEF n, w
      <4>7. ASSUME NEW k \in DOMAIN ledger'[w], ledger'[w][k].type = "expired"
            PROVE  /\ ledger'[w][k].ref \in DOMAIN batches'[w]
                   /\ batches'[w][ledger'[w][k].ref].expires <= now
                   /\ batches'[w][ledger'[w][k].ref].balance = 0
                   /\ \A m \in DOMAIN ledger'[w] :
                        ledger'[w][m].type = "expired" /\ ledger'[w][m].ref = ledger'[w][k].ref => m = k
        <5>1. CASE k = n + 1
          <6>1. CommitExpire(p) /\ ledger'[w][k] = e
            BY <4>1, <4>5, <4>7, <5>1
          <6> QED BY <4>3, <4>5, <4>6, <5>1, <6>1
        <5>2. CASE k \in 1..n
          <6>1. ledger'[w][k] = ledger[w][k] /\ k \in DOMAIN ledger[w]
            BY <4>3, <4>5, <5>2
          <6>2. ASSUME NEW m \in DOMAIN ledger'[w], ledger'[w][m].type = "expired",
                       ledger'[w][m].ref = ledger'[w][k].ref
                PROVE  m = k
            <7>1. CASE m \in 1..n
              BY <4>2, <4>3, <4>5, <4>7, <6>1, <6>2, <7>1 DEF ExpiredOnce
            <7>2. CASE m = n + 1
              BY <4>1, <4>5, <4>6, <4>7, <5>2, <6>1, <6>2, <7>2
            <7> QED BY <4>3, <4>5, <7>1, <7>2
          <6> QED BY <3>e, <4>2, <4>7, <6>1, <6>2
        <5> QED BY <4>3, <4>5, <5>1, <5>2
      <4>8. ASSUME NEW v \in Users, v # w, NEW k \in DOMAIN ledger'[v], ledger'[v][k].type = "expired"
            PROVE  /\ ledger'[v][k].ref \in DOMAIN batches'[v]
                   /\ batches'[v][ledger'[v][k].ref].expires <= now
                   /\ batches'[v][ledger'[v][k].ref].balance = 0
                   /\ \A m \in DOMAIN ledger'[v] :
                        ledger'[v][m].type = "expired" /\ ledger'[v][m].ref = ledger'[v][k].ref => m = k
        <5>1. ledger'[v] = ledger[v]
          BY <4>4, <4>8
        <5> QED BY <3>e, <4>8, <5>1 DEF ExpiredOnce
      <4> QED BY <3>now, <4>7, <4>8 DEF ExpiredOnce
    <3> QED BY <3>1, <3>2
  <2> QED BY <2>1, <2>2, StepIsTickOrAct
<1> QED BY <1>1, <1>2, WalletInvHolds, PTL DEF Spec

-----------------------------------------------------------------------------
(* A commit that posts is one Move of the account. *)
LEMMA PostIsMove ==
  ASSUME WalletInv, NEW p \in Procs, Commit(p), ~CommitReminder(p)
  PROVE  Promise!AccountNext
<1> DEFINE u == job[p].user
           n == Len(ledger[u])
           Moves(l) == [k \in DOMAIN l |-> l[k].credit - l[k].debit]
<1>1. PICK e \in Entry : Posted(p, e)
  BY PostFacts
<1> DEFINE d == e.credit - e.debit
<1>2. /\ u \in Users /\ ledger[u] \in Seq(Entry) /\ points[u] \in Nat /\ points[u] <= MaxPoints
      /\ points \in [Users -> Nat] /\ ledger \in [Users -> Seq(Entry)] /\ MaxPoints \in Nat
  BY CommitFacts, Constants DEF WalletInv, TypeOK, PointsFit
<1>3. points' \in [Users -> Nat] /\ ledger' \in [Users -> Seq(Entry)]
  <2>1. [Next]_vars \/ TypeOK'
    BY Constants DEF Commit, Next, Step
  <2> QED BY <2>1, TypeStep DEF TypeOK
<1>4. e.credit \in Nat /\ e.debit \in Nat /\ e.after \in Nat
  BY DEF Entry
<1>5. d # 0 /\ d \in -MaxPoints..MaxPoints /\ points[u] + d \in 0..MaxPoints
  BY <1>1, <1>2, <1>4 DEF Posted
<1>6. points' = [points EXCEPT ![u] = points[u] + d]
  BY <1>1, <1>2, <1>3, <1>4 DEF Posted
<1>7. Moves(ledger'[u]) = Append(Moves(ledger[u]), d)
  <2>1. ledger'[u] = Append(ledger[u], e) /\ n \in Nat /\ DOMAIN ledger[u] = 1..n
    BY <1>1, <1>2 DEF Posted
  <2>2. /\ Append(ledger[u], e) \in Seq(Entry) /\ Len(Append(ledger[u], e)) = n + 1
        /\ Append(ledger[u], e)[n + 1] = e
        /\ \A k \in 1..n : Append(ledger[u], e)[k] = ledger[u][k]
    BY <1>2
  <2>3. DOMAIN ledger'[u] = 1..(n + 1)
    BY <2>1, <2>2
  <2>4. \A k \in 1..n : ledger[u][k].credit - ledger[u][k].debit \in Int
    <3>1. \A k \in 1..n : ledger[u][k] \in Entry
      BY <1>2, <2>1
    <3> QED BY <3>1 DEF Entry
  <2>5. Moves(ledger[u]) \in Seq(Int) /\ Len(Moves(ledger[u])) = n
    BY <2>1, <2>4
  <2> HIDE DEF n
  <2>6. /\ DOMAIN Append(Moves(ledger[u]), d) = 1..(n + 1)
        /\ Append(Moves(ledger[u]), d)[n + 1] = d
        /\ \A k \in 1..n : Append(Moves(ledger[u]), d)[k] = Moves(ledger[u])[k]
        /\ Append(Moves(ledger[u]), d) = [k \in 1..(n + 1) |-> Append(Moves(ledger[u]), d)[k]]
    BY <1>4, <2>1, <2>5, AppendProperties
  <2>7. \A k \in 1..(n + 1) : ledger'[u][k].credit - ledger'[u][k].debit = Append(Moves(ledger[u]), d)[k]
    BY <2>1, <2>2, <2>6
  <2> QED BY <2>3, <2>6, <2>7
<1>8. \A v \in Users \ {u} : Moves(ledger'[v]) = Moves(ledger[v])
  BY <1>1 DEF Posted
<1> DEFINE table == [v \in Users |-> Moves(ledger[v])]
           table2 == [v \in Users |-> Moves(ledger'[v])]
<1> HIDE DEF Moves, d
<1>9. table2 = [table EXCEPT ![u] = Append(Moves(ledger[u]), d)]
  BY <1>2, <1>7, <1>8
<1>10. table[u] = Moves(ledger[u])
  BY <1>2
<1>11. table2 = [table EXCEPT ![u] = Append(table[u], d)]
  BY <1>9, <1>10
<1>12. PICK v, delta : v = u /\ delta = d
  OBVIOUS
<1>13. Promise!Move(v, delta)
  BY <1>5, <1>6, <1>11, <1>12 DEF Promise!Move, Moves
<1>14. v \in Users /\ delta \in -MaxPoints..MaxPoints
  BY <1>2, <1>5, <1>12
<1> QED BY <1>13, <1>14 DEF Promise!AccountNext

(* Whatever is interleaved, users see the account of Account.tla: one      *)
(* entry a step, from the balance before it.                               *)
THEOREM WalletIsAccount == Spec => AccountSpec
<1>1. Init => Promise!AccountInit
  <2> SUFFICES ASSUME Init PROVE Promise!AccountInit
    OBVIOUS
  <2>1. \A u \in Users : [k \in DOMAIN ledger[u] |-> ledger[u][k].credit - ledger[u][k].debit] = <<>>
    BY DEF Init
  <2>2. points = [u \in Users |-> 0]
    BY DEF Init
  <2> QED BY <2>1, <2>2 DEF Promise!AccountInit
<1>2. WalletInv /\ [Next]_vars => [Promise!AccountNext]_Promise!accountVars
  <2> SUFFICES ASSUME WalletInv, [Next]_vars
      PROVE  Promise!AccountNext \/ UNCHANGED Promise!accountVars
    OBVIOUS
  <2>1. CASE points' = points /\ ledger' = ledger
    BY <2>1 DEF Promise!accountVars
  <2>2. CASE Tick \/ UNCHANGED vars
    BY <2>1, <2>2 DEF Tick, vars, tables
  <2>3. ASSUME NEW p \in Procs, Act(p) PROVE Promise!AccountNext \/ UNCHANGED Promise!accountVars
    BY <2>1, <2>3, NoPost, PostIsMove
  <2> QED BY <2>2, <2>3, StepIsTickOrAct
<1> QED BY <1>1, <1>2, WalletInvHolds, PTL DEF Spec, AccountSpec, Promise!AccountSpec

-----------------------------------------------------------------------------
(* Sums of coins.  upTo of Coins is the function that adds the batches of  *)
(* a list one after the other: it exists, and it is the only one (both by  *)
(* the least counterexample), so what moves one batch moves the sum.       *)
Sums(f, s) == f = [k \in 0..Len(s) |-> IF k = 0 THEN 0 ELSE f[k - 1] + s[k].balance]

LEMMA LeastOne ==
  ASSUME NEW S, S \subseteq Nat, S # {}
  PROVE  \E x \in S : \A y \in S : x <= y
<1> DEFINE R == {ss \in Nat \X Nat : ss[1] < ss[2]}
<1>1. IsWellFoundedOn(R, Nat)
  BY NatLessThanWellFounded DEF OpToRel
<1>2. PICK x \in S : \A y \in S : ~(<<y, x>> \in R)
  <2> HIDE DEF R
  <2> QED BY <1>1, WFMin
<1>3. \A y \in S : ~(y < x)
  BY <1>2
<1> QED BY <1>3

LEMMA ListFacts ==
  ASSUME NEW s \in Seq(Batch)
  PROVE  /\ Len(s) \in Nat /\ DOMAIN s = 1..Len(s)
         /\ \A k \in 1..Len(s) : s[k].balance \in Nat
<1>1. \A k \in 1..Len(s) : s[k] \in Batch
  OBVIOUS
<1> QED BY <1>1 DEF Batch

LEMMA SumsExist ==
  ASSUME NEW s \in Seq(Batch)
  PROVE  \E f : Sums(f, s)
<1> DEFINE G(f, n) == f = [k \in 0..n |-> IF k = 0 THEN 0 ELSE f[k - 1] + s[k].balance]
           Bad == {n \in Nat : ~ \E f : G(f, n)}
<1>1. ASSUME Bad # {} PROVE FALSE
  <2>1. PICK n \in Bad : \A m \in Bad : n <= m
    <3>1. Bad \subseteq Nat
      OBVIOUS
    <3> HIDE DEF Bad
    <3> QED BY <1>1, <3>1, LeastOne
  <2>2. n # 0
    <3> DEFINE f == [k \in 0..0 |-> 0]
    <3>1. G(f, 0)
      OBVIOUS
    <3> HIDE DEF f
    <3>2. 0 \notin Bad
      BY <3>1
    <3> QED BY <2>1, <3>2
  <2>3. PICK f : G(f, n - 1)
    <3>1. n - 1 \in Nat /\ ~(n <= n - 1)
      BY <2>2
    <3>2. n - 1 \notin Bad
      BY <2>1, <3>1
    <3> QED BY <3>1, <3>2
  <2> DEFINE g == [k \in 0..n |-> IF k = n THEN f[n - 1] + s[n].balance ELSE f[k]]
  <2>4. \A k \in 0..(n - 1) : g[k] = f[k] /\ f[k] = (IF k = 0 THEN 0 ELSE f[k - 1] + s[k].balance)
    <3> HIDE DEF Bad
    <3> QED BY <2>2, <2>3 DEF Bad
  <2>5. \A k \in 0..n : g[k] = IF k = 0 THEN 0 ELSE g[k - 1] + s[k].balance
    <3>1. ASSUME NEW k \in 0..n, k # n PROVE g[k] = IF k = 0 THEN 0 ELSE g[k - 1] + s[k].balance
      <4>1. k \in 0..(n - 1) /\ (k # 0 => k - 1 \in 0..(n - 1))
        BY <3>1
      <4> HIDE DEF g
      <4> QED BY <2>4, <4>1
    <3>2. g[n] = g[n - 1] + s[n].balance
      BY <2>2, <2>4
    <3> HIDE DEF g
    <3> QED BY <2>2, <3>1, <3>2
  <2>6. g = [k \in 0..n |-> g[k]]
    OBVIOUS
  <2> HIDE DEF g
  <2>7. G(g, n)
    BY <2>5, <2>6
  <2> QED BY <2>1, <2>7
<1>2. Len(s) \in Nat
  OBVIOUS
<1>3. \E f : G(f, Len(s))
  BY <1>1, <1>2
<1> QED BY <1>3 DEF Sums

(* List t, at least as long as s, starts with the batches of s, d more     *)
(* coins in batch i; and what then is true of the functions that add them. *)
Moved(s, t, i, d) ==
  /\ Len(s) <= Len(t)
  /\ \A k \in 1..Len(s) : t[k].balance = s[k].balance + (IF k = i THEN d ELSE 0)

SumsMoved(f, g, s, i, d) ==
  \A k \in 0..Len(s) : f[k] \in Nat /\ g[k] = f[k] + (IF 1 <= i /\ i <= k THEN d ELSE 0)

LEMMA SumsShift ==
  ASSUME NEW s \in Seq(Batch), NEW t \in Seq(Batch), NEW i \in Nat, NEW d \in Int,
         Moved(s, t, i, d), NEW f, NEW g, Sums(f, s), Sums(g, t)
  PROVE  SumsMoved(f, g, s, i, d)
<1> DEFINE n == Len(s)
           Good(k) == f[k] \in Nat /\ g[k] = f[k] + (IF 1 <= i /\ i <= k THEN d ELSE 0)
           Bad == {k \in 0..n : ~Good(k)}
<1>1. /\ n \in Nat /\ Len(t) \in Nat
      /\ \A k \in 1..n : s[k].balance \in Nat
  BY ListFacts
<1>2. /\ f[0] = 0 /\ \A k \in 1..n : f[k] = f[k - 1] + s[k].balance
      /\ g[0] = 0 /\ \A k \in 1..n : g[k] = g[k - 1] + t[k].balance
  <2>1. ASSUME NEW k \in 0..n
        PROVE  /\ f[k] = (IF k = 0 THEN 0 ELSE f[k - 1] + s[k].balance)
               /\ g[k] = (IF k = 0 THEN 0 ELSE g[k - 1] + t[k].balance)
    <3>1. k \in 0..Len(s) /\ k \in 0..Len(t)
      BY <1>1 DEF Moved
    <3>2. f[k] = (IF k = 0 THEN 0 ELSE f[k - 1] + s[k].balance)
      BY <3>1 DEF Sums
    <3>3. g[k] = (IF k = 0 THEN 0 ELSE g[k - 1] + t[k].balance)
      BY <3>1 DEF Sums
    <3> QED BY <3>2, <3>3
  <2> HIDE DEF n
  <2>2. ASSUME NEW k \in 1..n PROVE k \in 0..n /\ k # 0
    BY <1>1
  <2>3. 0 \in 0..n
    BY <1>1
  <2> QED BY <2>1, <2>2, <2>3
<1>3. ASSUME Bad # {} PROVE FALSE
  <2>1. PICK k \in Bad : \A m \in Bad : k <= m
    <3>1. Bad \subseteq Nat
      BY <1>1
    <3> HIDE DEF Bad
    <3> QED BY <1>3, <3>1, LeastOne
  <2>2. k \in 0..n /\ ~Good(k)
    BY <2>1
  <2>3. k # 0
    BY <1>2, <2>2
  <2>4. Good(k - 1)
    <3>1. k - 1 \in 0..n /\ ~(k <= k - 1)
      BY <1>1, <2>2, <2>3
    <3> HIDE DEF Good
    <3> QED BY <2>1, <3>1
  <2>5. /\ f[k] = f[k - 1] + s[k].balance /\ g[k] = g[k - 1] + t[k].balance
        /\ t[k].balance = s[k].balance + (IF k = i THEN d ELSE 0) /\ s[k].balance \in Nat
    BY <1>1, <1>2, <2>2, <2>3 DEF Moved
  <2>6. k \in Nat
    BY <1>1, <2>2
  <2>7. CASE k = i
    <3>1. g[k - 1] = f[k - 1]
      BY <2>4, <2>6, <2>7
    <3> QED BY <2>2, <2>3, <2>4, <2>5, <2>6, <2>7, <3>1
  <2>8. CASE k # i
    <3>1. (1 <= i /\ i <= k) <=> (1 <= i /\ i <= k - 1)
      BY <2>6, <2>8
    <3> QED BY <2>2, <2>4, <2>5, <2>8, <3>1
  <2> QED BY <2>7, <2>8
<1> HIDE DEF Good
<1>4. \A k \in 0..n : Good(k)
  BY <1>3
<1> QED BY <1>4 DEF Good, SumsMoved

LEMMA CoinsIsSum ==
  ASSUME NEW s \in Seq(Batch)
  PROVE  \E f : Sums(f, s) /\ Coins(s) = f[Len(s)]
<1>1. Coins(s) = (CHOOSE f : Sums(f, s))[Len(s)]
  BY DEF Coins, Sums
<1>2. Sums(CHOOSE f : Sums(f, s), s)
  BY SumsExist
<1> QED BY <1>1, <1>2

(* Coins of a list in which one batch has moved.                           *)
LEMMA CoinsMove ==
  ASSUME NEW s \in Seq(Batch), NEW t \in Seq(Batch), Len(t) = Len(s),
         NEW i \in 1..Len(s), NEW d \in Int,
         t[i].balance = s[i].balance + d,
         \A k \in 1..Len(s) : k # i => t[k].balance = s[k].balance
  PROVE  Coins(s) \in Nat /\ Coins(t) = Coins(s) + d
<1>1. PICK f : Sums(f, s) /\ Coins(s) = f[Len(s)]
  BY CoinsIsSum
<1>2. PICK g : Sums(g, t) /\ Coins(t) = g[Len(t)]
  BY CoinsIsSum
<1>3. Len(s) \in Nat /\ \A k \in 1..Len(s) : s[k].balance \in Nat
  BY ListFacts
<1>l. Len(s) <= Len(t)
  BY <1>3
<1>4. Moved(s, t, i, d)
  BY <1>3, <1>l DEF Moved
<1>i. i \in Nat
  OBVIOUS
<1>5. SumsMoved(f, g, s, i, d)
  BY <1>1, <1>2, <1>4, <1>i, SumsShift
<1>6. Len(s) \in 0..Len(s) /\ 1 <= i /\ i <= Len(s)
  BY <1>3
<1> QED BY <1>1, <1>2, <1>5, <1>6 DEF SumsMoved

(* Coins of two lists with the same balances.                              *)
LEMMA CoinsSame ==
  ASSUME NEW s \in Seq(Batch), NEW t \in Seq(Batch), Len(t) = Len(s),
         \A k \in 1..Len(s) : t[k].balance = s[k].balance
  PROVE  Coins(s) \in Nat /\ Coins(t) = Coins(s)
<1>1. PICK f : Sums(f, s) /\ Coins(s) = f[Len(s)]
  BY CoinsIsSum
<1>2. PICK g : Sums(g, t) /\ Coins(t) = g[Len(t)]
  BY CoinsIsSum
<1>3. Len(s) \in Nat /\ \A k \in 1..Len(s) : s[k].balance \in Nat
  BY ListFacts
<1>0. PICK i \in Nat, d \in Int : i = 0 /\ d = 0
  OBVIOUS
<1>l. Len(s) <= Len(t)
  BY <1>3
<1>4. Moved(s, t, i, d)
  BY <1>0, <1>3, <1>l DEF Moved
<1>5. SumsMoved(f, g, s, i, d)
  BY <1>1, <1>2, <1>4, SumsShift
<1>6. Len(s) \in 0..Len(s)
  BY <1>3
<1> QED BY <1>0, <1>1, <1>2, <1>5, <1>6 DEF SumsMoved

(* Coins of a list with one batch more.                                    *)
LEMMA CoinsMinted ==
  ASSUME NEW s \in Seq(Batch), NEW t \in Seq(Batch), Len(t) = Len(s) + 1,
         \A k \in 1..Len(s) : t[k].balance = s[k].balance
  PROVE  Coins(t) = Coins(s) + t[Len(t)].balance
<1>1. PICK f : Sums(f, s) /\ Coins(s) = f[Len(s)]
  BY CoinsIsSum
<1>2. PICK g : Sums(g, t) /\ Coins(t) = g[Len(t)]
  BY CoinsIsSum
<1>3. Len(s) \in Nat /\ \A k \in 1..Len(s) : s[k].balance \in Nat
  BY ListFacts
<1>0. PICK i \in Nat, d \in Int : i = 0 /\ d = 0
  OBVIOUS
<1>l. Len(s) <= Len(t)
  BY <1>3
<1>4. Moved(s, t, i, d)
  BY <1>0, <1>3, <1>l DEF Moved
<1>5. SumsMoved(f, g, s, i, d)
  BY <1>1, <1>2, <1>4, SumsShift
<1>6. g[Len(s)] = f[Len(s)]
  BY <1>0, <1>3, <1>5 DEF SumsMoved
<1>7. Len(t) \in 0..Len(t) /\ Len(t) # 0 /\ Len(t) - 1 = Len(s)
  BY <1>3
<1>8. g[Len(t)] = g[Len(t) - 1] + t[Len(t)].balance
  BY <1>2, <1>7 DEF Sums
<1> QED BY <1>1, <1>2, <1>6, <1>7, <1>8

LEMMA CoinsNone ==
  ASSUME NEW s \in Seq(Batch), Len(s) = 0
  PROVE  Coins(s) = 0
<1>1. PICK f : Sums(f, s) /\ Coins(s) = f[Len(s)]
  BY CoinsIsSum
<1>2. f[0] = 0
  BY <1>1 DEF Sums
<1> QED BY <1>1, <1>2
-----------------------------------------------------------------------------
(* The batch rows of a debit, as Saved has them.                           *)
SavedList(b, w, R, c) == [i \in DOMAIN b |-> IF i \in R /\ i <= c THEN w[i] ELSE b[i]]

LEMMA SameLength ==
  ASSUME NEW m \in Nat, NEW n \in Nat, 1..m = 1..n
  PROVE  m = n
<1>1. m \in 1..m <=> m > 0
  OBVIOUS
<1>2. n \in 1..n <=> n > 0
  OBVIOUS
<1> QED BY <1>1, <1>2

LEMMA SavedFacts ==
  ASSUME NEW b \in Seq(Batch), NEW w \in Seq(Batch), DOMAIN w = DOMAIN b, NEW R, NEW c
  PROVE  /\ SavedList(b, w, R, c) \in Seq(Batch)
         /\ Len(SavedList(b, w, R, c)) = Len(b)
         /\ \A i \in 1..Len(b) :
              SavedList(b, w, R, c)[i] = IF i \in R /\ i <= c THEN w[i] ELSE b[i]
<1>1. Len(b) \in Nat /\ DOMAIN b = 1..Len(b) /\ DOMAIN w = 1..Len(b)
  BY ListFacts
<1>2. \A i \in 1..Len(b) : b[i] \in Batch /\ w[i] \in Batch
  BY <1>1
<1>3. \A i \in 1..Len(b) : (IF i \in R /\ i <= c THEN w[i] ELSE b[i]) \in Batch
  BY <1>2
<1>4. SavedList(b, w, R, c) = [i \in 1..Len(b) |-> IF i \in R /\ i <= c THEN w[i] ELSE b[i]]
  BY <1>1 DEF SavedList
<1>5. SavedList(b, w, R, c) \in Seq(Batch)
  BY <1>1, <1>3, <1>4
<1>6. DOMAIN SavedList(b, w, R, c) = 1..Len(b)
  BY <1>4
<1> QED BY <1>1, <1>4, <1>5, <1>6

LEMMA DebitLists ==
  ASSUME WalletInv, NEW p \in Procs, job[p].op = "debit", pc[p] \in {"consume", "entry", "commit"}
  PROVE  LET u == job[p].user
         IN /\ u \in Users /\ userLock[u] = p /\ job[p].amount \in Nat
            /\ batches[u] \in Seq(Batch) /\ work[p] \in Seq(Batch)
            /\ DOMAIN work[p] = DOMAIN batches[u] /\ rows[p] \subseteq DOMAIN batches[u]
            /\ Saved(p, u) = SavedList(batches[u], work[p], rows[p], cursor[p])
            /\ points[u] \in Nat /\ rem[p] \in Nat /\ cursor[p] \in Nat
<1>1. job[p].user \in Users /\ job[p].amount \in Nat
  BY WorkingJob
<1>2. CopyOK(p) /\ userLock[job[p].user] = p
  BY DEF WalletInv, DebitCopy, UserLocked, HoldsUser
<1>3. batches[job[p].user] \in Seq(Batch) /\ work[p] \in Seq(Batch)
      /\ points[job[p].user] \in Nat /\ rem[p] \in Nat /\ cursor[p] \in Nat
  BY <1>1 DEF WalletInv, TypeOK
<1> QED BY <1>1, <1>2, <1>3 DEF CopyOK, Saved, SavedList

(* Every transaction that leaves the points or a balance of u as they are, *)
(* or moves both.                                                          *)
LEMMA PointsBackedStep ==
  ASSUME WalletInv, WalletInv', CoinsInv, NEW p \in Procs, Act(p)
  PROVE  PointsBackedByBatches'
<1> SUFFICES ASSUME NEW u \in Users PROVE points'[u] = Coins(batches'[u])
  BY DEF PointsBackedByBatches
<1>t. /\ batches[u] \in Seq(Batch) /\ batches'[u] \in Seq(Batch)
      /\ points[u] \in Nat /\ points[u] = Coins(batches[u])
      /\ points \in [Users -> Nat] /\ batches \in [Users -> Seq(Batch)]
  BY DEF WalletInv, TypeOK, CoinsInv, PointsBackedByBatches
<1>0. PICK s \in Seq(Batch), t \in Seq(Batch) : s = batches[u] /\ t = batches'[u]
  BY <1>t
<1>s. /\ Len(s) \in Nat /\ DOMAIN s = 1..Len(s) /\ Len(t) \in Nat /\ DOMAIN t = 1..Len(t)
      /\ \A k \in 1..Len(s) : s[k].balance \in Nat
  BY ListFacts
<1>b. BatchesKept(p)
  BY ActKeepsBatches
<1>k. ASSUME points'[u] = points[u], DOMAIN t = DOMAIN s,
             \A k \in DOMAIN s : t[k].balance = s[k].balance
      PROVE  points'[u] = Coins(batches'[u])
  <2>1. Len(t) = Len(s) /\ \A k \in 1..Len(s) : t[k].balance = s[k].balance
    BY <1>s, <1>k, SameLength
  <2>2. Coins(t) = Coins(s)
    BY <2>1, CoinsSame
  <2> QED BY <1>0, <1>t, <1>k, <2>2
<1>1. CASE userLock[u] # p
  <2>1. points'[u] = points[u]
    BY <1>1, WalletKept
  <2>2. DOMAIN t = DOMAIN s /\ \A k \in DOMAIN s : t[k].balance = s[k].balance
    BY <1>0, <1>1, <1>b DEF BatchesKept
  <2> QED BY <1>k, <2>1, <2>2
<1>2. CASE ~Commit(p)
  BY <1>2, <1>t, OnlyCommitWrites DEF tables
<1>3. CASE Commit(p) /\ u # job[p].user
  <2>1. batches'[u] = batches[u]
    BY <1>3, CreditBatches, DebitBatches, OneBatch DEF Commit
  <2>2. points'[u] = points[u]
    BY <1>3, <1>t, CommitFacts
       DEF Commit, CommitCredit, CommitDebit, CommitExpire, CommitReminder, PostEntry
  <2> QED BY <1>t, <2>1, <2>2
<1>4. CASE Commit(p) /\ u = job[p].user
  <2>0. job[p] \in Job /\ job[p].amount \in Nat /\ pc[p] = "commit"
    BY <1>4, CommitFacts DEF Job
  <2>p. ASSUME ~CommitReminder(p)
        PROVE  points'[u] = points[u] + CreditOf(job[p]) - DebitOf(job[p])
    <3>1. points' = [points EXCEPT ![u] = After(p)]
      BY <1>4, <2>p DEF Commit, CommitCredit, CommitDebit, CommitExpire, PostEntry
    <3>2. seen[p] = points[u]
      BY <1>4, <2>p, CommitFacts DEF Commit, CommitCredit, CommitDebit, CommitExpire
    <3> QED BY <1>t, <3>1, <3>2 DEF After
  <2>1. CASE CommitReminder(p)
    <3>1. points'[u] = points[u]
      BY <2>1 DEF CommitReminder
    <3>2. /\ DOMAIN t = DOMAIN s /\ t[job[p].batch] = WithReminder(s[job[p].batch])
          /\ \A k \in DOMAIN s : k # job[p].batch => t[k] = s[k]
      BY <1>0, <1>4, <2>1, OneBatch
    <3>3. \A k \in DOMAIN s : t[k].balance = s[k].balance
      BY <3>2 DEF WithReminder
    <3> QED BY <1>k, <3>1, <3>2, <3>3
  <2>2. CASE CommitCredit(p)
    <3>1. /\ DOMAIN t = 1..(Len(s) + 1)
          /\ \A k \in 1..Len(s) : t[k] = s[k]
          /\ t[Len(s) + 1] = Minted(p)
      BY <1>0, <1>4, <2>2, CreditBatches
    <3>2. Len(t) = Len(s) + 1 /\ t[Len(t)].balance = job[p].amount
      <4>1. Len(t) = Len(s) + 1
        <5>1. PICK m \in Nat : m = Len(s) + 1
          BY <1>s
        <5>2. 1..Len(t) = 1..m
          BY <1>s, <3>1, <5>1
        <5>3. Len(t) = m
          BY <1>s, <5>2, SameLength
        <5> QED BY <5>1, <5>3
      <4>2. t[Len(t)] = Minted(p)
        BY <3>1, <4>1
      <4> QED BY <4>1, <4>2 DEF Minted
    <3>3. Coins(t) = Coins(s) + t[Len(t)].balance
      BY <3>1, <3>2, CoinsMinted
    <3>4. CreditOf(job[p]) = job[p].amount /\ DebitOf(job[p]) = 0
      BY <2>2 DEF CommitCredit, CreditOf, DebitOf
    <3>5. ~CommitReminder(p)
      BY <2>2 DEF CommitCredit, CommitReminder
    <3> QED BY <1>0, <1>t, <2>0, <2>p, <3>2, <3>3, <3>4, <3>5
  <2>3. CASE CommitDebit(p)
    <3>1. job[p].op = "debit" /\ OnTrack(p)
      BY <2>0, <2>3 DEF CommitDebit, CoinsInv, DebitsOnTrack
    <3>2. batches'[u] = Saved(p, u)
      BY <1>4, <1>t, <2>3 DEF CommitDebit
    <3>3. Coins(Saved(p, u)) + job[p].amount = points[u] /\ rem[p] = 0
      BY <1>4, <1>t, <2>0, <3>1 DEF OnTrack
    <3>4. CreditOf(job[p]) = 0 /\ DebitOf(job[p]) = job[p].amount
      BY <3>1 DEF CreditOf, DebitOf
    <3>5. ~CommitReminder(p)
      BY <3>1 DEF CommitReminder
    <3>6. Coins(t) \in Nat
      BY CoinsSame
    <3> QED BY <1>0, <1>t, <2>0, <2>p, <3>2, <3>3, <3>4, <3>5, <3>6
  <2>4. CASE CommitExpire(p)
    <3> DEFINE i == job[p].batch
    <3>1. /\ i \in DOMAIN s /\ DOMAIN t = DOMAIN s /\ t[i] = WithBalance(s[i], 0)
          /\ \A k \in DOMAIN s : k # i => t[k] = s[k]
      BY <1>0, <1>4, <2>4, OneBatch
    <3>2. job[p].op = "expire" /\ s[i].balance = job[p].amount
      BY <1>0, <1>4, <2>4, <2>0 DEF CommitExpire, WalletInv, BatchClaimed
    <3>3. PICK d \in Int, n \in 1..Len(s) : n = i /\ d = 0 - job[p].amount
      <4>1. 0 - job[p].amount \in Int /\ i \in 1..Len(s)
        BY <1>s, <2>0, <3>1
      <4> HIDE DEF i
      <4> QED BY <4>1
    <3>4. /\ Len(t) = Len(s) /\ t[n].balance = s[n].balance + d
          /\ \A k \in 1..Len(s) : k # n => t[k].balance = s[k].balance
      <4>1. Len(t) = Len(s)
        BY <1>s, <3>1, SameLength
      <4>2. t[n].balance = 0 /\ s[n].balance = job[p].amount
        BY <3>1, <3>2, <3>3 DEF WithBalance
      <4> QED BY <1>s, <2>0, <3>1, <3>3, <4>1, <4>2
    <3>5. Coins(t) = Coins(s) + d /\ Coins(s) \in Nat
      BY <3>4, CoinsMove
    <3>6. CreditOf(job[p]) = 0 /\ DebitOf(job[p]) = job[p].amount
      BY <3>2 DEF CreditOf, DebitOf
    <3>7. ~CommitReminder(p)
      BY <3>2 DEF CommitReminder
    <3> QED BY <1>0, <1>t, <2>0, <2>p, <3>3, <3>5, <3>6, <3>7
  <2> QED BY <1>4, <2>1, <2>2, <2>3, <2>4 DEF Commit
<1> QED BY <1>2, <1>3, <1>4

(* The copy of a debit stays on its way: nobody else moves the wallet it   *)
(* holds, and its own loop moves a saved row and what it owes together.    *)
LEMMA OnTrackOthers ==
  ASSUME WalletInv, WalletInv', CoinsInv, NEW p \in Procs, Act(p), NEW q \in Procs, q # p,
         job[q].op = "debit", pc[q] \in {"consume", "entry", "commit"}
  PROVE  OnTrack(q)'
<1>k. OthersKept(p) /\ BatchesKept(p)
  BY ActKeepsOthers, ActKeepsBatches DEF WalletInv
<1> DEFINE u == job[q].user
<1>1. /\ pc'[q] = pc[q] /\ job'[q] = job[q] /\ work'[q] = work[q] /\ rem'[q] = rem[q]
      /\ cursor'[q] = cursor[q] /\ rows'[q] = rows[q]
  BY <1>k DEF OthersKept
<1>2. /\ u \in Users /\ userLock[u] = q /\ job[q].amount \in Nat
      /\ batches[u] \in Seq(Batch) /\ work[q] \in Seq(Batch)
      /\ DOMAIN work[q] = DOMAIN batches[u] /\ rows[q] \subseteq DOMAIN batches[u]
      /\ Saved(q, u) = SavedList(batches[u], work[q], rows[q], cursor[q])
  BY DebitLists
<1>3. /\ points'[u] = points[u] /\ DOMAIN batches'[u] = DOMAIN batches[u]
      /\ \A i \in DOMAIN batches[u] : batches'[u][i].balance = batches[u][i].balance
  BY <1>2, <1>k, WalletKept DEF BatchesKept
<1>4. batches'[u] \in Seq(Batch)
  BY <1>2 DEF WalletInv, TypeOK
<1>5. PICK s \in Seq(Batch), t \in Seq(Batch), w \in Seq(Batch), R \in SUBSET Nat, c \in Nat :
        s = batches[u] /\ t = batches'[u] /\ w = work[q] /\ R = rows[q] /\ c = cursor[q]
  BY <1>2, <1>4 DEF WalletInv, TypeOK
<1>6. /\ Len(s) \in Nat /\ DOMAIN s = 1..Len(s) /\ Len(t) \in Nat /\ DOMAIN t = 1..Len(t)
  BY ListFacts
<1>7. Len(t) = Len(s) /\ DOMAIN w = DOMAIN s /\ DOMAIN w = DOMAIN t
  BY <1>2, <1>3, <1>5, <1>6, SameLength
<1>8. \A k \in 1..Len(s) : SavedList(t, w, R, c)[k].balance = SavedList(s, w, R, c)[k].balance
  <2>1. \A k \in 1..Len(s) : SavedList(s, w, R, c)[k] = IF k \in R /\ k <= c THEN w[k] ELSE s[k]
    BY <1>7, SavedFacts
  <2>2. \A k \in 1..Len(t) : SavedList(t, w, R, c)[k] = IF k \in R /\ k <= c THEN w[k] ELSE t[k]
    BY <1>7, SavedFacts
  <2>3. \A k \in 1..Len(s) : t[k].balance = s[k].balance
    BY <1>3, <1>5, <1>6
  <2> QED BY <1>7, <2>1, <2>2, <2>3
<1>9. Coins(SavedList(t, w, R, c)) = Coins(SavedList(s, w, R, c))
  <2>1. PICK x, y : x = SavedList(s, w, R, c) /\ y = SavedList(t, w, R, c)
    OBVIOUS
  <2>2. x \in Seq(Batch) /\ y \in Seq(Batch) /\ Len(x) = Len(s) /\ Len(y) = Len(s)
    BY <1>7, <2>1, SavedFacts
  <2>3. \A k \in 1..Len(x) : y[k].balance = x[k].balance
    BY <1>8, <2>1, <2>2
  <2>4. Coins(y) = Coins(x)
    BY <2>2, <2>3, CoinsSame
  <2> QED BY <2>1, <2>4
<1>10. OnTrack(q)
  BY DEF CoinsInv, DebitsOnTrack
<1>11. Saved(q, u)' = SavedList(t, w, R, c)
  BY <1>1, <1>5 DEF Saved, SavedList
<1>12. Coins(Saved(q, u)') + job[q].amount = points'[u] + rem[q]
  BY <1>2, <1>3, <1>5, <1>9, <1>10, <1>11 DEF OnTrack
<1>13. \A i \in rows[q] : i > cursor[q] => work[q][i].balance = batches'[u][i].balance
  BY <1>2, <1>3, <1>10 DEF OnTrack
<1>14. pc[q] # "consume" => rem[q] = 0
  BY <1>10 DEF OnTrack
<1>15. Coins(Saved(q, job[q].user))' = Coins(Saved(q, u)')
  BY <1>1 DEF Coins, Saved
<1> QED BY <1>1, <1>12, <1>13, <1>14, <1>15 DEF OnTrack

LEMMA OnTrackSelect ==
  ASSUME WalletInv, CoinsInv, NEW p \in Procs, SelectBatches(p)
  PROVE  OnTrack(p)'
<1> DEFINE u == job[p].user
<1>1. /\ pc[p] = "select" /\ cursor[p] = 0 /\ cursor' = cursor /\ job' = job /\ pc'[p] = "consume"
      /\ rows'[p] = Selected(u, clock[p]) /\ work'[p] = batches[u] /\ rem'[p] = job[p].amount
      /\ batches' = batches /\ points' = points
  BY DEF SelectBatches, WalletInv, TypeOK, PlaceOK, tables
<1>2. u \in Users /\ batches[u] \in Seq(Batch)
  BY <1>1, WorkingJob DEF WalletInv, TypeOK
<1>3. Len(batches[u]) \in Nat /\ DOMAIN batches[u] = 1..Len(batches[u])
  BY <1>2, ListFacts
<1>4. Saved(p, u)' = batches[u]
  <2>1. Saved(p, u)' = [i \in DOMAIN batches[u] |->
                          IF i \in Selected(u, clock[p]) /\ i <= 0 THEN batches[u][i] ELSE batches[u][i]]
    BY <1>1 DEF Saved
  <2>2. batches[u] = [i \in DOMAIN batches[u] |-> batches[u][i]]
    BY <1>2
  <2> QED BY <2>1, <2>2
<1>5. points[u] = Coins(batches[u])
  BY <1>2 DEF CoinsInv, PointsBackedByBatches
<1>6. Coins(Saved(p, job[p].user))' = points[u]
  BY <1>1, <1>4, <1>5
<1> QED BY <1>1, <1>6 DEF OnTrack

LEMMA OnTrackConsume ==
  ASSUME WalletInv, CoinsInv, NEW p \in Procs, ConsumeBatch(p)
  PROVE  OnTrack(p)'
<1> DEFINE u == job[p].user
<1>1. /\ pc[p] = "consume" /\ rem[p] > 0 /\ job' = job /\ rows' = rows /\ pc' = pc
      /\ batches' = batches /\ points' = points /\ job[p].op = "debit"
  BY DEF ConsumeBatch, tables, WalletInv, PlaceOK
<1>2. PICK i \in rows[p] :
        /\ IsNext(p, i)
        /\ work' = [work EXCEPT ![p] = [work[p] EXCEPT ![i] =
                      WithBalance(work[p][i], work[p][i].balance - Taken(work[p][i].balance, rem[p]))]]
        /\ rem' = [rem EXCEPT ![p] = rem[p] - Taken(work[p][i].balance, rem[p])]
        /\ cursor' = [cursor EXCEPT ![p] = i]
  BY DEF ConsumeBatch
<1>3. /\ u \in Users /\ job[p].amount \in Nat /\ points[u] \in Nat
      /\ batches[u] \in Seq(Batch) /\ work[p] \in Seq(Batch)
      /\ DOMAIN work[p] = DOMAIN batches[u] /\ rows[p] \subseteq DOMAIN batches[u]
      /\ Saved(p, u) = SavedList(batches[u], work[p], rows[p], cursor[p])
      /\ rem[p] \in Nat /\ cursor[p] \in Nat
  BY <1>1, DebitLists
<1>4. OnTrack(p)
  BY <1>1 DEF CoinsInv, DebitsOnTrack
<1>5. PICK s \in Seq(Batch), w \in Seq(Batch), R \in SUBSET Nat, c \in Nat :
        s = batches[u] /\ w = work[p] /\ R = rows[p] /\ c = cursor[p]
  BY <1>3 DEF WalletInv, TypeOK
<1>6. /\ Len(s) \in Nat /\ DOMAIN s = 1..Len(s) /\ DOMAIN w = DOMAIN s /\ R \subseteq 1..Len(s)
      /\ \A k \in 1..Len(s) : s[k].balance \in Nat
  BY <1>3, <1>5, ListFacts
<1>7. i \in R /\ i \in 1..Len(s) /\ i > c /\ \A k \in R : k > c => i <= k
  BY <1>2, <1>5, <1>6 DEF IsNext, Unvisited
<1>8. \A k \in R : k > c => w[k].balance = s[k].balance
  BY <1>4, <1>5 DEF OnTrack
<1> DEFINE took == Taken(work[p][i].balance, rem[p])
           b == WithBalance(work[p][i], work[p][i].balance - took)
           w2 == [w EXCEPT ![i] = b]
<1>9. took \in Nat /\ took <= s[i].balance /\ took <= rem[p] /\ w[i].balance = s[i].balance
      /\ s[i].balance \in Nat
  BY <1>3, <1>5, <1>6, <1>7, <1>8 DEF Taken
<1>10. /\ work'[p] = w2 /\ rem'[p] = rem[p] - took /\ cursor'[p] = i
  BY <1>2, <1>5 DEF WalletInv, TypeOK
<1>11. b \in Batch /\ b.balance = s[i].balance - took
  <2>1. work[p][i] \in Batch /\ work[p][i].balance - took \in Nat
    BY <1>3, <1>5, <1>6, <1>7, <1>9
  <2>2. b.balance = work[p][i].balance - took
    BY DEF WithBalance
  <2> QED BY <1>5, <1>9, <2>1, <2>2, BatchUpdates
<1> HIDE DEF took, b
<1>12. w2 \in Seq(Batch) /\ DOMAIN w2 = DOMAIN w /\ w2[i] = b
       /\ \A k \in DOMAIN w : k # i => w2[k] = w[k]
  BY <1>6, <1>7, <1>11
<1> HIDE DEF w2
<1>13. PICK x, y : x = SavedList(s, w, R, c) /\ y = SavedList(s, w2, R, i)
  OBVIOUS
<1>14. /\ x \in Seq(Batch) /\ Len(x) = Len(s)
       /\ \A k \in 1..Len(s) : x[k] = IF k \in R /\ k <= c THEN w[k] ELSE s[k]
  BY <1>6, <1>13, SavedFacts
<1>15. /\ y \in Seq(Batch) /\ Len(y) = Len(s)
       /\ \A k \in 1..Len(s) : y[k] = IF k \in R /\ k <= i THEN w2[k] ELSE s[k]
  BY <1>6, <1>12, <1>13, SavedFacts
<1>16. y[i].balance = x[i].balance - took
  <2>1. x[i] = s[i] /\ y[i] = b
    BY <1>7, <1>12, <1>14, <1>15
  <2> QED BY <1>11, <2>1
<1>17. \A k \in 1..Len(s) : k # i => y[k].balance = x[k].balance
  <2> SUFFICES ASSUME NEW k \in 1..Len(s), k # i PROVE y[k].balance = x[k].balance
    OBVIOUS
  <2>0. /\ x[k] = IF k \in R /\ k <= c THEN w[k] ELSE s[k]
        /\ y[k] = IF k \in R /\ k <= i THEN w2[k] ELSE s[k]
        /\ k \in Nat /\ i \in Nat
    BY <1>7, <1>14, <1>15
  <2>1. CASE k \notin R \/ k > i
    BY <1>7, <2>0, <2>1
  <2>2. CASE k \in R /\ k <= c
    BY <1>6, <1>7, <1>12, <2>0, <2>2
  <2>3. CASE k \in R /\ k > c /\ k <= i
    BY <1>7, <2>3
  <2> QED BY <2>0, <2>1, <2>2, <2>3
<1>18. Coins(x) \in Nat /\ Coins(y) = Coins(x) - took
  <2>1. PICK d \in Int : d = 0 - took
    BY <1>9
  <2>2. x[i].balance \in Nat
    BY <1>7, <1>14, ListFacts
  <2>3. y[i].balance = x[i].balance + d /\ i \in 1..Len(x) /\ Len(y) = Len(x)
    BY <1>7, <1>9, <1>14, <1>15, <1>16, <2>1, <2>2
  <2>4. \A k \in 1..Len(x) : k # i => y[k].balance = x[k].balance
    BY <1>14, <1>17
  <2>5. Coins(x) \in Nat /\ Coins(y) = Coins(x) + d
    BY <1>14, <1>15, <2>3, <2>4, CoinsMove
  <2> QED BY <1>9, <2>1, <2>5
<1>19. Saved(p, job[p].user)' = y
  BY <1>1, <1>5, <1>10, <1>13 DEF Saved, SavedList
<1>20. Coins(x) + job[p].amount = points[u] + rem[p]
  <2>1. Saved(p, u) = x
    BY <1>3, <1>5, <1>13
  <2>2. Coins(Saved(p, u)) = Coins(x)
    BY <2>1, Zenon
  <2>3. Coins(Saved(p, u)) + job[p].amount = points[u] + rem[p]
    BY <1>4 DEF OnTrack
  <2> QED BY <2>2, <2>3
<1>21. Coins(y) + job[p].amount = points[u] + rem'[p]
  <2>1. PICK sum \in Nat, a \in Nat, n \in Nat, r \in Nat :
          sum = Coins(x) /\ a = job[p].amount /\ n = points[u] /\ r = rem[p]
    BY <1>3, <1>18
  <2>2. Coins(y) = sum - took /\ rem'[p] = r - took
    BY <1>10, <1>18, <2>1
  <2>3. PICK z \in Nat : z = took
    BY <1>9
  <2>4. (sum - z) + a = n + (r - z)
    <3>1. sum + a = n + r
      BY <1>20, <2>1
    <3> QED BY <3>1
  <2> QED BY <2>1, <2>2, <2>3, <2>4
<1>22. \A k \in R : k > i => w2[k].balance = s[k].balance
  <2> SUFFICES ASSUME NEW k \in R, k > i PROVE w2[k].balance = s[k].balance
    OBVIOUS
  <2>1. k \in Nat /\ i \in Nat /\ k \in DOMAIN w /\ k # i /\ k > c
    <3>1. k \in Nat /\ i \in Nat /\ k \in DOMAIN w /\ c \in Nat /\ i > c
      BY <1>5, <1>6, <1>7
    <3> QED BY <3>1
  <2> QED BY <1>8, <1>12, <2>1
<1> QED BY <1>1, <1>5, <1>10, <1>19, <1>21, <1>22 DEF OnTrack

LEMMA DebitsOnTrackStep ==
  ASSUME WalletInv, WalletInv', CoinsInv, NEW p \in Procs, Act(p)
  PROVE  DebitsOnTrack'
<1>k. OthersKept(p)
  BY ActKeepsOthers DEF WalletInv
<1>t. TypeOK /\ PlaceOK
  BY DEF WalletInv
<1> SUFFICES ASSUME NEW q \in Procs, job'[q].op = "debit", pc'[q] \in {"consume", "entry", "commit"}
    PROVE  OnTrack(q)'
  BY DEF DebitsOnTrack
<1>1. CASE q # p
  BY <1>1, <1>k, OnTrackOthers DEF OthersKept
<1>2. CASE q = p
  <2>1. CASE Ends(p)
    BY <1>2, <2>1 DEF Ends
  <2>2. CASE Begins(p)
    BY <1>2, <2>2 DEF Begins
  <2>3. CASE LockWallet(p)
    BY <1>2, <1>t, <2>3 DEF LockWallet, TypeOK
  <2>4. CASE SelectBatches(p)
    BY <1>2, <2>4, OnTrackSelect
  <2>5. CASE ConsumeBatch(p)
    BY <1>2, <2>5, OnTrackConsume
  <2>6. CASE ConsumeDone(p)
    <3>1. /\ pc[p] = "consume" /\ rem[p] = 0 /\ UNCHANGED <<batches, points, job, work, rem, cursor, rows>>
      BY <2>6 DEF ConsumeDone, tables, memory
    <3>2. OnTrack(p)
      BY <1>t, <3>1 DEF CoinsInv, DebitsOnTrack, PlaceOK
    <3>3. Saved(p, job[p].user)' = Saved(p, job[p].user)
      BY <3>1 DEF Saved
    <3> QED BY <1>2, <3>1, <3>2, <3>3 DEF OnTrack
  <2>7. CASE RecheckBatch(p) /\ pc'[p] = "entry" /\ ~Rollback(p)
    <3>1. job'[p].op = "expire"
      BY <1>t, <2>7 DEF RecheckBatch, TypeOK
    <3> QED BY <1>2, <3>1
  <2>8. CASE AddLedgerEntry(p) /\ pc'[p] = "commit" /\ ~Rollback(p)
    <3>1. /\ pc[p] = "entry" /\ UNCHANGED <<batches, points, job, work, rem, cursor, rows>>
      BY <2>8 DEF AddLedgerEntry, tables
    <3>2. OnTrack(p)
      BY <1>2, <3>1 DEF CoinsInv, DebitsOnTrack
    <3>3. Saved(p, job[p].user)' = Saved(p, job[p].user)
      BY <3>1 DEF Saved
    <3>4. rem[p] = 0
      BY <3>1, <3>2 DEF OnTrack
    <3> QED BY <1>2, <3>1, <3>2, <3>3, <3>4 DEF OnTrack
  <2>9. CASE LockReminder(p) /\ pc'[p] = "commit" /\ ~Rollback(p)
    BY <1>2, <1>t, <2>9 DEF LockReminder, TypeOK, PlaceOK
  <2> QED BY <2>1, <2>2, <2>3, <2>4, <2>5, <2>6, <2>7, <2>8, <2>9, ActCases
<1> QED BY <1>1, <1>2

(* users.points is always the sum of the user's coin batches: what a debit *)
(* takes from the rows it locked, an expiry from the batch it rechecked    *)
(* and a credit puts in a new one is what the ledger entry moves.          *)
THEOREM PointsBacked == Spec => []PointsBackedByBatches
<1>1. Init => CoinsInv
  <2> SUFFICES ASSUME Init PROVE CoinsInv
    OBVIOUS
  <2>1. DebitsOnTrack
    BY DEF Init, DebitsOnTrack
  <2>2. \A u \in Users : points[u] = 0 /\ batches[u] = <<>>
    BY DEF Init
  <2>3. PICK s \in Seq(Batch) : s = <<>> /\ Len(s) = 0
    <3>1. <<>> \in Seq(Batch) /\ Len(<<>>) = 0
      OBVIOUS
    <3> QED BY <3>1
  <2>4. Coins(s) = 0
    BY <2>3, CoinsNone
  <2> QED BY <2>1, <2>2, <2>3, <2>4 DEF CoinsInv, PointsBackedByBatches
<1>2. WalletInv /\ WalletInv' /\ CoinsInv /\ [Next]_vars => CoinsInv'
  <2> SUFFICES ASSUME WalletInv, WalletInv', CoinsInv, [Next]_vars PROVE CoinsInv'
    OBVIOUS
  <2>1. CASE Tick \/ UNCHANGED vars
    <3>1. UNCHANGED <<points, batches, pc, job, work, rem, cursor, rows>>
      BY <2>1 DEF Tick, vars, tables, memory
    <3> QED BY <3>1 DEF CoinsInv, PointsBackedByBatches, DebitsOnTrack, OnTrack, Saved
  <2>2. ASSUME NEW p \in Procs, Act(p) PROVE CoinsInv'
    BY <2>2, PointsBackedStep, DebitsOnTrackStep DEF CoinsInv
  <2> QED BY <2>1, <2>2, StepIsTickOrAct
<1>3. CoinsInv => PointsBackedByBatches
  BY DEF CoinsInv
<1> QED BY <1>1, <1>2, <1>3, WalletInvHolds, PTL DEF Spec
=============================================================================
