------------------------------- MODULE Market -------------------------------
(***************************************************************************)
(* Prediction markets, from publication to payout: SubmitPrediction        *)
(* (controllers/prediction_controller.go), ResolveMarket, the market state *)
(* handlers (controllers/market_controller.go) and transitionMarkets       *)
(* (services/cron.go).                                                     *)
(*                                                                         *)
(* As in Wallet, a process is one READ COMMITTED transaction: steps that   *)
(* lock and read rows, then one step that commits what it wrote.  A wallet *)
(* is here what Wallet is proved to implement, a balance that moves under  *)
(* the lock of its users row.                                              *)
(***************************************************************************)
EXTENDS Integers, FiniteSets

CONSTANTS
  Users,          \* user ids, natural numbers: row locks are taken in their order
  Markets,
  Seeded,         \* the markets the seeder made, Open from the start
  Options,        \* the options every market declares
  Answers,        \* what a request may name as one
  Category,       \* Category[m]
  Payout,         \* Payout[m]: coins for a correct prediction
  StartTime,      \* StartTime[m]: 0 when the market has none
  LockTime,       \* LockTime[m]: the earlier of lock_time and end_date
  ResolutionTime, \* ResolutionTime[m]: beyond MaxTime when the market has none
  Stake,          \* coins put on a prediction
  Coins,          \* Coins[u]: balance at the start
  Referrer,       \* Referrer[u]: users.referred_by, 0 for none
  Clients,        \* transactions of SubmitPrediction
  Resolvers,      \* transactions of ResolveMarket
  Admins,         \* transactions of the other handlers of moderators and admins
  Jobs,           \* the minute job, one process per replica of the backend
  NoProc,
  Day,            \* length of a day
  MaxTime         \* bound: the clock stops there

Procs == Clients \cup Resolvers \cup Admins \cup Jobs

ASSUME ConstantsAssumption ==
  /\ Users \subseteq Nat \ {0}
  /\ IsFiniteSet(Markets)
  /\ Seeded \subseteq Markets
  /\ "none" \notin Options  \* the model's mark for no prediction and no result
  /\ Payout \in [Markets -> Nat \ {0}]
  /\ StartTime \in [Markets -> Nat]
  /\ LockTime \in [Markets -> Nat]
  /\ ResolutionTime \in [Markets -> Nat]
  /\ \A m \in Markets : StartTime[m] < LockTime[m] /\ LockTime[m] <= ResolutionTime[m]
  /\ Stake \in Nat \ {0}
  /\ Coins \in [Users -> Nat]
  /\ Referrer \in [Users -> Users \cup {0}]
  /\ NoProc \notin Procs
  /\ Day \in Nat \ {0}
  /\ MaxTime \in Nat

VARIABLES
  now,
  status,     \* status[m]: markets.resolution_status
  correct,    \* correct[m]: markets.correct_option
  volume,     \* volume[m]: markets.volume
  bets,       \* bets[u][m]: the prediction_submissions row, unique by user and market
  placed,     \* placed[u][m]: its created_at
  points,     \* points[u]: users.points
  stakes,     \* stakes[u][m]: prediction_stake entries on the ledger
  wins,       \* wins[u][m]: prediction_win entries on the ledger
  stats,      \* stats[u]: users.win_rate, as wins over decided predictions
  marketLock, \* marketLock[m]: the transaction holding the markets row
  userLock,   \* userLock[u]: the transaction holding the users row
  pc, job,
  copy,       \* copy[p]: the columns of the market p may write back
  at,         \* at[p]: time.Now() of SubmitPrediction
  owed,       \* owed[p]: users rows p is going to lock
  want,       \* want[p]: the one it waits for, 0 for none
  read,       \* read[p][u]: users.points read when p locked u
  list,       \* list[p]: the predictions ResolveMarket loaded, as their users
  snapshot,   \* snapshot[p]: the figures its UPDATE of the statistics computes
  missed,     \* history: missed[p], users others have graded since p's UPDATE began
  outdated    \* history: users whose stored figures are from an UPDATE that missed them

tables == <<status, correct, volume, bets, placed, points, stakes, wins, stats, outdated>>
locks == <<marketLock, userLock>>
memory == <<copy, at, owed, want, read, list, snapshot, missed>>
vars == <<now, tables, locks, pc, job, memory>>

-----------------------------------------------------------------------------
NoBet == [choice |-> "none", grade |-> "none"]

Bet == [choice: Options, grade: {"open", "won", "lost"}]

Statuses == {"None", "Open", "Proposed", "Draft", "Scheduled", "Live", "Locked",
             "Awaiting Resolution", "Resolved", "Archived"}

Job == [op: {"submit"}, user: Users, market: Markets, choice: Answers]
       \cup [op: {"resolve"}, market: Markets, choice: Answers]
       \cup [op: {"move"}, market: Markets, from: Statuses, to: Statuses]

NoJob == [op |-> "none"]

PCs == {"idle", "market", "load", "wallets", "check", "stats", "rows", "commit", "update"}

Stat == [wins: Nat, decided: Nat]

NoStat == [wins |-> 0, decided |-> 0]

TypeOK ==
  /\ now \in 0..MaxTime
  /\ status \in [Markets -> Statuses]
  /\ correct \in [Markets -> Options \cup {"none"}]
  /\ volume \in [Markets -> Nat]
  /\ bets \in [Users -> [Markets -> Bet \cup {NoBet}]]
  /\ placed \in [Users -> [Markets -> Nat]]
  /\ points \in [Users -> Nat]
  /\ stakes \in [Users -> [Markets -> Nat]]
  /\ wins \in [Users -> [Markets -> Nat]]
  /\ stats \in [Users -> Stat]
  /\ marketLock \in [Markets -> Procs \cup {NoProc}]
  /\ userLock \in [Users -> Procs \cup {NoProc}]
  /\ pc \in [Procs -> PCs]
  /\ job \in [Procs -> Job \cup {NoJob}]
  /\ copy \in [Procs -> Nat]
  /\ at \in [Procs -> Nat]
  /\ owed \in [Procs -> SUBSET Users]
  /\ want \in [Procs -> Users \cup {0}]
  /\ read \in [Procs -> [Users -> Nat]]
  /\ list \in [Procs -> SUBSET Users]
  /\ snapshot \in [Procs -> [Users -> Stat]]
  /\ missed \in [Procs -> SUBSET Users]
  /\ outdated \subseteq Users

-----------------------------------------------------------------------------
(* Helpers.  As in Wallet, a second form beside a definition (ChildFirst)  *)
(* is the slip the properties are tested against; no action uses it.       *)

Lowest(S) == CHOOSE x \in S : \A y \in S : x <= y

(* The rows LockReferralWalletsTx locks for a user; what                   *)
(* TriggerReferralEventTx does under them is in Referral.                  *)
Wallets(u) == {u} \cup ({Referrer[u]} \ {0})

(* The one it locks first. *)
ChildFirst(u) == u
FirstWallet(u) == Lowest(Wallets(u))

(* SELECT ... FOR UPDATE, and the wait of an UPDATE. *)
LockIgnored(lock, p) == TRUE
Free(lock, p) == lock \in {NoProc, p}

(* UPDATE ... WHERE id = ? AND resolution_status = ?: the status a move    *)
(* started from is still there.                                            *)
UpdatedBlindly(m, from) == TRUE
StillIn(m, from) == status[m] = from

(* The prediction window. *)
Accepting(m) ==
  /\ status[m] \in {"Open", "Live"}
  /\ now < LockTime[m]
  /\ now >= StartTime[m]

(* One prediction per category per UTC day. *)
OnePerMarket(u, m, time) == bets[u][m] # NoBet
CategoryTaken(u, m, time) ==
  \E k \in Markets :
    /\ Category[k] = Category[m]
    /\ bets[u][k] # NoBet
    /\ placed[u][k] \div Day = time \div Day

(* DebitWalletTx goes through. *)
AffordableOnCredit(u) == TRUE
Affordable(u) == points[u] >= Stake

Bettors(m) == {u \in Users : bets[u][m] # NoBet}

(* The winners among the predictions ResolveMarket loaded. *)
Winners(p) == {u \in list[p] : bets[u][job[p].market].choice = job[p].choice}

GradedFor(b, choice) ==
  [choice |-> b.choice, grade |-> IF b.choice = choice THEN "won" ELSE "lost"]

(* bets[u], as the statements of resolver p see it: its own tx.Save calls  *)
(* included, those of other open transactions not.                         *)
SeenBy(p, u) ==
  IF u \in list[p]
    THEN [bets[u] EXCEPT ![job[p].market] = GradedFor(@, job[p].choice)]
    ELSE bets[u]

(* The win_rate expression over the predictions b of one user. *)
Figures(b) ==
  [wins    |-> Cardinality({m \in Markets : b[m].grade = "won"}),
   decided |-> Cardinality({m \in Markets : b[m].grade \in {"won", "lost"}})]

StatsBeforeSave(p, u) == Figures(bets[u])
StatsSeen(p, u) == Figures(SeenBy(p, u))

(* A resolver whose figures are computed and not yet stored. *)
Storing(p) == pc[p] \in {"rows", "commit"} /\ job[p].op = "resolve"

-----------------------------------------------------------------------------
LocksKept(p) == UNCHANGED locks
ReleaseLocks(p) ==
  /\ marketLock' = [m \in Markets |-> IF marketLock[m] = p THEN NoProc ELSE marketLock[m]]
  /\ userLock' = [u \in Users |-> IF userLock[u] = p THEN NoProc ELSE userLock[u]]

(* The end of a transaction: locks released, memory gone. *)
End(p) ==
  /\ pc' = [pc EXCEPT ![p] = "idle"]
  /\ job' = [job EXCEPT ![p] = NoJob]
  /\ copy' = [copy EXCEPT ![p] = 0]
  /\ at' = [at EXCEPT ![p] = 0]
  /\ owed' = [owed EXCEPT ![p] = {}]
  /\ want' = [want EXCEPT ![p] = 0]
  /\ read' = [read EXCEPT ![p] = [u \in Users |-> 0]]
  /\ list' = [list EXCEPT ![p] = {}]
  /\ snapshot' = [snapshot EXCEPT ![p] = [u \in Users |-> NoStat]]
  /\ ReleaseLocks(p)

Rollback(p) == End(p) /\ UNCHANGED <<now, tables, missed>>

Begin(p, j, first) ==
  /\ pc' = [pc EXCEPT ![p] = first]
  /\ job' = [job EXCEPT ![p] = j]
  /\ UNCHANGED <<now, tables, locks, memory>>

Init ==
  /\ now = 0
  /\ status = [m \in Markets |-> IF m \in Seeded THEN "Open" ELSE "None"]
  /\ correct = [m \in Markets |-> "none"]
  /\ volume = [m \in Markets |-> 0]
  /\ bets = [u \in Users |-> [m \in Markets |-> NoBet]]
  /\ placed = [u \in Users |-> [m \in Markets |-> 0]]
  /\ points = Coins
  /\ stakes = [u \in Users |-> [m \in Markets |-> 0]]
  /\ wins = [u \in Users |-> [m \in Markets |-> 0]]
  /\ stats = [u \in Users |-> NoStat]
  /\ marketLock = [m \in Markets |-> NoProc]
  /\ userLock = [u \in Users |-> NoProc]
  /\ pc = [p \in Procs |-> "idle"]
  /\ job = [p \in Procs |-> NoJob]
  /\ copy = [p \in Procs |-> 0]
  /\ at = [p \in Procs |-> 0]
  /\ owed = [p \in Procs |-> {}]
  /\ want = [p \in Procs |-> 0]
  /\ read = [p \in Procs |-> [u \in Users |-> 0]]
  /\ list = [p \in Procs |-> {}]
  /\ snapshot = [p \in Procs |-> [u \in Users |-> NoStat]]
  /\ missed = [p \in Procs |-> {}]
  /\ outdated = {}

-----------------------------------------------------------------------------
(* Market states.  Each handler reads the row without a lock, checks, and  *)
(* updates it if its status is still the one read.                         *)

(* CreateMarket and ProposeMarket. *)
CreateMarket(m, s) ==
  /\ status[m] = "None"
  /\ now < LockTime[m]
  /\ s = "Scheduled" => now < StartTime[m]
  /\ status' = [status EXCEPT ![m] = s]
  /\ UNCHANGED <<now, correct, volume, bets, placed, points, stakes, wins, stats,
                 outdated, locks, pc, job, memory>>

Move(p, m, to) ==
  /\ pc[p] = "idle"
  /\ Begin(p, [op |-> "move", market |-> m, from |-> status[m], to |-> to], "update")

(* transitionMarkets finds a market whose time has come. *)
OpenAndDue(m) == status[m] = "Open" /\ LockTime[m] <= now
DueToLock(m) == status[m] \in {"Open", "Live"} /\ LockTime[m] <= now

ScanMarket(p, m) ==
  \/ status[m] = "Scheduled" /\ StartTime[m] <= now /\ Move(p, m, "Live")
  \/ DueToLock(m) /\ Move(p, m, "Locked")
  \/ status[m] = "Locked" /\ ResolutionTime[m] <= now /\ Move(p, m, "Awaiting Resolution")

Allowed ==
  {<<"Draft", "Scheduled">>, <<"Draft", "Live">>, <<"Scheduled", "Live">>,
   <<"Open", "Locked">>, <<"Live", "Locked">>, <<"Locked", "Awaiting Resolution">>,
   <<"Resolved", "Archived">>}

TransitionMarketState(p, m, to) ==
  /\ <<status[m], to>> \in Allowed
  /\ to \in {"Scheduled", "Live"} => now < LockTime[m]
  /\ to = "Scheduled" => now < StartTime[m]
  /\ Move(p, m, to)

ApproveMarket(p, m) ==
  /\ status[m] = "Proposed"
  /\ now < LockTime[m]
  /\ Move(p, m, "Live")

DeleteMarket(p, m) ==
  /\ status[m] \in {"Draft", "Resolved"}
  /\ Move(p, m, "Archived")

(* The conditional UPDATE, which waits for the row. *)
UpdateStatus(p) ==
  LET m == job[p].market
  IN /\ pc[p] = "update"
     /\ Free(marketLock[m], p)
     /\ status' = IF StillIn(m, job[p].from)
                    THEN [status EXCEPT ![m] = job[p].to] ELSE status
     /\ End(p)
     /\ UNCHANGED <<now, correct, volume, bets, placed, points, stakes, wins, stats,
                    missed, outdated>>

-----------------------------------------------------------------------------
(* SubmitPrediction and ResolveMarket *)

SubmitPrediction(p, u, m, choice) ==
  /\ pc[p] = "idle"
  /\ Begin(p, [op |-> "submit", user |-> u, market |-> m, choice |-> choice], "market")

ResolveMarket(p, m, choice) ==
  /\ pc[p] = "idle"
  /\ Begin(p, [op |-> "resolve", market |-> m, choice |-> choice], "market")

(* Both lock the market first, and look at its status. *)
LockMarket(p) ==
  /\ pc[p] = "market"
  /\ Free(marketLock[job[p].market], p)

LockForSubmit(p) ==
  LET m == job[p].market
  IN /\ LockMarket(p)
     /\ job[p].op = "submit"
     /\ IF Accepting(m)
          THEN /\ marketLock' = [marketLock EXCEPT ![m] = p]
               /\ at' = [at EXCEPT ![p] = now]
               /\ owed' = [owed EXCEPT ![p] = Wallets(job[p].user)]
               /\ want' = [want EXCEPT ![p] = FirstWallet(job[p].user)]
               /\ pc' = [pc EXCEPT ![p] = "wallets"]
               /\ UNCHANGED <<now, tables, userLock, job, copy, read, list, snapshot,
                              missed>>
          ELSE Rollback(p)

LockForResolve(p) ==
  LET m == job[p].market
  IN /\ LockMarket(p)
     /\ job[p].op = "resolve"
     /\ IF status[m] \in {"Locked", "Awaiting Resolution"} /\ job[p].choice \in Options
          THEN /\ marketLock' = [marketLock EXCEPT ![m] = p]
               /\ copy' = [copy EXCEPT ![p] = volume[m]]
               /\ pc' = [pc EXCEPT ![p] = "load"]
               /\ UNCHANGED <<now, tables, userLock, job, at, owed, want, read, list, snapshot,
                              missed>>
          ELSE Rollback(p)

(* The users rows p goes on to, and the first of them: in ascending order. *)
LockNext(p, rest, then) ==
  /\ owed' = [owed EXCEPT ![p] = rest]
  /\ want' = [want EXCEPT ![p] = IF rest = {} THEN 0 ELSE Lowest(rest)]
  /\ pc' = [pc EXCEPT ![p] = IF rest = {} THEN then ELSE "wallets"]

(* ResolveMarket loads the predictions; its loop grades them in memory of  *)
(* the transaction and stops at each winner's wallet.                      *)
LoadPredictions(p) ==
  LET m == job[p].market
  IN /\ pc[p] = "load"
     /\ list' = [list EXCEPT ![p] = Bettors(m)]
     /\ LockNext(p, {u \in Bettors(m) : bets[u][m].choice = job[p].choice}, "stats")
     /\ UNCHANGED <<now, tables, locks, job, copy, at, read, snapshot, missed>>

(* The users row p waits for is granted, and its points are read. *)
LockUser(p) ==
  /\ want[p] # 0
  /\ Free(userLock[want[p]], p)
  /\ userLock' = [userLock EXCEPT ![want[p]] = p]
  /\ read' = [read EXCEPT ![p][want[p]] = points[want[p]]]
  /\ UNCHANGED <<now, tables, marketLock, job, copy, at, list, snapshot, missed>>

LockWallet(p) ==
  /\ pc[p] = "wallets"
  /\ LockUser(p)
  /\ LockNext(p, owed[p] \ {want[p]}, IF job[p].op = "submit" THEN "check" ELSE "stats")

(* The checks of SubmitPrediction under the locks: its own, those of the   *)
(* debit and of the unique index.                                          *)
CheckSubmission(p) ==
  LET u == job[p].user
      m == job[p].market
  IN /\ pc[p] = "check"
     /\ IF /\ ~CategoryTaken(u, m, at[p])
           /\ job[p].choice \in Options
           /\ Affordable(u)
           /\ bets[u][m] = NoBet
          THEN /\ pc' = [pc EXCEPT ![p] = "commit"]
               /\ UNCHANGED <<now, tables, locks, job, copy, at, owed, want, read, list, snapshot,
                              missed>>
          ELSE Rollback(p)

CommitSubmission(p) ==
  LET u == job[p].user
      m == job[p].market
  IN /\ pc[p] = "commit"
     /\ job[p].op = "submit"
     /\ bets' = [bets EXCEPT ![u][m] = [choice |-> job[p].choice, grade |-> "open"]]
     /\ placed' = [placed EXCEPT ![u][m] = at[p]]
     /\ points' = [points EXCEPT ![u] = read[p][u] - Stake]
     /\ stakes' = [stakes EXCEPT ![u][m] = @ + 1]
     /\ volume' = [volume EXCEPT ![m] = @ + 1]
     /\ End(p)
     /\ UNCHANGED <<now, status, correct, wins, stats, missed, outdated>>

(* The UPDATE of win_rate starts: its subqueries read the database as it   *)
(* is now, and it locks its users rows in an order of its own.             *)
BeginStats(p) ==
  /\ pc[p] = "stats"
  /\ snapshot' = [snapshot EXCEPT ![p] = [u \in Users |-> StatsSeen(p, u)]]
  /\ missed' = [missed EXCEPT ![p] = {}]
  /\ owed' = [owed EXCEPT ![p] = list[p]]
  /\ IF list[p] = {}
       THEN pc' = [pc EXCEPT ![p] = "commit"] /\ UNCHANGED want
       ELSE /\ pc' = [pc EXCEPT ![p] = "rows"]
            /\ \E u \in list[p] : want' = [want EXCEPT ![p] = u]
  /\ UNCHANGED <<now, tables, locks, job, copy, at, read, list>>

LockRow(p) ==
  LET rest == owed[p] \ {want[p]}
  IN /\ pc[p] = "rows"
     /\ want[p] # 0
     /\ Free(userLock[want[p]], p)
     /\ userLock' = [userLock EXCEPT ![want[p]] = p]
     /\ owed' = [owed EXCEPT ![p] = rest]
     /\ IF rest = {}
          THEN /\ want' = [want EXCEPT ![p] = 0]
               /\ pc' = [pc EXCEPT ![p] = "commit"]
          ELSE /\ \E u \in rest : want' = [want EXCEPT ![p] = u]
               /\ UNCHANGED pc
     /\ UNCHANGED <<now, tables, marketLock, job, copy, at, read, list, snapshot, missed>>

(* tx.Save(&market) writes back every column p read. *)
CommitResolution(p) ==
  LET m == job[p].market
  IN /\ pc[p] = "commit"
     /\ job[p].op = "resolve"
     /\ bets' = [u \in Users |-> IF u \in list[p] THEN SeenBy(p, u) ELSE bets[u]]
     /\ wins' = [u \in Users |-> IF u \in Winners(p)
                                   THEN [wins[u] EXCEPT ![m] = @ + 1] ELSE wins[u]]
     /\ points' = [u \in Users |-> IF u \in Winners(p)
                                     THEN read[p][u] + Payout[m] ELSE points[u]]
     /\ stats' = [u \in Users |-> IF u \in list[p] THEN snapshot[p][u] ELSE stats[u]]
     /\ status' = [status EXCEPT ![m] = "Resolved"]
     /\ correct' = [correct EXCEPT ![m] = job[p].choice]
     /\ volume' = [volume EXCEPT ![m] = copy[p]]
     /\ missed' = [q \in Procs |-> IF q # p /\ Storing(q) THEN missed[q] \cup list[p] ELSE {}]
     /\ outdated' = (outdated \ list[p]) \cup (list[p] \cap missed[p])
     /\ End(p)
     /\ UNCHANGED <<now, placed, stakes>>

-----------------------------------------------------------------------------
(* PostgreSQL: who waits for whom, and the deadlock detector. *)

(* The transaction p waits for.  A row lock has one holder, so p waits for *)
(* one transaction at most.                                                *)
Holder(p) ==
  IF pc[p] \in {"market", "update"} THEN marketLock[job[p].market]
  ELSE IF want[p] # 0 THEN userLock[want[p]]
  ELSE NoProc

Deadlocked(S) == S # {} /\ {Holder(p) : p \in S} = S

(* A transaction of a deadlock is aborted. *)
Abort(p) ==
  /\ \E S \in SUBSET Procs : p \in S /\ Deadlocked(S)
  /\ Rollback(p)

(* A statement fails or the connection is lost: PostgreSQL rolls back. *)
Fail(p) == pc[p] # "idle" /\ Rollback(p)

Tick ==
  /\ now < MaxTime
  /\ now' = now + 1
  /\ UNCHANGED <<tables, locks, pc, job, memory>>

Step(p) ==
  \/ LockForSubmit(p) \/ LockForResolve(p) \/ LoadPredictions(p) \/ LockWallet(p)
  \/ CheckSubmission(p) \/ CommitSubmission(p)
  \/ BeginStats(p) \/ LockRow(p) \/ CommitResolution(p)
  \/ UpdateStatus(p)

Submit(p) ==
  \E u \in Users, m \in Markets, choice \in Answers : SubmitPrediction(p, u, m, choice)

Resolve(p) == \E m \in Markets, choice \in Answers : ResolveMarket(p, m, choice)

Administer(p) ==
  \E m \in Markets :
    \/ \E to \in Statuses : TransitionMarketState(p, m, to)
    \/ ApproveMarket(p, m)
    \/ DeleteMarket(p, m)

Scan(p) == \E m \in Markets : ScanMarket(p, m)

Next ==
  \/ Tick
  \/ \E m \in Markets, s \in {"Draft", "Scheduled", "Live", "Proposed"} : CreateMarket(m, s)
  \/ \E p \in Clients : Submit(p)
  \/ \E p \in Resolvers : Resolve(p)
  \/ \E p \in Admins : Administer(p)
  \/ \E p \in Jobs : Scan(p)
  \/ \E p \in Procs : Step(p) \/ Abort(p) \/ Fail(p)

Spec == Init /\ [][Next]_vars

StepOn(p, m) == pc[p] # "idle" /\ job[p].market = m /\ Step(p)

(* Row locks are granted in order of arrival (strong fairness), a deadlock *)
(* is found and broken.  Each run of the minute job visits every market    *)
(* that is due, whatever happened to the others, and no update fails       *)
(* forever.                                                                *)
Fairness ==
  /\ \A p \in Procs : SF_vars(Step(p)) /\ WF_vars(Abort(p))
  /\ \A p \in Jobs, m \in Markets : SF_vars(ScanMarket(p, m)) /\ SF_vars(StepOn(p, m))

FairSpec == Spec /\ Fairness

-----------------------------------------------------------------------------
(* Correctness *)

(* Every prediction was paid for once, and paid out once if it won: two    *)
(* admins resolving at the same time pay nobody twice.                     *)
StakesAndWinsOnce ==
  \A u \in Users, m \in Markets :
    /\ stakes[u][m] = IF bets[u][m] = NoBet THEN 0 ELSE 1
    /\ wins[u][m] = IF bets[u][m].grade = "won" THEN 1 ELSE 0

(* markets.volume counts the predictions: the market that ResolveMarket    *)
(* saves whole must not bring back an older count.                         *)
VolumeCountsBets == \A m \in Markets : volume[m] = Cardinality(Bettors(m))

(* SubmitPrediction keeps the daily limit for requests that race on        *)
(* different markets of a category, and for one that waits past midnight.  *)
OneBetPerCategoryADay ==
  \A u \in Users : \A m, k \in Markets :
    /\ m # k /\ Category[m] = Category[k]
    /\ bets[u][m] # NoBet /\ bets[u][k] # NoBet
    => placed[u][m] \div Day # placed[u][k] \div Day

(* The ascending order of LockReferralWalletsTx and of the payouts works:  *)
(* no deadlock without a resolver in its UPDATE of the statistics.         *)
DeadlocksNeedStats ==
  \A S \in SUBSET Procs : Deadlocked(S) => \E p \in S : pc[p] = "rows"

(* ResolveMarket recalculates win_rate for everyone in the market.  Its    *)
(* UPDATE computes the figures first and waits for the rows after, so a    *)
(* resolution that commits meanwhile is missing from those of the players  *)
(* they share: until their next resolution, these are outdated.  Everyone  *)
(* else's figures are those of the predictions, at every moment.           *)
StatsMatchBets == \A u \in Users \ outdated : stats[u] = Figures(bets[u])

(* Markets keep what Betting promises: bets, results and payouts in one    *)
(* step each, states in their order, no result taken back.                 *)
Promise == INSTANCE Betting WITH balance <- points

BettingSpec == Promise!BettingSpec

(* Every transaction ends, deadlocks included. *)
TransactionsEnd == \A p \in Procs : pc[p] # "idle" ~> pc[p] = "idle"

(* Markets past their lock time leave Open and Live, however busy they are. *)
MarketsLock ==
  \A m \in Markets :
    (status[m] \in {"Open", "Live"} /\ LockTime[m] <= now) ~> status[m] \notin {"Open", "Live"}
=============================================================================
