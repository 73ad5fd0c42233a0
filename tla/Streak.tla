------------------------------- MODULE Streak -------------------------------
(***************************************************************************)
(* The daily check-in: DailyLogin (controllers/streak_controller.go).      *)
(*                                                                         *)
(* A request reads the day, opens a transaction, waits for the wallet lock *)
(* and reads the streak row under it; the row and the coins are written    *)
(* when it commits.  The wallet itself is Wallet's business: here a check- *)
(* in is one reward on record, daily coins and bonus together.             *)
(***************************************************************************)
EXTENDS Integers, Sequences

CONSTANTS
  Users,
  Requests,       \* requests under way at once
  NoProc,
  BaseCoins,      \* DailyLoginBaseCoins
  Milestones,     \* the streaks StreakRewardTable rewards
  Bonus,          \* Bonus[n]: the coins of milestone n
  Day,            \* length of a UTC day
  MaxTime         \* bound: the clock stops there

ASSUME ConstantsAssumption ==
  /\ NoProc \notin Requests
  /\ BaseCoins \in Nat \ {0}
  /\ Milestones \subseteq Nat \ {0}
  /\ Bonus \in [Milestones -> Nat \ {0}]
  /\ Day \in Nat \ {0}
  /\ MaxTime \in Nat

VARIABLES
  now,
  streak,     \* streak[u]: the user_streaks row, NoStreak before the first check-in
  rewards,    \* rewards[u]: the check-ins paid, oldest first
  userLock,   \* userLock[u]: the request holding the users row
  pc,
  user,       \* user[p]: who request p checks in
  today,      \* today[p]: the day request p read
  row         \* row[p]: the streak row it read

vars == <<now, streak, rewards, userLock, pc, user, today, row>>

NoStreak == [last |-> -2, current |-> 0, longest |-> 0, logins |-> 0]

Streaks == [last: Nat, current: Nat, longest: Nat, logins: Nat] \cup {NoStreak}

(* A reward keeps the day it was given for and the day it was given on. *)
Reward == [day: Nat, on: Nat, coins: Nat]

TypeOK ==
  /\ now \in 0..MaxTime
  /\ streak \in [Users -> Streaks]
  /\ rewards \in [Users -> Seq(Reward)]
  /\ userLock \in [Users -> Requests \cup {NoProc}]
  /\ pc \in [Requests -> {"idle", "lock", "award"}]
  /\ user \in [Requests -> Users]
  /\ today \in [Requests -> Nat]
  /\ row \in [Requests -> Streaks]

-----------------------------------------------------------------------------
(* Helpers.  As in Wallet, a second form beside a definition is the slip   *)
(* the properties are tested against.                                      *)

Today == now \div Day

(* The wallet lock is granted. *)
LockIgnored(u) == TRUE
LockFree(u) == userLock[u] = NoProc

(* Already checked in. *)
CheckedInLater(r, day) == r.last > day
CheckedIn(r, day) == r.last = day

(* The streak goes on after a check-in yesterday, and starts again else. *)
GraceDay(r, day) == IF r.last \in {day - 1, day - 2} THEN r.current + 1 ELSE 1
NextStreak(r, day) == IF r.last = day - 1 THEN r.current + 1 ELSE 1

BonusFor(n) == IF n \in Milestones THEN Bonus[n] ELSE 0

CheckIn(r, day) ==
  LET n == NextStreak(r, day)
  IN [last |-> day, current |-> n, logins |-> r.logins + 1,
      longest |-> IF n > r.longest THEN n ELSE r.longest]

-----------------------------------------------------------------------------
Init ==
  /\ now = 0
  /\ streak = [u \in Users |-> NoStreak]
  /\ rewards = [u \in Users |-> <<>>]
  /\ userLock = [u \in Users |-> NoProc]
  /\ pc = [p \in Requests |-> "idle"]
  /\ user \in [Requests -> Users]
  /\ today = [p \in Requests |-> 0]
  /\ row = [p \in Requests |-> NoStreak]

(* The day is read before anything else. *)
DailyLogin(p, u) ==
  /\ pc[p] = "idle"
  /\ user' = [user EXCEPT ![p] = u]
  /\ today' = [today EXCEPT ![p] = Today]
  /\ pc' = [pc EXCEPT ![p] = "lock"]
  /\ UNCHANGED <<now, streak, rewards, userLock, row>>

(* LockWalletTx, then the row: a user already checked in is done. *)
LockWallet(p) ==
  LET u == user[p]
  IN /\ pc[p] = "lock"
     /\ LockFree(u)
     /\ IF CheckedIn(streak[u], today[p])
          THEN pc' = [pc EXCEPT ![p] = "idle"] /\ UNCHANGED <<userLock, row>>
          ELSE /\ userLock' = [userLock EXCEPT ![u] = p]
               /\ row' = [row EXCEPT ![p] = streak[u]]
               /\ pc' = [pc EXCEPT ![p] = "award"]
     /\ UNCHANGED <<now, streak, rewards, user, today>>

Release(p) ==
  /\ pc' = [pc EXCEPT ![p] = "idle"]
  /\ userLock' = [userLock EXCEPT ![user[p]] = IF @ = p THEN NoProc ELSE @]
  /\ row' = [row EXCEPT ![p] = NoStreak]

(* The streak row is saved whole, the coins credited, the work committed. *)
Award(p) ==
  LET u == user[p]
      r == CheckIn(row[p], today[p])
  IN /\ pc[p] = "award"
     /\ streak' = [streak EXCEPT ![u] = r]
     /\ rewards' = [rewards EXCEPT ![u] =
          Append(@, [day |-> today[p], on |-> Today,
                     coins |-> BaseCoins + BonusFor(r.current)])]
     /\ Release(p)
     /\ UNCHANGED <<now, user, today>>

(* A statement fails or the request dies. *)
Fail(p) ==
  /\ pc[p] # "idle"
  /\ Release(p)
  /\ UNCHANGED <<now, streak, rewards, user, today>>

Tick ==
  /\ now < MaxTime
  /\ now' = now + 1
  /\ UNCHANGED <<streak, rewards, userLock, pc, user, today, row>>

Next ==
  \/ Tick
  \/ \E p \in Requests :
       (\E u \in Users : DailyLogin(p, u)) \/ LockWallet(p) \/ Award(p) \/ Fail(p)

Spec == Init /\ [][Next]_vars

-----------------------------------------------------------------------------
(* The inductive invariant *)

(* What a request is about to save was computed from the row as it is. *)
RowCurrent ==
  \A p \in Requests : pc[p] = "award" =>
    /\ userLock[user[p]] = p
    /\ row[p] = streak[user[p]]
    /\ row[p].last # today[p]

(* The last check-in is the one on the row; rewards are dated in order. *)
RewardsDated ==
  \A u \in Users :
    /\ streak[u].last = IF rewards[u] = <<>> THEN NoStreak.last
                                              ELSE rewards[u][Len(rewards[u])].day
    /\ \A i \in DOMAIN rewards[u] :
         /\ rewards[u][i].day <= rewards[u][i].on
         /\ rewards[u][i].on <= Today
         /\ \A k \in DOMAIN rewards[u] : i <= k => rewards[u][i].on <= rewards[u][k].on

DaysRead == \A p \in Requests : today[p] <= Today

(* The days of the rewards given in time grow. *)
DaysGrow ==
  \A u \in Users :
    (\A i \in DOMAIN rewards[u] : rewards[u][i].on = rewards[u][i].day)
      => \A i, k \in DOMAIN rewards[u] : i < k => rewards[u][i].day < rewards[u][k].day

(* The row read under the lock stays the row of the database, which is     *)
(* what the same-day check of DailyLogin is worth.                         *)
StreakInv == TypeOK /\ RowCurrent /\ RewardsDated /\ DaysRead /\ DaysGrow

-----------------------------------------------------------------------------
(* Correctness *)

(* The comment of DailyLogin and the API documentation: check-ins are      *)
(* idempotent within a UTC day.  The wallet lock ensures it, however many  *)
(* requests race, as long as none has waited past midnight.                *)
OneRewardADayUnlessLate ==
  \A u \in Users :
    (\A i \in DOMAIN rewards[u] : rewards[u][i].on = rewards[u][i].day)
      => \A i, k \in DOMAIN rewards[u] :
           rewards[u][i].day = rewards[u][k].day => i = k

(* The check-ins before the i-th on an unbroken row of days that ends with *)
(* it, that one included.                                                  *)
Run(u, i) ==
  CHOOSE n \in 1..i :
    /\ \A k \in (i - n + 1)..(i - 1) : rewards[u][k + 1].day = rewards[u][k].day + 1
    /\ n = i \/ rewards[u][i - n + 1].day # rewards[u][i - n].day + 1

(* The streak row is the history of rewards: the current streak is the run *)
(* of days up to the last one, the longest its best, every check-in counts *)
(* one login.  A row saved from a stale copy would disagree.               *)
StreakTellsHistory ==
  \A u \in Users :
    LET n == Len(rewards[u])
    IN n > 0 =>
         /\ streak[u].last = rewards[u][n].day
         /\ streak[u].logins = n
         /\ streak[u].current = Run(u, n)
         /\ \A i \in 1..n : Run(u, i) <= streak[u].longest
         /\ \E i \in 1..n : Run(u, i) = streak[u].longest

(* A milestone bonus is paid with the check-in that completes the run, and *)
(* with no other.                                                          *)
BonusesEarned ==
  \A u \in Users : \A i \in DOMAIN rewards[u] :
    rewards[u][i].coins = BaseCoins + BonusFor(Run(u, i))
=============================================================================
