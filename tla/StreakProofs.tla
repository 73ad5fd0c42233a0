---------------------------- MODULE StreakProofs ----------------------------
(***************************************************************************)
(* Theorems about the daily check-in, for any users, any number of racing  *)
(* requests and any reward table.                                          *)
(***************************************************************************)
EXTENDS Streak, SequenceTheorems, WellFoundedInduction, TLAPS

(* Days are numbered, and time does not go back to an earlier one. *)
LEMMA DayGrows ==
  ASSUME NEW t \in Nat, NEW d \in Nat \ {0}
  PROVE  /\ t \div d \in Nat
         /\ (t + 1) \div d \in Nat
         /\ t \div d <= (t + 1) \div d
OBVIOUS

(* The day it is. *)
LEMMA TodayType == TypeOK => now \in Nat /\ Today \in Nat
<1> SUFFICES ASSUME TypeOK PROVE now \in Nat /\ Today \in Nat
  OBVIOUS
<1>1. now \in Nat /\ Day \in Nat \ {0}
  BY ConstantsAssumption DEF TypeOK
<1> QED BY <1>1, DayGrows DEF Today

(* A check-in makes a streak row out of a streak row. *)
LEMMA CheckInType ==
  ASSUME NEW r \in Streaks, NEW day \in Nat
  PROVE  /\ CheckIn(r, day) \in Streaks
         /\ CheckIn(r, day).last = day
         /\ CheckIn(r, day).current \in Nat
<1>1. r.current \in Nat /\ r.longest \in Nat /\ r.logins \in Nat
  BY DEF Streaks, NoStreak
<1>2. NextStreak(r, day) \in Nat
  BY <1>1 DEF NextStreak
<1> QED BY <1>1, <1>2 DEF CheckIn, Streaks

(* The coins of a check-in are a number. *)
LEMMA BonusType == ASSUME NEW n \in Nat PROVE BaseCoins + BonusFor(n) \in Nat
BY ConstantsAssumption DEF BonusFor

(* The reward an award puts on record. *)
Given(p) ==
  [day |-> today[p], on |-> Today,
   coins |-> BaseCoins + BonusFor(CheckIn(row[p], today[p]).current)]

(* The award in one place: one row written, one reward appended, both      *)
(* those of the request's user.                                            *)
LEMMA AwardFacts ==
  ASSUME StreakInv, NEW p \in Requests, Award(p)
  PROVE  LET u == user[p]
             n == Len(rewards[u])
         IN /\ pc[p] = "award"
            /\ u \in Users
            /\ Given(p) \in Reward
            /\ streak'[u] = CheckIn(row[p], today[p])
            /\ streak'[u].last = today[p]
            /\ rewards'[u] = Append(rewards[u], Given(p))
            /\ n \in Nat /\ Len(rewards'[u]) = n + 1
            /\ DOMAIN rewards[u] = 1..n
            /\ DOMAIN rewards'[u] = 1..(n + 1)
            /\ \A i \in 1..n : rewards'[u][i] = rewards[u][i]
            /\ rewards'[u][n + 1] = Given(p)
            /\ \A v \in Users \ {u} : streak'[v] = streak[v] /\ rewards'[v] = rewards[v]
            /\ now' = now
<1> DEFINE u == user[p]
<1>1. TypeOK
  BY DEF StreakInv
<1>2. u \in Users /\ row[p] \in Streaks /\ today[p] \in Nat /\ rewards[u] \in Seq(Reward)
  BY <1>1 DEF TypeOK
<1>3. Today \in Nat
  BY <1>1, TodayType
<1>4. Given(p) \in Reward
  BY <1>2, <1>3, CheckInType, BonusType DEF Given, Reward
<1>5. streak' = [streak EXCEPT ![u] = CheckIn(row[p], today[p])]
  BY DEF Award
<1>6. rewards' = [rewards EXCEPT ![u] = Append(rewards[u], Given(p))]
  BY DEF Award, Given
<1>7. streak'[u] = CheckIn(row[p], today[p]) /\ streak'[u].last = today[p]
  BY <1>1, <1>2, <1>5, CheckInType DEF TypeOK
<1>8. rewards'[u] = Append(rewards[u], Given(p))
  BY <1>1, <1>2, <1>6 DEF TypeOK
<1>9. \A v \in Users \ {u} : streak'[v] = streak[v] /\ rewards'[v] = rewards[v]
  BY <1>1, <1>2, <1>5, <1>6 DEF TypeOK
<1>10. /\ Len(rewards[u]) \in Nat
       /\ Len(rewards'[u]) = Len(rewards[u]) + 1
       /\ DOMAIN rewards[u] = 1..Len(rewards[u])
       /\ DOMAIN rewards'[u] = 1..(Len(rewards[u]) + 1)
       /\ \A i \in 1..Len(rewards[u]) : rewards'[u][i] = rewards[u][i]
       /\ rewards'[u][Len(rewards[u]) + 1] = Given(p)
  BY <1>2, <1>4, <1>8
<1>11. pc[p] = "award" /\ now' = now
  BY DEF Award
<1> QED BY <1>2, <1>4, <1>7, <1>8, <1>9, <1>10, <1>11

-----------------------------------------------------------------------------
(* The initial state satisfies the inductive invariant. *)
LEMMA StreakInvInit == Init => StreakInv
<1> SUFFICES ASSUME Init PROVE StreakInv
  OBVIOUS
<1>1. TypeOK
  BY ConstantsAssumption DEF Init, TypeOK, Streaks
<1>2. RowCurrent
  BY DEF Init, RowCurrent
<1>3. RewardsDated /\ DaysGrow
  BY DEF Init, RewardsDated, DaysGrow
<1>4. DaysRead
  BY <1>1, TodayType DEF Init, DaysRead
<1> QED BY <1>1, <1>2, <1>3, <1>4 DEF StreakInv

(* Time passes: the conjuncts that speak of today only get weaker. *)
LEMMA TickStep ==
  ASSUME StreakInv, Tick
  PROVE  StreakInv'
<1>1. TypeOK /\ TypeOK'
  BY ConstantsAssumption DEF StreakInv, TypeOK, Tick
<1>2. Today \in Nat /\ Today' \in Nat /\ Today <= Today'
  <2>1. now \in Nat /\ Day \in Nat \ {0} /\ now' = now + 1
    BY <1>1, TodayType, ConstantsAssumption DEF Tick
  <2> QED BY <2>1, DayGrows DEF Today
<1>3. RowCurrent' /\ DaysGrow'
  BY DEF Tick, StreakInv, RowCurrent, DaysGrow
<1>4. DaysRead'
  <2>1. today' = today /\ \A p \in Requests : today[p] \in Nat /\ today[p] <= Today
    BY <1>1 DEF Tick, StreakInv, TypeOK, DaysRead
  <2> QED BY <1>2, <2>1 DEF DaysRead
<1>5. RewardsDated'
  <2> SUFFICES ASSUME NEW u \in Users, NEW i \in DOMAIN rewards[u]
      PROVE  rewards[u][i].on <= Today'
    BY DEF Tick, StreakInv, RewardsDated
  <2>1. rewards[u][i] \in Reward
    BY <1>1 DEF TypeOK
  <2>2. rewards[u][i].on \in Nat
    BY <2>1 DEF Reward
  <2>3. rewards[u][i].on <= Today
    BY DEF StreakInv, RewardsDated
  <2> QED BY <1>2, <2>2, <2>3
<1> QED BY <1>1, <1>3, <1>4, <1>5 DEF StreakInv

(* A request that starts, waits, fails or finds it has checked in already  *)
(* leaves rows and rewards alone, and the copies of the others valid.      *)
Quiet(p) == (\E u \in Users : DailyLogin(p, u)) \/ LockWallet(p) \/ Fail(p)

LEMMA QuietStep ==
  ASSUME StreakInv, NEW p \in Requests, Quiet(p)
  PROVE  StreakInv'
<1>0. TypeOK /\ Today \in Nat
  BY TodayType DEF StreakInv
<1>1. TypeOK'
  <2>1. CASE \E u \in Users : DailyLogin(p, u)
    BY <1>0, <2>1 DEF TypeOK, DailyLogin
  <2>2. CASE LockWallet(p)
    <3>1. /\ user[p] \in Users /\ streak[user[p]] \in Streaks
          /\ UNCHANGED <<now, streak, rewards, user, today>>
      BY <1>0, <2>2 DEF TypeOK, LockWallet
    <3>2. /\ pc' \in [Requests -> {"idle", "lock", "award"}]
          /\ userLock' \in [Users -> Requests \cup {NoProc}]
          /\ row' \in [Requests -> Streaks]
      <4>1. CASE CheckedIn(streak[user[p]], today[p])
        BY <1>0, <2>2, <4>1 DEF TypeOK, LockWallet
      <4>2. CASE ~CheckedIn(streak[user[p]], today[p])
        <5>1. row' = [row EXCEPT ![p] = streak[user[p]]]
          BY <2>2, <4>2 DEF LockWallet
        <5>2. row' \in [Requests -> Streaks]
          BY <1>0, <3>1, <5>1 DEF TypeOK
        <5>3. /\ pc' = [pc EXCEPT ![p] = "award"]
              /\ userLock' = [userLock EXCEPT ![user[p]] = p]
          BY <2>2, <4>2 DEF LockWallet
        <5> QED BY <1>0, <5>2, <5>3 DEF TypeOK
      <4> QED BY <4>1, <4>2
    <3> QED BY <1>0, <3>1, <3>2 DEF TypeOK
  <2>3. CASE Fail(p)
    BY <1>0, <2>3 DEF TypeOK, Fail, Release, Streaks
  <2> QED BY <2>1, <2>2, <2>3 DEF Quiet
<1>2. now' = now /\ streak' = streak /\ rewards' = rewards
  BY DEF Quiet, DailyLogin, LockWallet, Fail
<1>3. Today' = Today
  BY <1>2 DEF Today
<1>4. RewardsDated' /\ DaysGrow'
  BY <1>2, <1>3 DEF StreakInv, RewardsDated, DaysGrow
<1>5. DaysRead'
  <2> SUFFICES ASSUME NEW q \in Requests PROVE today'[q] <= Today
    BY <1>3 DEF DaysRead
  <2>1. today[q] <= Today /\ today[q] \in Nat
    BY <1>0 DEF StreakInv, DaysRead, TypeOK
  <2>2. today'[q] \in {today[q], Today}
    BY <1>0 DEF Quiet, DailyLogin, LockWallet, Fail, TypeOK
  <2> QED BY <1>0, <2>1, <2>2
<1>6. RowCurrent'
  <2> SUFFICES ASSUME NEW q \in Requests, pc'[q] = "award"
      PROVE  /\ userLock'[user'[q]] = q
             /\ row'[q] = streak[user'[q]]
             /\ row'[q].last # today'[q]
    BY <1>2 DEF RowCurrent
  <2>1. CASE \E u \in Users : DailyLogin(p, u)
    BY <1>0, <2>1 DEF DailyLogin, StreakInv, RowCurrent, TypeOK
  <2>2. CASE LockWallet(p)
    BY <1>0, <2>2, ConstantsAssumption
       DEF LockWallet, LockFree, CheckedIn, StreakInv, RowCurrent, TypeOK
  <2>3. CASE Fail(p)
    BY <1>0, <2>3 DEF Fail, Release, StreakInv, RowCurrent, TypeOK
  <2> QED BY <2>1, <2>2, <2>3 DEF Quiet
<1> QED BY <1>1, <1>4, <1>5, <1>6 DEF StreakInv

(* The heart of the matter: an award.  The lock kept the row as it was     *)
(* read, so the check made then still holds: this day is not the last one. *)
LEMMA AwardStep ==
  ASSUME StreakInv, NEW p \in Requests, Award(p)
  PROVE  StreakInv'
<1> DEFINE u == user[p]
           n == Len(rewards[u])
<1>0. TypeOK /\ Today \in Nat
  BY TodayType DEF StreakInv
<1>a. /\ pc[p] = "award" /\ u \in Users /\ now' = now
      /\ Given(p) \in Reward /\ streak'[u] = CheckIn(row[p], today[p])
      /\ streak'[u].last = today[p]
      /\ \A v \in Users \ {u} : streak'[v] = streak[v] /\ rewards'[v] = rewards[v]
  BY AwardFacts
<1>b. /\ n \in Nat /\ Len(rewards'[u]) = n + 1
      /\ DOMAIN rewards[u] = 1..n /\ DOMAIN rewards'[u] = 1..(n + 1)
      /\ \A i \in 1..n : rewards'[u][i] = rewards[u][i]
      /\ rewards'[u][n + 1] = Given(p)
  BY AwardFacts
<1>c. Given(p).day = today[p] /\ Given(p).on = Today
  BY DEF Given
<1>d. userLock[u] = p /\ row[p] = streak[u] /\ row[p].last # today[p]
  BY <1>a DEF StreakInv, RowCurrent
<1>e. today[p] \in Nat /\ today[p] <= Today
  BY <1>0 DEF StreakInv, DaysRead, TypeOK
<1>f. \A v \in Users : \A i \in DOMAIN rewards[v] :
        rewards[v][i].on \in Nat /\ rewards[v][i].day \in Nat
  <2> SUFFICES ASSUME NEW v \in Users, NEW i \in DOMAIN rewards[v]
      PROVE  rewards[v][i].on \in Nat /\ rewards[v][i].day \in Nat
    OBVIOUS
  <2>1. rewards[v][i] \in Reward
    BY <1>0 DEF TypeOK
  <2> QED BY <2>1 DEF Reward
<1>g. Today' = Today
  BY <1>a DEF Today
<1>1. TypeOK'
  <2>1. row[p] \in Streaks /\ rewards[u] \in Seq(Reward)
    BY <1>0, <1>a DEF TypeOK
  <2>2. CheckIn(row[p], today[p]) \in Streaks
    BY <2>1, <1>e, CheckInType
  <2>3. streak' = [streak EXCEPT ![u] = CheckIn(row[p], today[p])]
    BY DEF Award
  <2>4. rewards' = [rewards EXCEPT ![u] = Append(rewards[u], Given(p))]
    BY DEF Award, Given
  <2>5. Append(rewards[u], Given(p)) \in Seq(Reward)
    BY <2>1, <1>a
  <2>6. streak' \in [Users -> Streaks] /\ rewards' \in [Users -> Seq(Reward)]
    BY <1>0, <2>2, <2>3, <2>4, <2>5 DEF TypeOK
  <2>7. /\ now' = now /\ user' = user /\ today' = today
        /\ userLock' \in [Users -> Requests \cup {NoProc}]
        /\ pc' \in [Requests -> {"idle", "lock", "award"}]
        /\ row' \in [Requests -> Streaks]
    BY <1>0 DEF Award, Release, TypeOK, Streaks
  <2> QED BY <1>0, <2>6, <2>7 DEF TypeOK
<1>2. RowCurrent'
  <2> SUFFICES ASSUME NEW q \in Requests, pc'[q] = "award"
      PROVE  /\ userLock'[user'[q]] = q
             /\ row'[q] = streak'[user'[q]]
             /\ row'[q].last # today'[q]
    BY DEF RowCurrent
  <2>1. /\ q # p /\ pc[q] = "award" /\ user'[q] = user[q] /\ row'[q] = row[q]
        /\ today'[q] = today[q]
    BY <1>0 DEF Award, Release, TypeOK
  <2>2. userLock[user[q]] = q /\ row[q] = streak[user[q]] /\ row[q].last # today[q]
    BY <2>1 DEF StreakInv, RowCurrent
  <2>3. user[q] \in Users /\ user[q] # u
    BY <1>0, <1>d, <2>1, <2>2 DEF TypeOK
  <2>4. userLock'[user[q]] = userLock[user[q]]
    BY <1>0, <2>3 DEF Award, Release, TypeOK
  <2> QED BY <1>a, <2>1, <2>2, <2>3, <2>4
<1>3. RewardsDated'
  <2> SUFFICES ASSUME NEW v \in Users
      PROVE  /\ streak'[v].last = IF rewards'[v] = <<>> THEN NoStreak.last
                                   ELSE rewards'[v][Len(rewards'[v])].day
             /\ \A i \in DOMAIN rewards'[v] :
                  /\ rewards'[v][i].day <= rewards'[v][i].on
                  /\ rewards'[v][i].on <= Today
                  /\ \A k \in DOMAIN rewards'[v] : i <= k => rewards'[v][i].on <= rewards'[v][k].on
    BY <1>g DEF RewardsDated
  <2>0. /\ streak[v].last = IF rewards[v] = <<>> THEN NoStreak.last
                            ELSE rewards[v][Len(rewards[v])].day
        /\ \A i \in DOMAIN rewards[v] :
             /\ rewards[v][i].day <= rewards[v][i].on
             /\ rewards[v][i].on <= Today
             /\ \A k \in DOMAIN rewards[v] : i <= k => rewards[v][i].on <= rewards[v][k].on
    BY DEF StreakInv, RewardsDated
  <2>1. CASE v # u
    BY <1>a, <2>0, <2>1
  <2>2. CASE v = u
    <3>1. rewards'[u] # <<>>
      BY <1>b
    <3>2. streak'[u].last = rewards'[u][Len(rewards'[u])].day
      BY <1>a, <1>b, <1>c
    <3>3. ASSUME NEW i \in 1..(n + 1)
          PROVE  /\ rewards'[u][i].day <= rewards'[u][i].on
                 /\ rewards'[u][i].on <= Today
                 /\ \A k \in 1..(n + 1) : i <= k => rewards'[u][i].on <= rewards'[u][k].on
      <4>1. CASE i = n + 1
        <5>1. ASSUME NEW k \in 1..(n + 1), i <= k PROVE k = i
          BY <1>b, <4>1, <5>1
        <5>2. /\ rewards'[u][i].day = today[p] /\ rewards'[u][i].on = Today
          BY <1>b, <1>c, <4>1
        <5>3. \A k \in 1..(n + 1) : i <= k => rewards'[u][i].on <= rewards'[u][k].on
          BY <1>0, <5>1, <5>2
        <5> QED BY <1>0, <1>e, <5>2, <5>3
      <4>2. CASE i \in 1..n
        <5>1. /\ rewards[u][i].day <= rewards[u][i].on /\ rewards[u][i].on <= Today
              /\ \A k \in 1..n : i <= k => rewards[u][i].on <= rewards[u][k].on
          BY <1>b, <2>0, <2>2, <4>2
        <5>2. \A k \in 1..(n + 1) : k = n + 1 \/ k \in 1..n
          BY <1>b
        <5> QED BY <1>b, <1>c, <4>2, <5>1, <5>2
      <4> QED BY <1>b, <4>1, <4>2
    <3> QED BY <1>b, <2>2, <3>1, <3>2, <3>3
  <2> QED BY <2>1, <2>2
<1>4. DaysRead'
  BY <1>0, <1>g DEF Award, StreakInv, DaysRead
<1>5. DaysGrow'
  <2> SUFFICES ASSUME NEW v \in Users,
                      \A i \in DOMAIN rewards'[v] : rewards'[v][i].on = rewards'[v][i].day,
                      NEW i \in DOMAIN rewards'[v], NEW k \in DOMAIN rewards'[v], i < k
      PROVE  rewards'[v][i].day < rewards'[v][k].day
    BY DEF DaysGrow
  <2>0. /\ (\A j \in DOMAIN rewards[v] : rewards[v][j].on = rewards[v][j].day)
             => \A j, l \in DOMAIN rewards[v] : j < l => rewards[v][j].day < rewards[v][l].day
    BY DEF StreakInv, DaysGrow
  <2>1. CASE v # u
    BY <1>a, <2>0, <2>1
  <2>2. CASE v = u
    <3>1. \A j \in 1..n : rewards[u][j].on = rewards[u][j].day
      BY <1>b, <2>2
    <3>2. today[p] = Today
      BY <1>b, <1>c, <2>2
    <3>3. CASE k <= n
      <4>1. i \in 1..n /\ k \in 1..n
        BY <1>b, <2>2, <3>3
      <4>2. rewards[u][i].day < rewards[u][k].day
        BY <1>b, <2>0, <2>2, <3>1, <4>1
      <4> QED BY <1>b, <2>2, <4>1, <4>2
    <3>4. CASE k = n + 1
      <4>1. i \in 1..n /\ n \in 1..n /\ rewards[u] # <<>>
        BY <1>b, <2>2, <3>4
      <4>2. rewards[u][n].day = streak[u].last
        BY <1>a, <4>1 DEF StreakInv, RewardsDated
      <4>3. rewards[u][n].day # today[p]
        BY <1>d, <4>2
      <4>4. rewards[u][i].on <= rewards[u][n].on /\ rewards[u][n].on <= Today
        BY <1>a, <1>b, <4>1 DEF StreakInv, RewardsDated
      <4>5. rewards[u][i].day <= rewards[u][n].day /\ rewards[u][n].day < Today
        BY <1>0, <1>a, <1>b, <1>f, <3>1, <3>2, <4>1, <4>3, <4>4
      <4>6. rewards'[u][i] = rewards[u][i] /\ rewards'[u][k].day = today[p]
        BY <1>b, <1>c, <3>4, <4>1
      <4> QED BY <1>0, <1>a, <1>b, <1>f, <2>2, <3>2, <4>1, <4>5, <4>6
    <3> QED BY <1>b, <2>2, <3>3, <3>4
  <2> QED BY <2>1, <2>2
<1> QED BY <1>1, <1>2, <1>3, <1>4, <1>5 DEF StreakInv

(* Every step keeps the inductive invariant. *)
LEMMA StreakInvStep == StreakInv /\ [Next]_vars => StreakInv'
<1> SUFFICES ASSUME StreakInv, [Next]_vars PROVE StreakInv'
  OBVIOUS
<1>1. CASE UNCHANGED vars
  BY <1>1 DEF vars, StreakInv, TypeOK, RowCurrent, RewardsDated, DaysRead, DaysGrow, Today
<1>2. CASE Tick
  BY <1>2, TickStep
<1>3. ASSUME NEW p \in Requests, Quiet(p) PROVE StreakInv'
  BY <1>3, QuietStep
<1>4. ASSUME NEW p \in Requests, Award(p) PROVE StreakInv'
  BY <1>4, AwardStep
<1> QED BY <1>1, <1>2, <1>3, <1>4 DEF Next, Quiet

-----------------------------------------------------------------------------
(* The row DailyLogin read under the wallet lock is the row of the         *)
(* database until it commits.                                              *)
THEOREM StreakInvHolds == Spec => []StreakInv
BY StreakInvInit, StreakInvStep, PTL DEF Spec

(* No day is rewarded twice to a user whose check-ins were all committed   *)
(* on the day they arrived, however many of them race.                     *)
THEOREM OneRewardHolds == Spec => []OneRewardADayUnlessLate
<1>1. StreakInv => OneRewardADayUnlessLate
  <2> SUFFICES ASSUME StreakInv, NEW u \in Users,
                      \A i \in DOMAIN rewards[u] : rewards[u][i].on = rewards[u][i].day,
                      NEW i \in DOMAIN rewards[u], NEW k \in DOMAIN rewards[u],
                      rewards[u][i].day = rewards[u][k].day
      PROVE  i = k
    BY DEF OneRewardADayUnlessLate
  <2>1. rewards[u] \in Seq(Reward)
    BY DEF StreakInv, TypeOK
  <2>2. i \in Nat /\ k \in Nat /\ rewards[u][i] \in Reward /\ rewards[u][k] \in Reward
    BY <2>1
  <2>3. rewards[u][i].day \in Nat /\ rewards[u][k].day \in Nat
    BY <2>2 DEF Reward
  <2>4. ~(i < k) /\ ~(k < i)
    BY <2>3 DEF StreakInv, DaysGrow
  <2> QED BY <2>2, <2>4
<1> QED BY <1>1, StreakInvHolds, PTL

-----------------------------------------------------------------------------
(* The row and the history *)

(* n check-ins on an unbroken row of days end with the i-th of s. *)
IsRun(s, i, n) ==
  /\ \A k \in (i - n + 1)..(i - 1) : s[k + 1].day = s[k].day + 1
  /\ n = i \/ s[i - n + 1].day # s[i - n].day + 1

RunOf(s, i) == CHOOSE n \in 1..i : IsRun(s, i, n)

(* The number of check-ins up to the last break is such an n, and there is *)
(* only one.                                                               *)
LEMMA RunExists ==
  ASSUME NEW s, NEW i \in Nat \ {0}
  PROVE  \E n \in 1..i : IsRun(s, i, n)
<1> DEFINE B == {n \in 1..i : n = i \/ s[i - n + 1].day # s[i - n].day + 1}
           R == {ss \in Nat \X Nat : ss[1] < ss[2]}
<1>1. IsWellFoundedOn(R, Nat)
  BY NatLessThanWellFounded DEF OpToRel
<1>2. i \in B /\ B \subseteq Nat
  OBVIOUS
<1>3. PICK n \in B : \A m \in B : ~(<<m, n>> \in R)
  <2> HIDE DEF B, R
  <2> QED BY <1>1, <1>2, WFMin
<1>4. \A m \in B : ~(m < n)
  <2> HIDE DEF B
  <2> QED BY <1>2, <1>3
<1>5. ASSUME NEW k \in (i - n + 1)..(i - 1)
      PROVE  s[k + 1].day = s[k].day + 1
  <2>1. i - k \in 1..i /\ i - k < n /\ i - k # i /\ i - (i - k) = k
    BY <1>3, <1>5
  <2>2. i - k \notin B
    BY <1>4, <2>1
  <2> QED BY <2>1, <2>2
<1> QED BY <1>3, <1>5 DEF IsRun

LEMMA RunUnique ==
  ASSUME NEW s, NEW i \in Nat \ {0}, NEW n \in 1..i, IsRun(s, i, n)
  PROVE  RunOf(s, i) = n
<1>1. ASSUME NEW m \in 1..i, IsRun(s, i, m)
      PROVE  m = n
  <2>1. ASSUME NEW a \in 1..i, NEW b \in 1..i, IsRun(s, i, a), IsRun(s, i, b), a < b
        PROVE  FALSE
    <3>1. i - a \in (i - b + 1)..(i - 1) /\ a # i
      BY <2>1
    <3> QED BY <2>1, <3>1 DEF IsRun
  <2> QED BY <1>1, <2>1
<1>2. RunOf(s, i) \in 1..i /\ IsRun(s, i, RunOf(s, i))
  BY DEF RunOf
<1> QED BY <1>1, <1>2

LEMMA RunFacts ==
  ASSUME NEW s, NEW i \in Nat \ {0}
  PROVE  RunOf(s, i) \in 1..i /\ IsRun(s, i, RunOf(s, i))
BY RunExists DEF RunOf

(* What comes after the i-th check-in does not change its run. *)
LEMMA RunOfPrefix ==
  ASSUME NEW s, NEW t, NEW i \in Nat \ {0}, \A k \in 1..i : s[k] = t[k]
  PROVE  RunOf(t, i) = RunOf(s, i)
<1> DEFINE n == RunOf(s, i)
<1>1. n \in 1..i /\ IsRun(s, i, n)
  BY RunFacts
<1> HIDE DEF n
<1>2. IsRun(t, i, n)
  <2>1. \A k \in (i - n + 1)..(i - 1) : k \in 1..i /\ k + 1 \in 1..i
    BY <1>1
  <2>2. n # i => i - n + 1 \in 1..i /\ i - n \in 1..i
    BY <1>1
  <2> QED BY <1>1, <2>1, <2>2 DEF IsRun
<1> QED BY <1>1, <1>2, RunUnique DEF n

(* A check-in on the next day is one more; one on another day begins anew. *)
LEMMA RunOfNext ==
  ASSUME NEW s, NEW i \in Nat \ {0}
  PROVE  RunOf(s, i + 1) = IF s[i + 1].day = s[i].day + 1 THEN RunOf(s, i) + 1 ELSE 1
<1> DEFINE n == RunOf(s, i)
<1>1. n \in 1..i /\ IsRun(s, i, n)
  BY RunFacts
<1> HIDE DEF n
<1>2. CASE s[i + 1].day = s[i].day + 1
  <2>1. n + 1 \in 1..(i + 1)
    BY <1>1
  <2>2. IsRun(s, i + 1, n + 1)
    <3>1. \A k \in (i + 1 - (n + 1) + 1)..(i + 1 - 1) : k = i \/ k \in (i - n + 1)..(i - 1)
      BY <1>1
    <3>2. i + 1 - (n + 1) + 1 = i - n + 1 /\ i + 1 - (n + 1) = i - n
      BY <1>1
    <3> QED BY <1>1, <1>2, <3>1, <3>2 DEF IsRun
  <2>3. RunOf(s, i + 1) = n + 1
    BY <2>1, <2>2, RunUnique
  <2> QED BY <1>2, <2>3 DEF n
<1>3. CASE s[i + 1].day # s[i].day + 1
  <2>1. 1 \in 1..(i + 1) /\ IsRun(s, i + 1, 1)
    BY <1>3 DEF IsRun
  <2>2. RunOf(s, i + 1) = 1
    BY <2>1, RunUnique
  <2> QED BY <1>3, <2>2
<1> QED BY <1>2, <1>3

LEMMA FirstRun == \A s : RunOf(s, 1) = 1
<1> SUFFICES ASSUME NEW s PROVE RunOf(s, 1) = 1
  OBVIOUS
<1>1. RunOf(s, 1) \in 1..1
  BY RunFacts
<1> QED BY <1>1

(* The row r tells the history s. *)
RowTells(r, s) ==
  LET n == Len(s)
  IN /\ n = 0 => r = NoStreak
     /\ n > 0 =>
          /\ r.last = s[n].day
          /\ r.logins = n
          /\ r.current = RunOf(s, n)
          /\ \A i \in 1..n : RunOf(s, i) <= r.longest
          /\ \E i \in 1..n : RunOf(s, i) = r.longest

BonusesOf(s) == \A i \in DOMAIN s : s[i].coins = BaseCoins + BonusFor(RunOf(s, i))

HistoryTold == \A u \in Users : RowTells(streak[u], rewards[u]) /\ BonusesOf(rewards[u])

(* One more check-in, made from a row that tells the history. *)
LEMMA CheckInTells ==
  ASSUME NEW r \in Streaks, NEW s \in Seq(Reward), NEW day \in Nat, NEW on \in Nat,
         RowTells(r, s), BonusesOf(s),
         NEW e \in Reward, e.day = day, e.coins = BaseCoins + BonusFor(CheckIn(r, day).current)
  PROVE  RowTells(CheckIn(r, day), Append(s, e)) /\ BonusesOf(Append(s, e))
<1> DEFINE n == Len(s)
           t == Append(s, e)
           c == CheckIn(r, day)
<1>1. /\ n \in Nat /\ Len(t) = n + 1 /\ DOMAIN s = 1..n /\ DOMAIN t = 1..(n + 1)
      /\ \A i \in 1..n : t[i] = s[i]
      /\ t[n + 1] = e
  OBVIOUS
<1>2. /\ c.last = day /\ c.current = NextStreak(r, day) /\ c.logins = r.logins + 1
      /\ c.longest = IF NextStreak(r, day) > r.longest THEN NextStreak(r, day) ELSE r.longest
  BY DEF CheckIn
<1> HIDE DEF n, t, c
<1>3. ASSUME NEW i \in 1..n
      PROVE  RunOf(t, i) = RunOf(s, i) /\ RunOf(s, i) \in Nat
  <2>1. i \in Nat \ {0} /\ \A k \in 1..i : s[k] = t[k]
    BY <1>1
  <2> QED BY <2>1, RunOfPrefix, RunFacts
<1>4. c.current = RunOf(t, n + 1) /\ c.current \in Nat
  <2>1. CASE n = 0
    <3>1. r = NoStreak
      BY <2>1 DEF RowTells, n
    <3>2. r.last = -2
      BY <3>1 DEF NoStreak
    <3>3. NextStreak(r, day) = 1
      BY <3>2 DEF NextStreak
    <3> QED BY <1>2, <2>1, <3>3, FirstRun
  <2>2. CASE n > 0
    <3>1. r.last = s[n].day /\ r.current = RunOf(s, n)
      BY <2>2 DEF RowTells, n
    <3>2. s[n] \in Reward
      <4>1. n \in DOMAIN s
        BY <1>1, <2>2
      <4> QED BY <4>1
    <3>3. s[n].day \in Nat /\ t[n] = s[n] /\ t[n + 1].day = day
      BY <1>1, <2>2, <3>2 DEF Reward
    <3>4. RunOf(t, n + 1) = IF day = s[n].day + 1 THEN RunOf(t, n) + 1 ELSE 1
      <4>1. n \in Nat \ {0}
        BY <1>1, <2>2
      <4>2. RunOf(t, n + 1) = IF t[n + 1].day = t[n].day + 1 THEN RunOf(t, n) + 1 ELSE 1
        BY <4>1, RunOfNext
      <4> QED BY <3>3, <4>2
    <3>5. RunOf(t, n) = RunOf(s, n) /\ RunOf(s, n) \in Nat
      BY <1>1, <1>3, <2>2
    <3> QED BY <1>2, <3>1, <3>3, <3>4, <3>5 DEF NextStreak
  <2> QED BY <1>1, <2>1, <2>2
<1>5. RowTells(c, t)
  <2>1. c.logins = n + 1
    <3>1. CASE n = 0
      BY <1>2, <3>1 DEF RowTells, n, NoStreak
    <3>2. CASE n > 0
      BY <1>2, <3>2 DEF RowTells, n
    <3> QED BY <1>1, <3>1, <3>2
  <2>2. r.longest \in Nat /\ c.longest = IF c.current > r.longest THEN c.current ELSE r.longest
    BY <1>2 DEF Streaks, NoStreak
  <2>3. ASSUME NEW i \in 1..(n + 1)
        PROVE  RunOf(t, i) <= c.longest
    <3>1. CASE i = n + 1
      BY <1>4, <2>2, <3>1
    <3>2. CASE i \in 1..n
      <4>1. RunOf(s, i) <= r.longest
        BY <1>1, <3>2 DEF RowTells, n
      <4> QED BY <1>3, <1>4, <2>2, <3>2, <4>1
    <3> QED BY <1>1, <3>1, <3>2
  <2>4. \E i \in 1..(n + 1) : RunOf(t, i) = c.longest
    <3>1. CASE c.current > r.longest
      <4>1. c.longest = RunOf(t, n + 1) /\ n + 1 \in 1..(n + 1)
        BY <1>1, <1>4, <2>2, <3>1
      <4> QED BY <4>1
    <3>2. CASE ~(c.current > r.longest)
      <4>1. n > 0
        <5>1. n = 0 => r.longest = 0 /\ RunOf(t, n + 1) = 1
          BY FirstRun DEF RowTells, n, NoStreak
        <5> QED BY <1>1, <1>4, <3>2, <5>1
      <4>2. PICK i \in 1..n : RunOf(s, i) = r.longest
        BY <4>1 DEF RowTells, n
      <4>3. RunOf(t, i) = c.longest /\ i \in 1..(n + 1)
        BY <1>1, <1>3, <2>2, <3>2, <4>2
      <4> QED BY <4>3
    <3> QED BY <3>1, <3>2
  <2>5. c.last = t[n + 1].day /\ c.current = RunOf(t, n + 1)
    BY <1>1, <1>2, <1>4
  <2> QED BY <1>1, <2>1, <2>3, <2>4, <2>5 DEF RowTells
<1>6. BonusesOf(t)
  <2> SUFFICES ASSUME NEW i \in 1..(n + 1)
               PROVE  t[i].coins = BaseCoins + BonusFor(RunOf(t, i))
    BY <1>1 DEF BonusesOf
  <2>1. CASE i = n + 1
    BY <1>1, <1>4, <2>1 DEF c
  <2>2. CASE i \in 1..n
    BY <1>1, <1>3, <2>2 DEF BonusesOf
  <2> QED BY <1>1, <2>1, <2>2
<1> QED BY <1>5, <1>6 DEF t, c

LEMMA HistoryInit == Init => HistoryTold
<1> SUFFICES ASSUME Init, NEW u \in Users PROVE RowTells(streak[u], rewards[u]) /\ BonusesOf(rewards[u])
  BY DEF HistoryTold
<1>1. streak[u] = NoStreak /\ rewards[u] = <<>>
  BY DEF Init
<1> QED BY <1>1 DEF RowTells, BonusesOf

LEMMA HistoryStep == StreakInv /\ HistoryTold /\ [Next]_vars => HistoryTold'
<1> SUFFICES ASSUME StreakInv, HistoryTold, [Next]_vars PROVE HistoryTold'
  OBVIOUS
<1>1. CASE streak' = streak /\ rewards' = rewards
  BY <1>1 DEF HistoryTold
<1>2. ASSUME NEW p \in Requests, Award(p) PROVE HistoryTold'
  <2> SUFFICES ASSUME NEW v \in Users
               PROVE  RowTells(streak'[v], rewards'[v]) /\ BonusesOf(rewards'[v])
    BY DEF HistoryTold
  <2> DEFINE u == user[p]
  <2>1. /\ pc[p] = "award" /\ u \in Users /\ Given(p) \in Reward
        /\ streak'[u] = CheckIn(row[p], today[p])
        /\ rewards'[u] = Append(rewards[u], Given(p))
        /\ \A w \in Users \ {u} : streak'[w] = streak[w] /\ rewards'[w] = rewards[w]
    BY <1>2, AwardFacts
  <2>2. RowTells(streak[v], rewards[v]) /\ BonusesOf(rewards[v])
    BY DEF HistoryTold
  <2>3. CASE v # u
    BY <2>1, <2>2, <2>3
  <2>4. CASE v = u
    <3>1. row[p] = streak[u]
      BY <2>1 DEF StreakInv, RowCurrent
    <3>2. row[p] \in Streaks /\ today[p] \in Nat /\ rewards[u] \in Seq(Reward)
      BY <2>1 DEF StreakInv, TypeOK
    <3>3. /\ Given(p).day = today[p]
          /\ Given(p).coins = BaseCoins + BonusFor(CheckIn(row[p], today[p]).current)
      BY DEF Given
    <3> QED BY <2>1, <2>2, <2>4, <3>1, <3>2, <3>3, CheckInTells
  <2> QED BY <2>3, <2>4
<1>3. CASE UNCHANGED vars
  BY <1>1, <1>3 DEF vars
<1>4. CASE Tick
  BY <1>1, <1>4 DEF Tick
<1>5. ASSUME NEW p \in Requests, Quiet(p) PROVE HistoryTold'
  BY <1>1, <1>5 DEF Quiet, DailyLogin, LockWallet, Fail
<1> QED BY <1>2, <1>3, <1>4, <1>5 DEF Next, Quiet

(* Every reachable row is the summary of the rewards given. *)
THEOREM HistoryHolds == Spec => []HistoryTold
BY HistoryInit, HistoryStep, StreakInvHolds, PTL DEF Spec

(* However many requests race, and whichever of them fail, the saved row   *)
(* of DailyLogin counts the check-ins, the present run and the best one.   *)
THEOREM StreakTellsHistoryHolds == Spec => []StreakTellsHistory
<1>1. StreakInv /\ HistoryTold => StreakTellsHistory
  <2> SUFFICES ASSUME StreakInv, HistoryTold PROVE StreakTellsHistory
    OBVIOUS
  <2>1. \A u \in Users : \A i : Run(u, i) = RunOf(rewards[u], i)
    BY DEF Run, RunOf, IsRun
  <2>2. ASSUME NEW u \in Users
        PROVE  RowTells(streak[u], rewards[u])
    BY DEF HistoryTold
  <2> QED BY <2>1, <2>2 DEF StreakTellsHistory, RowTells
<1> QED BY <1>1, HistoryHolds, StreakInvHolds, PTL

(* A milestone of StreakRewardTable is paid with the check-in that         *)
(* completes the run, and with no other.                                   *)
THEOREM BonusesEarnedHold == Spec => []BonusesEarned
<1>1. HistoryTold => BonusesEarned
  <2> SUFFICES ASSUME HistoryTold PROVE BonusesEarned
    OBVIOUS
  <2>1. \A u \in Users : \A i : Run(u, i) = RunOf(rewards[u], i)
    BY DEF Run, RunOf, IsRun
  <2>2. ASSUME NEW u \in Users
        PROVE  BonusesOf(rewards[u])
    BY DEF HistoryTold
  <2> QED BY <2>1, <2>2 DEF BonusesEarned, BonusesOf
<1> QED BY <1>1, HistoryHolds, PTL
=============================================================================
