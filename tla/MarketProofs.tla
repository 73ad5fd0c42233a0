---------------------------- MODULE MarketProofs ----------------------------
(***************************************************************************)
(* Theorems about Market, for any number of users, markets, requests,      *)
(* admins and replicas of the minute job: the inductive invariant, the     *)
(* shape of the deadlocks and the refinement of Betting.                   *)
(***************************************************************************)
EXTENDS Market, FiniteSetTheorems, WellFoundedInduction, TLAPS

(* The places of a transaction that holds its markets row. *)
Holding == {"load", "wallets", "check", "stats", "rows", "commit"}

(* Which request brings a transaction where. *)
PlaceOK(p) ==
  /\ pc[p] # "idle" => job[p] \in Job
  /\ pc[p] = "idle" => job[p] = NoJob
  /\ pc[p] = "market" => job[p].op \in {"submit", "resolve"}
  /\ pc[p] \in {"load", "stats", "rows"} => job[p].op = "resolve"
  /\ pc[p] = "check" => job[p].op = "submit"
  /\ pc[p] \in {"wallets", "commit"} => job[p].op \in {"submit", "resolve"}
  /\ pc[p] = "update" =>
       job[p].op = "move" /\ <<job[p].from, job[p].to>> \in Promise!Edges
  /\ pc[p] \in Holding /\ job[p].op = "resolve" => job[p].choice \in Options
  /\ pc[p] \notin {"wallets", "rows"} => want[p] = 0

(* Who holds a row, and what is still true of it. *)
MarketHeld(p) ==
  /\ \A m \in Markets : marketLock[m] = p <=> pc[p] \in Holding /\ job[p].market = m
  /\ \A u \in Users : userLock[u] = p => pc[p] \in Holding \ {"load"}
  /\ pc[p] \in Holding /\ job[p].op = "submit" => status[job[p].market] \in {"Open", "Live"}
  /\ pc[p] \in Holding /\ job[p].op = "resolve" =>
       /\ status[job[p].market] \in {"Locked", "Awaiting Resolution"}
       /\ copy[p] = volume[job[p].market]

(* The predictions a resolver loaded are still those of the market. *)
ListCurrent(p) ==
  pc[p] \in Holding \ {"load"} /\ job[p].op = "resolve" => list[p] = Bettors(job[p].market)

(* The wallets the request moves coins of. *)
Moves(p) == IF job[p].op = "submit" THEN Wallets(job[p].user) ELSE Winners(p)

(* Those locked so far keep the balance that was read. *)
WalletsHeld(p) ==
  pc[p] \in Holding \ {"load"} =>
    \A u \in Moves(p) :
      \/ pc[p] = "wallets" /\ u \in owed[p]
      \/ userLock[u] = p /\ read[p][u] = points[u]

(* What a submission was checked for holds until it commits. *)
SubmissionOK(p) ==
  pc[p] = "commit" /\ job[p].op = "submit" =>
    /\ ~CategoryTaken(job[p].user, job[p].market, at[p])
    /\ job[p].choice \in Options
    /\ Affordable(job[p].user)
    /\ bets[job[p].user][job[p].market] = NoBet

(* Wallets are locked in ascending order. *)
Ascending(p) ==
  pc[p] = "wallets" =>
    /\ want[p] \in owed[p]
    /\ owed[p] \subseteq Moves(p)
    /\ \A y \in owed[p] :
         /\ want[p] <= y
         /\ \A u \in Users : userLock[u] = p => u < y

Local(p) ==
  /\ PlaceOK(p) /\ MarketHeld(p) /\ ListCurrent(p)
  /\ WalletsHeld(p) /\ SubmissionOK(p) /\ Ascending(p)

(* A prediction is graded by the result, not before. *)
GradedLate ==
  \A u \in Users, m \in Markets :
    bets[u][m].grade \in {"won", "lost"} => status[m] \in {"Resolved", "Archived"}

VolumeOK == \A m \in Markets : IsFiniteSet(Bettors(m)) /\ volume[m] = Cardinality(Bettors(m))

MarketInv ==
  /\ TypeOK
  /\ \A p \in Procs : Local(p)
  /\ GradedLate /\ StakesAndWinsOnce /\ VolumeOK /\ OneBetPerCategoryADay

(* The figures stored are those of the predictions, and the ones a         *)
(* resolver is about to store will be, but for users graded meanwhile.     *)
StatsInv ==
  /\ StatsMatchBets
  /\ \A p \in Procs : Storing(p) =>
       \A u \in Users \ missed[p] : snapshot[p][u] = StatsSeen(p, u)

(* What process q has, and the rows it holds, are left alone. *)
Undisturbed(q) ==
  /\ pc'[q] = pc[q] /\ job'[q] = job[q] /\ copy'[q] = copy[q] /\ at'[q] = at[q]
  /\ owed'[q] = owed[q] /\ want'[q] = want[q] /\ read'[q] = read[q] /\ list'[q] = list[q]
  /\ snapshot'[q] = snapshot[q]
  /\ \A m \in Markets : marketLock'[m] = q <=> marketLock[m] = q
  /\ \A u \in Users : userLock'[u] = q <=> userLock[u] = q
  /\ \A m \in Markets : marketLock[m] = q =>
       /\ status'[m] = status[m] /\ volume'[m] = volume[m]
       /\ \A u \in Users : bets'[u][m] = bets[u][m]
  /\ \A u \in Users : userLock[u] = q =>
       /\ points'[u] = points[u] /\ placed'[u] = placed[u]
       /\ \A m \in Markets : bets'[u][m] = NoBet <=> bets[u][m] = NoBet

(* The invariants of the tables. *)
TablesOK == GradedLate /\ StakesAndWinsOnce /\ VolumeOK /\ OneBetPerCategoryADay

-----------------------------------------------------------------------------
(* The operators *)

LEMMA LowestFacts ==
  ASSUME NEW S, S \subseteq Nat, S # {}
  PROVE  Lowest(S) \in S /\ \A y \in S : Lowest(S) <= y
<1> DEFINE R == {ss \in Nat \X Nat : ss[1] < ss[2]}
<1>0. IsWellFoundedOn(R, Nat)
  BY NatLessThanWellFounded DEF OpToRel
<1>1. PICK x \in S : \A y \in S : ~(<<y, x>> \in R)
  <2> HIDE DEF R
  <2> QED BY <1>0, WFMin
<1>2. \A y \in S : ~(y < x)
  BY <1>1
<1>3. \A y \in S : x <= y
  BY <1>2
<1>4. \E z \in S : \A y \in S : z <= y
  BY <1>3
<1> QED BY <1>4 DEF Lowest

LEMMA WalletsFacts ==
  ASSUME NEW u \in Users
  PROVE  u \in Wallets(u) /\ Wallets(u) \subseteq Users /\ Wallets(u) \subseteq Nat
BY ConstantsAssumption DEF Wallets

LEMMA FiguresType ==
  ASSUME NEW b
  PROVE  Figures(b) \in Stat
<1>1. IsFiniteSet(Markets)
  BY ConstantsAssumption
<1>2. \A S : S \subseteq Markets => Cardinality(S) \in Nat
  BY <1>1, FS_Subset, FS_CardinalityType
<1>3. Cardinality({m \in Markets : b[m].grade = "won"}) \in Nat
  BY <1>2
<1>4. Cardinality({m \in Markets : b[m].grade \in {"won", "lost"}}) \in Nat
  BY <1>2
<1> QED BY <1>3, <1>4 DEF Figures, Stat

LEMMA JobFacts ==
  ASSUME NEW j \in Job
  PROVE  /\ j # NoJob
         /\ j.op \in {"submit", "resolve", "move"}
         /\ j.market \in Markets
         /\ j.op = "submit" => j.user \in Users
         /\ j.op = "move" => j.from \in Statuses /\ j.to \in Statuses
BY DEF Job, NoJob

LEMMA WorkingJob ==
  ASSUME NEW p \in Procs, PlaceOK(p), pc[p] # "idle"
  PROVE  /\ job[p] # NoJob
         /\ job[p].op \in {"submit", "resolve", "move"}
         /\ job[p].market \in Markets
         /\ job[p].op = "submit" => job[p].user \in Users
         /\ job[p].op = "move" => job[p].from \in Statuses /\ job[p].to \in Statuses
BY JobFacts DEF PlaceOK

LEMMA GradedBet ==
  ASSUME NEW b \in Bet, NEW choice
  PROVE  /\ GradedFor(b, choice) \in Bet /\ GradedFor(b, choice) # NoBet
         /\ GradedFor(b, choice).choice = b.choice
         /\ GradedFor(b, choice).grade = IF b.choice = choice THEN "won" ELSE "lost"
BY DEF GradedFor, Bet, NoBet

LEMMA BetFacts ==
  ASSUME NEW b \in Bet \cup {NoBet}
  PROVE  /\ b # NoBet => b \in Bet /\ b.grade \in {"open", "won", "lost"} /\ b.choice \in Options
         /\ b = NoBet => b.grade = "none" /\ b.choice = "none"
BY DEF Bet, NoBet

-----------------------------------------------------------------------------
(* What a process does, in the cases of the proofs. *)

Begun(p, j, first) ==
  /\ pc[p] = "idle"
  /\ Begin(p, j, first)
  /\ \/ first = "market" /\ j.op \in {"submit", "resolve"}
     \/ first = "update" /\ j.op = "move" /\ <<j.from, j.to>> \in Promise!Edges

TookForSubmit(p) ==
  LET m == job[p].market
  IN /\ pc[p] = "market" /\ job[p].op = "submit"
     /\ Free(marketLock[m], p)
     /\ status[m] \in {"Open", "Live"}
     /\ marketLock' = [marketLock EXCEPT ![m] = p]
     /\ at' = [at EXCEPT ![p] = now]
     /\ owed' = [owed EXCEPT ![p] = Wallets(job[p].user)]
     /\ want' = [want EXCEPT ![p] = Lowest(Wallets(job[p].user))]
     /\ pc' = [pc EXCEPT ![p] = "wallets"]
     /\ UNCHANGED <<now, tables, userLock, job, copy, read, list, snapshot, missed>>

TookForResolve(p) ==
  LET m == job[p].market
  IN /\ pc[p] = "market" /\ job[p].op = "resolve"
     /\ Free(marketLock[m], p)
     /\ status[m] \in {"Locked", "Awaiting Resolution"} /\ job[p].choice \in Options
     /\ marketLock' = [marketLock EXCEPT ![m] = p]
     /\ copy' = [copy EXCEPT ![p] = volume[m]]
     /\ pc' = [pc EXCEPT ![p] = "load"]
     /\ UNCHANGED <<now, tables, userLock, job, at, owed, want, read, list, snapshot,
                    missed>>

Checked(p) ==
  LET u == job[p].user
      m == job[p].market
  IN /\ pc[p] = "check"
     /\ ~CategoryTaken(u, m, at[p])
     /\ job[p].choice \in Options
     /\ Affordable(u)
     /\ bets[u][m] = NoBet
     /\ pc' = [pc EXCEPT ![p] = "commit"]
     /\ UNCHANGED <<now, tables, locks, job, copy, at, owed, want, read, list, snapshot,
                    missed>>

(* The steps that write a table. *)
Commit(p) == CommitSubmission(p) \/ CommitResolution(p) \/ UpdateStatus(p)

(* Those that only take locks and read. *)
Prepare(p) ==
  \/ TookForSubmit(p) \/ TookForResolve(p) \/ LoadPredictions(p) \/ LockWallet(p)
  \/ Checked(p) \/ BeginStats(p) \/ LockRow(p)

LEMMA MoveCases ==
  ASSUME NEW p \in Procs, NEW m \in Markets, NEW to, TypeOK,
         Move(p, m, to), <<status[m], to>> \in Promise!Edges
  PROVE  \E j \in Job : Begun(p, j, "update")
<1> DEFINE j == [op |-> "move", market |-> m, from |-> status[m], to |-> to]
<1>1. status[m] \in Statuses /\ to \in Statuses
  BY DEF TypeOK, Promise!Edges, Statuses
<1>2. j \in Job
  BY <1>1 DEF Job
<1>3. pc[p] = "idle" /\ Begin(p, j, "update")
  BY DEF Move
<1>4. j.op = "move" /\ j.from = status[m] /\ j.to = to
  OBVIOUS
<1>5. Begun(p, j, "update")
  BY <1>3, <1>4 DEF Begun
<1> QED BY <1>2, <1>5

LEMMA BeginCases ==
  ASSUME NEW p \in Procs, TypeOK,
         Submit(p) \/ Resolve(p) \/ Administer(p) \/ Scan(p)
  PROVE  \E j \in Job, first \in {"market", "update"} : Begun(p, j, first)
<1>1. CASE Submit(p)
  <2> PICK u \in Users, m \in Markets, choice \in Answers : SubmitPrediction(p, u, m, choice)
    BY <1>1 DEF Submit
  <2> DEFINE j == [op |-> "submit", user |-> u, market |-> m, choice |-> choice]
  <2>1. j \in Job
    BY DEF Job
  <2>2. j.op = "submit"
    OBVIOUS
  <2>3. Begun(p, j, "market")
    BY <2>2 DEF SubmitPrediction, Begun
  <2> QED BY <2>1, <2>3
<1>2. ASSUME NEW m \in Markets, NEW choice \in Answers, ResolveMarket(p, m, choice)
      PROVE  \E j \in Job, first \in {"market", "update"} : Begun(p, j, first)
  <2> DEFINE j == [op |-> "resolve", market |-> m, choice |-> choice]
  <2>1. j \in Job
    BY DEF Job
  <2>2. j.op = "resolve"
    OBVIOUS
  <2>3. Begun(p, j, "market")
    BY <1>2, <2>2 DEF ResolveMarket, Begun
  <2> QED BY <2>1, <2>3
<1>3. ASSUME NEW m \in Markets,
             \/ \E to \in Statuses : TransitionMarketState(p, m, to)
             \/ ApproveMarket(p, m) \/ DeleteMarket(p, m) \/ ScanMarket(p, m)
      PROVE  \E j \in Job, first \in {"market", "update"} : Begun(p, j, first)
  <2>1. \E to : Move(p, m, to) /\ <<status[m], to>> \in Promise!Edges
    BY <1>3 DEF TransitionMarketState, Allowed, ApproveMarket, DeleteMarket, ScanMarket,
                DueToLock, Promise!Edges
  <2> QED BY <2>1, MoveCases
<1> QED BY <1>1, <1>2, <1>3 DEF Resolve, Administer, Scan

LEMMA StepCases ==
  ASSUME NEW p \in Procs, PlaceOK(p), Step(p)
  PROVE  Prepare(p) \/ Commit(p) \/ Rollback(p)
<1>1. CASE LockForSubmit(p)
  BY <1>1, Zenon DEF LockForSubmit, LockMarket, TookForSubmit, Accepting, FirstWallet, Prepare
<1>2. CASE LockForResolve(p)
  BY <1>2, Zenon DEF LockForResolve, LockMarket, TookForResolve, Prepare
<1>3. CASE CheckSubmission(p)
  BY <1>3, Zenon DEF CheckSubmission, Checked, Prepare
<1> QED BY <1>1, <1>2, <1>3 DEF Step, Prepare, Commit

(* A step of the system is one of a process, of the clock or of CreateMarket. *)
LEMMA NextCases ==
  ASSUME TypeOK, \A p \in Procs : PlaceOK(p), [Next]_vars
  PROVE  \/ now' \in 0..MaxTime /\ UNCHANGED <<tables, locks, pc, job, memory>>
         \/ \E m \in Markets, s \in {"Draft", "Scheduled", "Live", "Proposed"} : CreateMarket(m, s)
         \/ \E p \in Procs :
              \/ \E j \in Job, first \in {"market", "update"} : Begun(p, j, first)
              \/ Prepare(p) \/ Commit(p) \/ Rollback(p)
<1>1. CASE Next
  <2>1. CASE Tick
    BY <2>1, ConstantsAssumption DEF Tick, TypeOK
  <2>2. CASE \E p \in Clients : Submit(p)
    BY <2>2, BeginCases DEF Procs
  <2>3. CASE \E p \in Admins : Administer(p)
    BY <2>3, BeginCases DEF Procs
  <2>4. CASE \E p \in Resolvers : Resolve(p)
    BY <2>4, BeginCases DEF Procs
  <2>5. CASE \E p \in Jobs : Scan(p)
    BY <2>5, BeginCases DEF Procs
  <2>6. CASE \E p \in Procs : Step(p) \/ Abort(p) \/ Fail(p)
    BY <2>6, StepCases DEF Abort, Fail
  <2> QED BY <1>1, <2>1, <2>2, <2>3, <2>4, <2>5, <2>6 DEF Next
<1>2. CASE UNCHANGED vars
  BY <1>2 DEF vars, TypeOK
<1> QED BY <1>1, <1>2

(* The end of a transaction frees its own rows and nobody else's. *)
LEMMA EndFacts ==
  ASSUME TypeOK, NEW p \in Procs, End(p)
  PROVE  /\ pc' \in [Procs -> PCs] /\ job' \in [Procs -> Job \cup {NoJob}]
         /\ copy' \in [Procs -> Nat] /\ at' \in [Procs -> Nat]
         /\ owed' \in [Procs -> SUBSET Users] /\ want' \in [Procs -> Users \cup {0}]
         /\ read' \in [Procs -> [Users -> Nat]] /\ list' \in [Procs -> SUBSET Users]
         /\ snapshot' \in [Procs -> [Users -> Stat]]
         /\ marketLock' \in [Markets -> Procs \cup {NoProc}]
         /\ userLock' \in [Users -> Procs \cup {NoProc}]
         /\ pc'[p] = "idle" /\ job'[p] = NoJob /\ want'[p] = 0
         /\ \A m \in Markets : marketLock'[m] # p
         /\ \A u \in Users : userLock'[u] # p
         /\ \A q \in Procs \ {p} :
              /\ pc'[q] = pc[q] /\ job'[q] = job[q] /\ copy'[q] = copy[q] /\ at'[q] = at[q]
              /\ owed'[q] = owed[q] /\ want'[q] = want[q] /\ read'[q] = read[q]
              /\ list'[q] = list[q] /\ snapshot'[q] = snapshot[q]
              /\ \A m \in Markets : marketLock'[m] = q <=> marketLock[m] = q
              /\ \A u \in Users : userLock'[u] = q <=> userLock[u] = q
<1>1. /\ pc' = [pc EXCEPT ![p] = "idle"] /\ job' = [job EXCEPT ![p] = NoJob]
      /\ copy' = [copy EXCEPT ![p] = 0] /\ at' = [at EXCEPT ![p] = 0]
      /\ owed' = [owed EXCEPT ![p] = {}] /\ want' = [want EXCEPT ![p] = 0]
      /\ read' = [read EXCEPT ![p] = [u \in Users |-> 0]] /\ list' = [list EXCEPT ![p] = {}]
      /\ snapshot' = [snapshot EXCEPT ![p] = [u \in Users |-> NoStat]]
  BY DEF End
<1>2. /\ marketLock' = [m \in Markets |-> IF marketLock[m] = p THEN NoProc ELSE marketLock[m]]
      /\ userLock' = [u \in Users |-> IF userLock[u] = p THEN NoProc ELSE userLock[u]]
  BY DEF End, ReleaseLocks
<1>3. /\ [u \in Users |-> 0] \in [Users -> Nat]
      /\ [u \in Users |-> NoStat] \in [Users -> Stat]
  BY DEF NoStat, Stat
<1>4. /\ pc' \in [Procs -> PCs] /\ job' \in [Procs -> Job \cup {NoJob}]
      /\ copy' \in [Procs -> Nat] /\ at' \in [Procs -> Nat]
      /\ owed' \in [Procs -> SUBSET Users] /\ want' \in [Procs -> Users \cup {0}]
      /\ read' \in [Procs -> [Users -> Nat]] /\ list' \in [Procs -> SUBSET Users]
      /\ snapshot' \in [Procs -> [Users -> Stat]]
      /\ pc'[p] = "idle" /\ job'[p] = NoJob /\ want'[p] = 0
  BY <1>1, <1>3 DEF TypeOK, PCs
<1>5. \A q \in Procs \ {p} :
        /\ pc'[q] = pc[q] /\ job'[q] = job[q] /\ copy'[q] = copy[q] /\ at'[q] = at[q]
        /\ owed'[q] = owed[q] /\ want'[q] = want[q] /\ read'[q] = read[q]
        /\ list'[q] = list[q] /\ snapshot'[q] = snapshot[q]
  BY <1>1 DEF TypeOK
<1>6. p # NoProc /\ \A q \in Procs : q # NoProc
  BY ConstantsAssumption
<1>7. /\ marketLock' \in [Markets -> Procs \cup {NoProc}]
      /\ userLock' \in [Users -> Procs \cup {NoProc}]
      /\ \A m \in Markets : marketLock'[m] # p
      /\ \A u \in Users : userLock'[u] # p
      /\ \A q \in Procs \ {p} :
           /\ \A m \in Markets : marketLock'[m] = q <=> marketLock[m] = q
           /\ \A u \in Users : userLock'[u] = q <=> userLock[u] = q
  BY <1>2, <1>6 DEF TypeOK
<1> QED BY <1>4, <1>5, <1>7

(* A transaction that has ended satisfies its part of the invariant. *)
LEMMA EndLocal ==
  ASSUME TypeOK, NEW p \in Procs, End(p)
  PROVE  Local(p)'
<1>1. /\ pc'[p] = "idle" /\ job'[p] = NoJob /\ want'[p] = 0
      /\ \A m \in Markets : marketLock'[m] # p
      /\ \A u \in Users : userLock'[u] # p
  BY EndFacts
<1>2. job'[p].op = "none"
  BY <1>1 DEF NoJob
<1>3. PlaceOK(p)' /\ MarketHeld(p)'
  BY <1>1, <1>2 DEF PlaceOK, MarketHeld, Holding
<1>4. ListCurrent(p)' /\ WalletsHeld(p)' /\ SubmissionOK(p)' /\ Ascending(p)'
  BY <1>1, <1>2 DEF ListCurrent, WalletsHeld, SubmissionOK, Ascending, Holding
<1> QED BY <1>3, <1>4 DEF Local

(* What a transaction knows stays true while the rows it holds do. *)
LEMMA UndisturbedLocal ==
  ASSUME TypeOK, NEW q \in Procs, Local(q), Undisturbed(q)
  PROVE  Local(q)'
<1> DEFINE m == job[q].market
<1>0. /\ PlaceOK(q) /\ MarketHeld(q) /\ ListCurrent(q)
      /\ WalletsHeld(q) /\ SubmissionOK(q) /\ Ascending(q)
  BY DEF Local
<1>1. /\ pc'[q] = pc[q] /\ job'[q] = job[q] /\ copy'[q] = copy[q] /\ at'[q] = at[q]
      /\ owed'[q] = owed[q] /\ want'[q] = want[q] /\ read'[q] = read[q] /\ list'[q] = list[q]
      /\ \A k \in Markets : marketLock'[k] = q <=> marketLock[k] = q
      /\ \A u \in Users : userLock'[u] = q <=> userLock[u] = q
  BY DEF Undisturbed
<1>2. PlaceOK(q)'
  BY <1>0, <1>1 DEF PlaceOK
<1>3. pc[q] # "idle" => m \in Markets /\ (job[q].op = "submit" => job[q].user \in Users)
  BY <1>0, WorkingJob
<1>4. pc[q] \in Holding =>
        /\ marketLock[m] = q /\ status'[m] = status[m] /\ volume'[m] = volume[m]
        /\ \A u \in Users : bets'[u][m] = bets[u][m]
  BY <1>0, <1>3 DEF MarketHeld, Undisturbed, Holding
<1>5. \A u \in Users : userLock[u] = q =>
        /\ points'[u] = points[u] /\ placed'[u] = placed[u]
        /\ \A k \in Markets : bets'[u][k] = NoBet <=> bets[u][k] = NoBet
  BY DEF Undisturbed
<1>6. MarketHeld(q)'
  BY <1>0, <1>1, <1>4 DEF MarketHeld
<1>7. ListCurrent(q)'
  BY <1>0, <1>1, <1>4 DEF ListCurrent, Bettors
<1>8. pc[q] \in Holding \ {"load"} => Moves(q)' = Moves(q) /\ Moves(q) \subseteq Users
  <2>1. CASE job[q].op = "submit"
    BY <1>1, <1>3, <2>1, WalletsFacts DEF Moves, Wallets, Holding
  <2>2. CASE job[q].op # "submit"
    <3>1. list[q] \subseteq Users
      BY DEF TypeOK
    <3>2. pc[q] \in Holding => Winners(q)' = Winners(q) /\ Winners(q) \subseteq Users
      BY <1>1, <1>4, <3>1 DEF Winners
    <3> QED BY <1>1, <2>2, <3>2 DEF Moves
  <2> QED BY <2>1, <2>2
<1>9. WalletsHeld(q)'
  BY <1>0, <1>1, <1>5, <1>8 DEF WalletsHeld
<1>10. Ascending(q)'
  BY <1>0, <1>1, <1>8 DEF Ascending, Holding
<1>11. SubmissionOK(q)'
  <2> SUFFICES ASSUME pc[q] = "commit", job[q].op = "submit"
               PROVE  SubmissionOK(q)'
    BY <1>1 DEF SubmissionOK
  <2> DEFINE u == job[q].user
  <2>1. u \in Users /\ m \in Markets
    BY <1>3
  <2>2. u \in Moves(q)
    BY <2>1, WalletsFacts DEF Moves
  <2>3. userLock[u] = q
    BY <1>0, <2>2 DEF WalletsHeld, Holding
  <2>4. /\ points'[u] = points[u] /\ placed'[u] = placed[u]
        /\ \A k \in Markets : bets'[u][k] = NoBet <=> bets[u][k] = NoBet
    BY <1>5, <2>1, <2>3
  <2>5. ~CategoryTaken(u, m, at[q]) /\ job[q].choice \in Options /\ Affordable(u)
        /\ bets[u][m] = NoBet
    BY <1>0 DEF SubmissionOK
  <2>6. ~CategoryTaken(u, m, at[q])'
    BY <1>1, <2>4, <2>5 DEF CategoryTaken
  <2>7. Affordable(u)' /\ bets'[u][m] = NoBet
    BY <1>1, <2>1, <2>4, <2>5 DEF Affordable
  <2> QED BY <1>1, <2>5, <2>6, <2>7 DEF SubmissionOK
<1> QED BY <1>2, <1>6, <1>7, <1>9, <1>10, <1>11 DEF Local

-----------------------------------------------------------------------------
(* The steps that write no table: p moves on, the others are left alone.   *)

Advances(p) == TypeOK' /\ Local(p)' /\ \A q \in Procs \ {p} : Undisturbed(q)

LEMMA RollbackAdvances ==
  ASSUME TypeOK, NEW p \in Procs, Rollback(p)
  PROVE  Advances(p) /\ UNCHANGED tables
<1>1. End(p) /\ UNCHANGED <<now, tables, missed>>
  BY DEF Rollback
<1>2. Local(p)'
  BY <1>1, EndLocal
<1>3. TypeOK'
  BY <1>1, EndFacts DEF TypeOK, tables
<1>4. \A q \in Procs \ {p} : Undisturbed(q)
  BY <1>1, EndFacts DEF Undisturbed, tables
<1> QED BY <1>1, <1>2, <1>3, <1>4 DEF Advances

LEMMA BegunAdvances ==
  ASSUME TypeOK, NEW p \in Procs, Local(p),
         NEW j \in Job, NEW first \in {"market", "update"}, Begun(p, j, first)
  PROVE  Advances(p) /\ UNCHANGED tables
<1>1. /\ pc[p] = "idle"
      /\ pc' = [pc EXCEPT ![p] = first]
      /\ job' = [job EXCEPT ![p] = j]
      /\ now' = now
      /\ UNCHANGED tables
      /\ UNCHANGED locks
      /\ UNCHANGED memory
  BY DEF Begun, Begin
<1>2. /\ pc'[p] = first /\ job'[p] = j
      /\ \A q \in Procs \ {p} : pc'[q] = pc[q] /\ job'[q] = job[q]
  BY <1>1 DEF TypeOK
<1>3. TypeOK'
  BY <1>1 DEF TypeOK, tables, locks, memory, PCs
<1>4. \A q \in Procs \ {p} : Undisturbed(q)
  BY <1>1, <1>2 DEF Undisturbed, tables, locks, memory
<1>5. /\ want[p] = 0
      /\ \A m \in Markets : marketLock[m] # p
      /\ \A u \in Users : userLock[u] # p
  BY <1>1 DEF Local, PlaceOK, MarketHeld, Holding
<1>6. want'[p] = 0 /\ marketLock' = marketLock /\ userLock' = userLock
  BY <1>1, <1>5 DEF locks, memory
<1>7. PlaceOK(p)'
  <2>1. \/ first = "market" /\ j.op \in {"submit", "resolve"}
        \/ first = "update" /\ j.op = "move" /\ <<j.from, j.to>> \in Promise!Edges
    BY DEF Begun
  <2> QED BY <1>2, <1>6, <2>1 DEF PlaceOK, Holding
<1>8. MarketHeld(p)'
  BY <1>2, <1>5, <1>6 DEF MarketHeld, Holding
<1>9. ListCurrent(p)' /\ WalletsHeld(p)' /\ SubmissionOK(p)' /\ Ascending(p)'
  BY <1>2 DEF ListCurrent, WalletsHeld, SubmissionOK, Ascending, Holding
<1> QED BY <1>1, <1>3, <1>4, <1>7, <1>8, <1>9 DEF Advances, Local

LEMMA TookForSubmitAdvances ==
  ASSUME TypeOK, NEW p \in Procs, Local(p), TookForSubmit(p)
  PROVE  Advances(p) /\ UNCHANGED tables
<1> DEFINE m == job[p].market
           u == job[p].user
<1>1. /\ pc[p] = "market" /\ job[p].op = "submit"
      /\ Free(marketLock[m], p)
      /\ status[m] \in {"Open", "Live"}
      /\ marketLock' = [marketLock EXCEPT ![m] = p]
      /\ at' = [at EXCEPT ![p] = now]
      /\ owed' = [owed EXCEPT ![p] = Wallets(u)]
      /\ want' = [want EXCEPT ![p] = Lowest(Wallets(u))]
      /\ pc' = [pc EXCEPT ![p] = "wallets"]
      /\ UNCHANGED <<now, tables, userLock, job, copy, read, list, snapshot, missed>>
  BY DEF TookForSubmit
<1>2. UNCHANGED tables
  BY <1>1
<1>3. /\ PlaceOK(p)
      /\ \A k \in Markets : marketLock[k] # p
      /\ \A w \in Users : userLock[w] # p
  BY <1>1 DEF Local, MarketHeld, Holding
<1>4. m \in Markets /\ u \in Users /\ job[p] \in Job
  BY <1>1, <1>3, WorkingJob DEF PlaceOK
<1>5. /\ Wallets(u) \subseteq Users
      /\ Lowest(Wallets(u)) \in Wallets(u)
      /\ \A y \in Wallets(u) : Lowest(Wallets(u)) <= y
  BY <1>4, WalletsFacts, LowestFacts
<1>6. /\ pc'[p] = "wallets" /\ at'[p] = now /\ owed'[p] = Wallets(u)
      /\ want'[p] = Lowest(Wallets(u)) /\ job'[p] = job[p] /\ marketLock'[m] = p
      /\ \A q \in Procs \ {p} :
           pc'[q] = pc[q] /\ at'[q] = at[q] /\ owed'[q] = owed[q] /\ want'[q] = want[q]
  BY <1>1, <1>4 DEF TypeOK
<1>7. \A k \in Markets : k # m => marketLock'[k] = marketLock[k]
  BY <1>1, <1>4 DEF TypeOK
<1>8. marketLock[m] = NoProc
  BY <1>1, <1>3, <1>4 DEF Free
<1>9. TypeOK'
  <2>1. /\ marketLock' \in [Markets -> Procs \cup {NoProc}]
        /\ at' \in [Procs -> Nat] /\ owed' \in [Procs -> SUBSET Users]
        /\ want' \in [Procs -> Users \cup {0}] /\ pc' \in [Procs -> PCs]
    BY <1>1, <1>4, <1>5 DEF TypeOK, PCs
  <2> QED BY <1>1, <2>1 DEF TypeOK, tables
<1>10. \A q \in Procs \ {p} : Undisturbed(q)
  <2>1. \A q \in Procs : q # NoProc
    BY ConstantsAssumption
  <2>2. \A q \in Procs \ {p} : \A k \in Markets : marketLock'[k] = q <=> marketLock[k] = q
    BY <1>6, <1>7, <1>8, <2>1
  <2> QED BY <1>1, <1>6, <2>2 DEF Undisturbed, tables
<1>11. PlaceOK(p)'
  BY <1>1, <1>3, <1>4, <1>6, JobFacts DEF PlaceOK, Holding
<1>12. MarketHeld(p)'
  BY <1>1, <1>2, <1>3, <1>4, <1>6, <1>7 DEF MarketHeld, Holding, tables
<1>13. Moves(p)' = Wallets(u)
  BY <1>1, <1>6 DEF Moves, Wallets
<1>14. WalletsHeld(p)'
  BY <1>6, <1>13 DEF WalletsHeld
<1>15. Ascending(p)'
  BY <1>1, <1>3, <1>5, <1>6, <1>13 DEF Ascending
<1>16. ListCurrent(p)' /\ SubmissionOK(p)'
  BY <1>1, <1>6 DEF ListCurrent, SubmissionOK
<1> QED BY <1>2, <1>9, <1>10, <1>11, <1>12, <1>14, <1>15, <1>16 DEF Advances, Local

LEMMA TookForResolveAdvances ==
  ASSUME TypeOK, NEW p \in Procs, Local(p), TookForResolve(p)
  PROVE  Advances(p) /\ UNCHANGED tables
<1> DEFINE m == job[p].market
<1>1. /\ pc[p] = "market" /\ job[p].op = "resolve"
      /\ Free(marketLock[m], p)
      /\ status[m] \in {"Locked", "Awaiting Resolution"}
      /\ job[p].choice \in Options
      /\ marketLock' = [marketLock EXCEPT ![m] = p]
      /\ copy' = [copy EXCEPT ![p] = volume[m]]
      /\ pc' = [pc EXCEPT ![p] = "load"]
      /\ UNCHANGED <<now, tables, userLock, job, at, owed, want, read, list, snapshot,
                     missed>>
  BY DEF TookForResolve
<1>2. UNCHANGED tables
  BY <1>1
<1>3. /\ PlaceOK(p) /\ want[p] = 0
      /\ \A k \in Markets : marketLock[k] # p
      /\ \A w \in Users : userLock[w] # p
  BY <1>1 DEF Local, MarketHeld, Holding, PlaceOK
<1>4. m \in Markets /\ job[p] \in Job
  BY <1>1, <1>3, WorkingJob DEF PlaceOK
<1>5. /\ pc'[p] = "load" /\ copy'[p] = volume[m] /\ job'[p] = job[p] /\ marketLock'[m] = p
      /\ \A q \in Procs \ {p} : pc'[q] = pc[q] /\ copy'[q] = copy[q]
      /\ \A k \in Markets : k # m => marketLock'[k] = marketLock[k]
  BY <1>1, <1>4 DEF TypeOK
<1>6. marketLock[m] = NoProc
  BY <1>1, <1>3, <1>4 DEF Free
<1>7. TypeOK'
  <2>1. /\ marketLock' \in [Markets -> Procs \cup {NoProc}]
        /\ copy' \in [Procs -> Nat] /\ pc' \in [Procs -> PCs]
    BY <1>1, <1>4 DEF TypeOK, PCs
  <2> QED BY <1>1, <2>1 DEF TypeOK, tables
<1>8. \A q \in Procs \ {p} : Undisturbed(q)
  <2>1. \A q \in Procs : q # NoProc
    BY ConstantsAssumption
  <2>2. \A q \in Procs \ {p} : \A k \in Markets : marketLock'[k] = q <=> marketLock[k] = q
    BY <1>5, <1>6, <2>1
  <2> QED BY <1>1, <1>5, <2>2 DEF Undisturbed, tables
<1>9. PlaceOK(p)'
  BY <1>1, <1>3, <1>4, <1>5, JobFacts DEF PlaceOK, Holding
<1>10. MarketHeld(p)'
  BY <1>1, <1>2, <1>3, <1>4, <1>5 DEF MarketHeld, Holding, tables
<1>11. ListCurrent(p)' /\ WalletsHeld(p)' /\ SubmissionOK(p)' /\ Ascending(p)'
  BY <1>5 DEF ListCurrent, WalletsHeld, SubmissionOK, Ascending
<1> QED BY <1>2, <1>7, <1>8, <1>9, <1>10, <1>11 DEF Advances, Local

LEMMA CheckedAdvances ==
  ASSUME TypeOK, NEW p \in Procs, Local(p), Checked(p)
  PROVE  Advances(p) /\ UNCHANGED tables
<1> DEFINE m == job[p].market
           u == job[p].user
<1>1. /\ pc[p] = "check"
      /\ ~CategoryTaken(u, m, at[p])
      /\ job[p].choice \in Options
      /\ Affordable(u)
      /\ bets[u][m] = NoBet
      /\ pc' = [pc EXCEPT ![p] = "commit"]
      /\ UNCHANGED <<now, tables, locks, job, copy, at, owed, want, read, list, snapshot,
                     missed>>
  BY DEF Checked
<1>2. UNCHANGED tables /\ UNCHANGED <<status, volume, bets, placed, points>>
  BY <1>1 DEF tables
<1>3. pc'[p] = "commit" /\ \A q \in Procs \ {p} : pc'[q] = pc[q]
  BY <1>1 DEF TypeOK
<1>4. TypeOK'
  <2>1. pc' \in [Procs -> PCs]
    BY <1>1 DEF TypeOK, PCs
  <2> QED BY <1>1, <2>1 DEF TypeOK, tables, locks
<1>5. \A q \in Procs \ {p} : Undisturbed(q)
  BY <1>1, <1>3 DEF Undisturbed, tables, locks
<1>6. job[p].op = "submit"
  BY <1>1 DEF Local, PlaceOK
<1>7. PlaceOK(p)'
  BY <1>1, <1>3, <1>6 DEF Local, PlaceOK, Holding
<1>8. MarketHeld(p)'
  BY <1>1, <1>2, <1>3, <1>6 DEF Local, MarketHeld, Holding, locks
<1>9. Moves(p)' = Moves(p)
  BY <1>1, <1>6 DEF Moves, Wallets
<1>10. WalletsHeld(p)'
  BY <1>1, <1>2, <1>3, <1>9 DEF Local, WalletsHeld, Holding, locks
<1>11. SubmissionOK(p)'
  BY <1>1, <1>2 DEF SubmissionOK, CategoryTaken, Affordable
<1>12. ListCurrent(p)' /\ Ascending(p)'
  BY <1>1, <1>3, <1>6 DEF ListCurrent, Ascending
<1> QED BY <1>2, <1>4, <1>5, <1>7, <1>8, <1>10, <1>11, <1>12 DEF Advances, Local

LEMMA LoadAdvances ==
  ASSUME TypeOK, NEW p \in Procs, Local(p), LoadPredictions(p)
  PROVE  Advances(p) /\ UNCHANGED tables
<1> DEFINE m == job[p].market
           W == {u \in Bettors(m) : bets[u][m].choice = job[p].choice}
           next == IF W = {} THEN "stats" ELSE "wallets"
<1>1. /\ pc[p] = "load"
      /\ list' = [list EXCEPT ![p] = Bettors(m)]
      /\ owed' = [owed EXCEPT ![p] = W]
      /\ want' = [want EXCEPT ![p] = IF W = {} THEN 0 ELSE Lowest(W)]
      /\ pc' = [pc EXCEPT ![p] = next]
      /\ UNCHANGED <<now, tables, locks, job, copy, at, read, snapshot, missed>>
  BY DEF LoadPredictions, LockNext
<1>2. UNCHANGED tables /\ UNCHANGED <<status, volume, bets, placed, points>>
      /\ UNCHANGED <<marketLock, userLock>>
  BY <1>1 DEF tables, locks
<1>3. /\ PlaceOK(p) /\ job[p].op = "resolve" /\ m \in Markets
      /\ \A u \in Users : userLock[u] # p
  BY <1>1, WorkingJob DEF Local, PlaceOK, MarketHeld
<1>4. W \subseteq Users /\ Bettors(m) \subseteq Users
  BY DEF Bettors
<1>5. W # {} => Lowest(W) \in W /\ \A y \in W : Lowest(W) <= y
  <2>1. W \subseteq Nat
    BY <1>4, ConstantsAssumption
  <2> HIDE DEF W
  <2> QED BY <2>1, LowestFacts
<1>6. /\ pc'[p] = next /\ owed'[p] = W /\ list'[p] = Bettors(m)
      /\ want'[p] = IF W = {} THEN 0 ELSE Lowest(W)
      /\ \A q \in Procs \ {p} :
           pc'[q] = pc[q] /\ owed'[q] = owed[q] /\ want'[q] = want[q] /\ list'[q] = list[q]
  <2> HIDE DEF W, m, next
  <2> QED BY <1>1 DEF TypeOK
<1>7. TypeOK'
  <2>1. (IF W = {} THEN 0 ELSE Lowest(W)) \in Users \cup {0} /\ next \in PCs
    BY <1>4, <1>5 DEF PCs
  <2>2. /\ pc' \in [Procs -> PCs] /\ owed' \in [Procs -> SUBSET Users]
        /\ want' \in [Procs -> Users \cup {0}] /\ list' \in [Procs -> SUBSET Users]
    <3> HIDE DEF W, m, next
    <3> QED BY <1>1, <1>4, <2>1 DEF TypeOK
  <2> QED BY <1>1, <2>2 DEF TypeOK, tables, locks
<1>8. \A q \in Procs \ {p} : Undisturbed(q)
  BY <1>1, <1>6 DEF Undisturbed, tables, locks
<1>9. job' = job /\ next \in {"stats", "wallets"}
  BY <1>1
<1>10. PlaceOK(p)'
  BY <1>1, <1>3, <1>6, <1>9 DEF PlaceOK, Holding
<1>11. MarketHeld(p)'
  BY <1>1, <1>2, <1>3, <1>6, <1>9 DEF Local, MarketHeld, Holding
<1>12. Bettors(m)' = Bettors(m)
  BY <1>2, <1>9 DEF Bettors
<1>13. ListCurrent(p)'
  BY <1>6, <1>9, <1>12 DEF ListCurrent
<1>14. Moves(p)' = W
  BY <1>2, <1>3, <1>6, <1>9 DEF Moves, Winners
<1>15. WalletsHeld(p)'
  BY <1>6, <1>14 DEF WalletsHeld
<1>16. Ascending(p)'
  BY <1>2, <1>3, <1>5, <1>6, <1>14 DEF Ascending
<1>17. SubmissionOK(p)'
  BY <1>3, <1>9 DEF SubmissionOK
<1> QED BY <1>2, <1>7, <1>8, <1>10, <1>11, <1>13, <1>15, <1>16, <1>17 DEF Advances, Local

LEMMA LockWalletAdvances ==
  ASSUME TypeOK, NEW p \in Procs, Local(p), LockWallet(p)
  PROVE  Advances(p) /\ UNCHANGED tables
<1> DEFINE w == want[p]
           rest == owed[p] \ {w}
           next == IF job[p].op = "submit" THEN "check" ELSE "stats"
           place == IF rest = {} THEN next ELSE "wallets"
<1>1. /\ pc[p] = "wallets" /\ w # 0
      /\ Free(userLock[w], p)
      /\ userLock' = [userLock EXCEPT ![w] = p]
      /\ read' = [read EXCEPT ![p][w] = points[w]]
      /\ owed' = [owed EXCEPT ![p] = rest]
      /\ want' = [want EXCEPT ![p] = IF rest = {} THEN 0 ELSE Lowest(rest)]
      /\ pc' = [pc EXCEPT ![p] = place]
      /\ UNCHANGED <<now, tables, marketLock, job, copy, at, list, snapshot, missed>>
  BY DEF LockWallet, LockUser, LockNext
<1>2. UNCHANGED tables /\ UNCHANGED <<status, volume, bets, placed, points>>
  BY <1>1 DEF tables
<1>3. w \in Users /\ w \in Nat /\ owed[p] \subseteq Users /\ rest \subseteq Nat
  BY <1>1, ConstantsAssumption DEF TypeOK
<1>4. rest # {} => Lowest(rest) \in rest /\ \A y \in rest : Lowest(rest) <= y
  <2> HIDE DEF rest
  <2> QED BY <1>3, LowestFacts
<1>5. /\ pc'[p] = place /\ owed'[p] = rest
      /\ want'[p] = IF rest = {} THEN 0 ELSE Lowest(rest)
      /\ \A q \in Procs \ {p} :
           pc'[q] = pc[q] /\ owed'[q] = owed[q] /\ want'[q] = want[q] /\ read'[q] = read[q]
  <2> HIDE DEF rest, place
  <2> QED BY <1>1 DEF TypeOK
<1>6. /\ userLock'[w] = p /\ read'[p][w] = points[w]
      /\ \A u \in Users \ {w} : userLock'[u] = userLock[u] /\ read'[p][u] = read[p][u]
  BY <1>1, <1>3 DEF TypeOK
<1>7. /\ place \in {"check", "stats", "wallets"} /\ next \in {"check", "stats"}
      /\ place = "wallets" => rest # {}
      /\ rest # {} => place = "wallets"
      /\ place = "check" => job[p].op = "submit"
      /\ place = "stats" => job[p].op # "submit"
  OBVIOUS
<1>8. TypeOK'
  <2>1. (IF rest = {} THEN 0 ELSE Lowest(rest)) \in Users \cup {0} /\ place \in PCs
    BY <1>3, <1>4, <1>7 DEF PCs
  <2>2. /\ pc' \in [Procs -> PCs] /\ owed' \in [Procs -> SUBSET Users]
        /\ want' \in [Procs -> Users \cup {0}]
    <3>1. rest \in SUBSET Users
      BY <1>3
    <3> HIDE DEF rest, place
    <3> QED BY <1>1, <2>1, <3>1 DEF TypeOK
  <2>3. /\ userLock' \in [Users -> Procs \cup {NoProc}]
        /\ read' \in [Procs -> [Users -> Nat]]
    BY <1>1, <1>3 DEF TypeOK
  <2> QED BY <1>1, <2>2, <2>3 DEF TypeOK, tables
<1>9. \A q \in Procs \ {p} : Undisturbed(q)
  <2>1. \A q \in Procs : q # NoProc
    BY ConstantsAssumption
  <2>2. \A q \in Procs \ {p} : \A u \in Users : userLock'[u] = q <=> userLock[u] = q
    BY <1>1, <1>6, <2>1 DEF Free
  <2> QED BY <1>1, <1>5, <2>2 DEF Undisturbed, tables
<1>10. /\ PlaceOK(p) /\ MarketHeld(p) /\ ListCurrent(p) /\ WalletsHeld(p) /\ Ascending(p)
       /\ job' = job
  BY <1>1 DEF Local
<1>11. PlaceOK(p)'
  BY <1>1, <1>5, <1>7, <1>10 DEF PlaceOK, Holding
<1>12. MarketHeld(p)'
  BY <1>1, <1>2, <1>5, <1>7, <1>10 DEF MarketHeld, Holding
<1>13. ListCurrent(p)'
  BY <1>1, <1>2, <1>5, <1>7, <1>10 DEF ListCurrent, Bettors, Holding
<1>14. Moves(p)' = Moves(p)
  BY <1>1, <1>2 DEF Moves, Winners, Wallets
<1>15. WalletsHeld(p)'
  <2> SUFFICES ASSUME NEW u \in Moves(p), ~(place = "wallets" /\ u \in rest)
               PROVE  userLock'[u] = p /\ read'[p][u] = points[u]
    BY <1>2, <1>5, <1>14 DEF WalletsHeld
  <2>1. CASE u = w
    BY <1>6, <2>1
  <2>2. CASE u # w
    <3>1. u \notin owed[p]
      BY <1>7, <2>2
    <3>2. userLock[u] = p /\ read[p][u] = points[u]
      BY <1>1, <1>10, <3>1 DEF WalletsHeld, Holding
    <3>3. u \in Users
      BY <3>2, <1>1, <1>10, WorkingJob, WalletsFacts DEF Moves, Winners, TypeOK
    <3> QED BY <1>6, <2>2, <3>2, <3>3
  <2> QED BY <2>1, <2>2
<1>16. Ascending(p)'
  <2> SUFFICES ASSUME place = "wallets"
               PROVE  /\ want'[p] \in rest
                      /\ rest \subseteq Moves(p)
                      /\ \A y \in rest :
                           /\ want'[p] <= y
                           /\ \A u \in Users : userLock'[u] = p => u < y
    BY <1>5, <1>14 DEF Ascending
  <2>1. /\ owed[p] \subseteq Moves(p)
        /\ \A y \in owed[p] : w <= y /\ \A u \in Users : userLock[u] = p => u < y
    BY <1>1, <1>10 DEF Ascending
  <2>2. \A y \in rest : w < y
    BY <1>3, <2>1
  <2>3. \A y \in rest : \A u \in Users : userLock'[u] = p => u < y
    BY <1>6, <2>1, <2>2
  <2> QED BY <1>4, <1>5, <1>7, <2>1, <2>3
<1>17. SubmissionOK(p)'
  BY <1>5, <1>7 DEF SubmissionOK
<1> QED BY <1>2, <1>8, <1>9, <1>11, <1>12, <1>13, <1>15, <1>16, <1>17 DEF Advances, Local

LEMMA BeginStatsAdvances ==
  ASSUME TypeOK, NEW p \in Procs, Local(p), BeginStats(p)
  PROVE  Advances(p) /\ UNCHANGED tables
<1>1. /\ pc[p] = "stats"
      /\ snapshot' = [snapshot EXCEPT ![p] = [u \in Users |-> StatsSeen(p, u)]]
      /\ owed' = [owed EXCEPT ![p] = list[p]]
      /\ \/ pc' = [pc EXCEPT ![p] = "commit"] /\ UNCHANGED want
         \/ /\ pc' = [pc EXCEPT ![p] = "rows"]
            /\ \E u \in list[p] : want' = [want EXCEPT ![p] = u]
      /\ missed' = [missed EXCEPT ![p] = {}]
      /\ UNCHANGED <<now, tables, locks, job, copy, at, read, list>>
  BY DEF BeginStats
<1>2. UNCHANGED tables /\ UNCHANGED <<status, volume, bets, placed, points>>
      /\ UNCHANGED <<marketLock, userLock>>
  BY <1>1 DEF tables, locks
<1>3. /\ pc'[p] \in {"commit", "rows"}
      /\ pc'[p] = "commit" => want'[p] = want[p]
      /\ \A q \in Procs \ {p} :
           /\ pc'[q] = pc[q] /\ owed'[q] = owed[q] /\ want'[q] = want[q]
           /\ snapshot'[q] = snapshot[q]
  BY <1>1 DEF TypeOK
<1>4. TypeOK'
  <2>1. [u \in Users |-> StatsSeen(p, u)] \in [Users -> Stat]
    BY FiguresType DEF StatsSeen
  <2>2. snapshot' \in [Procs -> [Users -> Stat]]
    <3>1. \A f \in [Users -> Stat] :
            [snapshot EXCEPT ![p] = f] \in [Procs -> [Users -> Stat]]
      BY DEF TypeOK
    <3> QED BY <1>1, <2>1, <3>1
  <2>3. owed' \in [Procs -> SUBSET Users]
    BY <1>1 DEF TypeOK
  <2>4. pc' \in [Procs -> PCs]
    BY <1>1 DEF TypeOK, PCs
  <2>5. want' \in [Procs -> Users \cup {0}]
    <3>1. CASE want' = want
      BY <3>1 DEF TypeOK
    <3>2. ASSUME NEW u \in list[p], want' = [want EXCEPT ![p] = u]
          PROVE  want' \in [Procs -> Users \cup {0}]
      BY <3>2 DEF TypeOK
    <3> QED BY <1>1, <3>1, <3>2
  <2>6. missed' \in [Procs -> SUBSET Users]
    BY <1>1 DEF TypeOK
  <2> QED BY <1>1, <2>2, <2>3, <2>4, <2>5, <2>6 DEF TypeOK, tables, locks
<1>5. \A q \in Procs \ {p} : Undisturbed(q)
  BY <1>1, <1>3 DEF Undisturbed, tables, locks
<1>6. /\ PlaceOK(p) /\ MarketHeld(p) /\ ListCurrent(p) /\ WalletsHeld(p)
      /\ job' = job /\ job[p].op = "resolve" /\ want[p] = 0
  BY <1>1 DEF Local, PlaceOK
<1>7. PlaceOK(p)'
  BY <1>1, <1>3, <1>6 DEF PlaceOK, Holding
<1>8. MarketHeld(p)'
  BY <1>1, <1>2, <1>3, <1>6 DEF MarketHeld, Holding
<1>9. ListCurrent(p)'
  BY <1>1, <1>2, <1>3, <1>6 DEF ListCurrent, Bettors, Holding
<1>10. Moves(p)' = Moves(p)
  BY <1>1, <1>2, <1>6 DEF Moves, Winners
<1>11. WalletsHeld(p)'
  BY <1>1, <1>2, <1>3, <1>6, <1>10 DEF WalletsHeld, Holding
<1>12. SubmissionOK(p)' /\ Ascending(p)'
  BY <1>3, <1>6 DEF SubmissionOK, Ascending
<1> QED BY <1>2, <1>4, <1>5, <1>7, <1>8, <1>9, <1>11, <1>12 DEF Advances, Local

LEMMA LockRowAdvances ==
  ASSUME TypeOK, NEW p \in Procs, Local(p), LockRow(p)
  PROVE  Advances(p) /\ UNCHANGED tables
<1> DEFINE w == want[p]
           rest == owed[p] \ {w}
<1>1. /\ pc[p] = "rows" /\ w # 0
      /\ Free(userLock[w], p)
      /\ userLock' = [userLock EXCEPT ![w] = p]
      /\ owed' = [owed EXCEPT ![p] = rest]
      /\ \/ pc' = [pc EXCEPT ![p] = "commit"] /\ want' = [want EXCEPT ![p] = 0]
         \/ UNCHANGED pc /\ \E u \in rest : want' = [want EXCEPT ![p] = u]
      /\ UNCHANGED <<now, tables, marketLock, job, copy, at, read, list, snapshot, missed>>
  BY DEF LockRow
<1>2. UNCHANGED tables /\ UNCHANGED <<status, volume, bets, placed, points>>
  BY <1>1 DEF tables
<1>3. w \in Users /\ owed[p] \subseteq Users
  BY <1>1 DEF TypeOK
<1>4. /\ pc'[p] \in {"commit", "rows"}
      /\ pc'[p] = "commit" => want'[p] = 0
      /\ \A q \in Procs \ {p} :
           pc'[q] = pc[q] /\ owed'[q] = owed[q] /\ want'[q] = want[q]
  BY <1>1 DEF TypeOK
<1>5. userLock'[w] = p /\ \A u \in Users \ {w} : userLock'[u] = userLock[u]
  BY <1>1, <1>3 DEF TypeOK
<1>6. TypeOK'
  <2>1. pc' \in [Procs -> PCs]
    BY <1>1 DEF TypeOK, PCs
  <2>2. owed' \in [Procs -> SUBSET Users]
    BY <1>1 DEF TypeOK
  <2>3. want' \in [Procs -> Users \cup {0}]
    BY <1>1, <1>3 DEF TypeOK
  <2>4. userLock' \in [Users -> Procs \cup {NoProc}]
    BY <1>1 DEF TypeOK
  <2> QED BY <1>1, <2>1, <2>2, <2>3, <2>4 DEF TypeOK, tables
<1>7. \A q \in Procs \ {p} : Undisturbed(q)
  <2>1. \A q \in Procs : q # NoProc
    BY ConstantsAssumption
  <2>2. \A q \in Procs \ {p} : \A u \in Users : userLock'[u] = q <=> userLock[u] = q
    BY <1>1, <1>5, <2>1 DEF Free
  <2> QED BY <1>1, <1>4, <2>2 DEF Undisturbed, tables
<1>8. /\ PlaceOK(p) /\ MarketHeld(p) /\ ListCurrent(p) /\ WalletsHeld(p)
      /\ job' = job /\ job[p].op = "resolve"
  BY <1>1 DEF Local, PlaceOK
<1>9. PlaceOK(p)'
  BY <1>1, <1>4, <1>8 DEF PlaceOK, Holding
<1>10. MarketHeld(p)'
  BY <1>1, <1>2, <1>4, <1>8 DEF MarketHeld, Holding
<1>11. ListCurrent(p)'
  BY <1>1, <1>2, <1>4, <1>8 DEF ListCurrent, Bettors, Holding
<1>12. Moves(p)' = Moves(p) /\ Moves(p) \subseteq Users
  BY <1>1, <1>2, <1>8 DEF Moves, Winners, TypeOK
<1>13. WalletsHeld(p)'
  BY <1>1, <1>2, <1>4, <1>5, <1>8, <1>12 DEF WalletsHeld, Holding
<1>14. SubmissionOK(p)' /\ Ascending(p)'
  BY <1>4, <1>8 DEF SubmissionOK, Ascending
<1> QED BY <1>2, <1>6, <1>7, <1>9, <1>10, <1>11, <1>13, <1>14 DEF Advances, Local

LEMMA PrepareAdvances ==
  ASSUME TypeOK, NEW p \in Procs, Local(p), Prepare(p)
  PROVE  Advances(p) /\ UNCHANGED tables
BY TookForSubmitAdvances, TookForResolveAdvances, LoadAdvances, LockWalletAdvances,
   CheckedAdvances, BeginStatsAdvances, LockRowAdvances
   DEF Prepare

-----------------------------------------------------------------------------
(* The commits: what they find under their locks, and what they write. *)

LEMMA StatusFacts ==
  ASSUME MarketInv, NEW p \in Procs, UpdateStatus(p), NEW m, m = job[p].market
  PROVE  /\ m \in Markets /\ marketLock[m] = NoProc
         /\ End(p)
         /\ UNCHANGED <<now, correct, volume, bets, placed, points, stakes, wins, stats,
                        missed, outdated>>
         /\ \/ status' = status
            \/ \E s \in Statuses : /\ <<status[m], s>> \in Promise!Edges
                                   /\ status' = [status EXCEPT ![m] = s]
<1>1. /\ pc[p] = "update" /\ Free(marketLock[m], p)
      /\ \/ status' = status
         \/ status[m] = job[p].from /\ status' = [status EXCEPT ![m] = job[p].to]
      /\ End(p)
      /\ UNCHANGED <<now, correct, volume, bets, placed, points, stakes, wins, stats,
                     missed, outdated>>
  BY DEF UpdateStatus, StillIn
<1>2. PlaceOK(p) /\ MarketHeld(p)
  BY DEF MarketInv, Local
<1>3. /\ m \in Markets /\ job[p].to \in Statuses
      /\ <<job[p].from, job[p].to>> \in Promise!Edges
  BY <1>1, <1>2, WorkingJob DEF PlaceOK
<1>4. marketLock[m] = NoProc
  BY <1>1, <1>2, <1>3 DEF MarketHeld, Holding, Free
<1> QED BY <1>1, <1>3, <1>4

(* A submission of process p commits. *)
Submitted(p, u, m, o) ==
  /\ u = job[p].user /\ m = job[p].market
  /\ marketLock[m] = p /\ userLock[u] = p
  /\ status[m] \in {"Open", "Live"} /\ bets[u][m] = NoBet
  /\ ~CategoryTaken(u, m, at[p]) /\ points[u] >= Stake
  /\ bets' = [bets EXCEPT ![u][m] = [choice |-> o, grade |-> "open"]]
  /\ placed' = [placed EXCEPT ![u][m] = at[p]]
  /\ points' = [points EXCEPT ![u] = points[u] - Stake]
  /\ stakes' = [stakes EXCEPT ![u][m] = @ + 1]
  /\ volume' = [volume EXCEPT ![m] = @ + 1]
  /\ End(p)
  /\ UNCHANGED <<now, status, correct, wins, stats, missed, outdated>>

(* A resolution of process p commits. *)
Wins(u, m, o) == bets[u][m] # NoBet /\ bets[u][m].choice = o

Resolved(p, m, o) ==
  /\ m = job[p].market /\ o = job[p].choice /\ pc[p] = "commit" /\ job[p].op = "resolve"
  /\ marketLock[m] = p /\ list[p] = Bettors(m)
  /\ status[m] \in {"Locked", "Awaiting Resolution"}
  /\ \A u \in Users : Wins(u, m, o) => userLock[u] = p
  /\ bets' = [u \in Users |->
               IF bets[u][m] # NoBet THEN [bets[u] EXCEPT ![m] = GradedFor(@, o)] ELSE bets[u]]
  /\ wins' = [u \in Users |-> IF Wins(u, m, o) THEN [wins[u] EXCEPT ![m] = @ + 1] ELSE wins[u]]
  /\ points' = [u \in Users |-> IF Wins(u, m, o) THEN points[u] + Payout[m] ELSE points[u]]
  /\ stats' = [u \in Users |-> IF bets[u][m] # NoBet THEN snapshot[p][u] ELSE stats[u]]
  /\ missed' = [q \in Procs |-> IF q # p /\ Storing(q) THEN missed[q] \cup list[p] ELSE {}]
  /\ outdated' = (outdated \ list[p]) \cup (list[p] \cap missed[p])
  /\ status' = [status EXCEPT ![m] = "Resolved"]
  /\ correct' = [correct EXCEPT ![m] = o]
  /\ volume' = [volume EXCEPT ![m] = volume[m]]
  /\ End(p)
  /\ UNCHANGED <<now, placed, stakes>>

LEMMA SubmissionFacts ==
  ASSUME MarketInv, NEW p \in Procs, CommitSubmission(p)
  PROVE  \E u \in Users, m \in Markets, o \in Options : Submitted(p, u, m, o)
<1> DEFINE u == job[p].user
           m == job[p].market
           o == job[p].choice
<1>1. /\ pc[p] = "commit" /\ job[p].op = "submit"
      /\ bets' = [bets EXCEPT ![u][m] = [choice |-> o, grade |-> "open"]]
      /\ placed' = [placed EXCEPT ![u][m] = at[p]]
      /\ points' = [points EXCEPT ![u] = read[p][u] - Stake]
      /\ stakes' = [stakes EXCEPT ![u][m] = @ + 1]
      /\ volume' = [volume EXCEPT ![m] = @ + 1]
      /\ End(p)
      /\ UNCHANGED <<now, status, correct, wins, stats, missed, outdated>>
  BY DEF CommitSubmission
<1>2. PlaceOK(p) /\ MarketHeld(p) /\ WalletsHeld(p) /\ SubmissionOK(p)
  BY DEF MarketInv, Local
<1>3. u \in Users /\ m \in Markets
  BY <1>1, <1>2, WorkingJob
<1>4. /\ ~CategoryTaken(u, m, at[p]) /\ o \in Options /\ points[u] >= Stake
      /\ bets[u][m] = NoBet
  BY <1>1, <1>2 DEF SubmissionOK, Affordable
<1>5. marketLock[m] = p /\ status[m] \in {"Open", "Live"}
  BY <1>1, <1>2, <1>3 DEF MarketHeld, Holding
<1>6. u \in Moves(p)
  BY <1>1, <1>3, WalletsFacts DEF Moves
<1>7. userLock[u] = p /\ read[p][u] = points[u]
  BY <1>1, <1>2, <1>6 DEF WalletsHeld, Holding
<1>8. Submitted(p, u, m, o)
  BY <1>1, <1>4, <1>5, <1>7 DEF Submitted
<1> QED BY <1>3, <1>4, <1>8

LEMMA ResolutionFacts ==
  ASSUME MarketInv, NEW p \in Procs, CommitResolution(p)
  PROVE  \E m \in Markets, o \in Options : Resolved(p, m, o)
<1> DEFINE m == job[p].market
           o == job[p].choice
<1>1. /\ pc[p] = "commit" /\ job[p].op = "resolve"
      /\ bets' = [u \in Users |-> IF u \in list[p] THEN SeenBy(p, u) ELSE bets[u]]
      /\ wins' = [u \in Users |-> IF u \in Winners(p)
                                    THEN [wins[u] EXCEPT ![m] = @ + 1] ELSE wins[u]]
      /\ points' = [u \in Users |-> IF u \in Winners(p)
                                      THEN read[p][u] + Payout[m] ELSE points[u]]
      /\ stats' = [u \in Users |-> IF u \in list[p] THEN snapshot[p][u] ELSE stats[u]]
      /\ missed' = [q \in Procs |-> IF q # p /\ Storing(q) THEN missed[q] \cup list[p] ELSE {}]
      /\ outdated' = (outdated \ list[p]) \cup (list[p] \cap missed[p])
      /\ status' = [status EXCEPT ![m] = "Resolved"]
      /\ correct' = [correct EXCEPT ![m] = o]
      /\ volume' = [volume EXCEPT ![m] = copy[p]]
      /\ End(p)
      /\ UNCHANGED <<now, placed, stakes>>
  BY DEF CommitResolution
<1>2. PlaceOK(p) /\ MarketHeld(p) /\ ListCurrent(p) /\ WalletsHeld(p)
  BY DEF MarketInv, Local
<1>3. m \in Markets /\ o \in Options
  BY <1>1, <1>2, WorkingJob DEF PlaceOK, Holding
<1>4. /\ marketLock[m] = p /\ copy[p] = volume[m]
      /\ status[m] \in {"Locked", "Awaiting Resolution"}
  BY <1>1, <1>2, <1>3 DEF MarketHeld, Holding
<1>5. list[p] = Bettors(m)
  BY <1>1, <1>2 DEF ListCurrent, Holding
<1>6. \A u \in Users : u \in list[p] <=> bets[u][m] # NoBet
  BY <1>5 DEF Bettors
<1>7. \A u \in Users : u \in Winners(p) <=> Wins(u, m, o)
  BY <1>6 DEF Winners, Wins
<1>8. Winners(p) = Moves(p)
  BY <1>1 DEF Moves
<1>9. \A u \in Users : u \in Winners(p) => userLock[u] = p /\ read[p][u] = points[u]
  BY <1>1, <1>2, <1>8 DEF WalletsHeld, Holding
<1>10. bets' = [u \in Users |->
                  IF bets[u][m] # NoBet THEN [bets[u] EXCEPT ![m] = GradedFor(@, o)]
                                        ELSE bets[u]]
  <2>1. \A u \in Users : u \in list[p] => SeenBy(p, u) = [bets[u] EXCEPT ![m] = GradedFor(@, o)]
    BY Zenon DEF SeenBy
  <2> QED BY <1>1, <1>6, <2>1, Zenon
<1>11. points' = [u \in Users |->
                   IF Wins(u, m, o)
                     THEN points[u] + Payout[m] ELSE points[u]]
  BY <1>1, <1>7, <1>9, Zenon
<1>12. wins' = [u \in Users |->
                 IF Wins(u, m, o)
                   THEN [wins[u] EXCEPT ![m] = @ + 1] ELSE wins[u]]
  BY <1>1, <1>7, Zenon
<1>13. stats' = [u \in Users |-> IF bets[u][m] # NoBet THEN snapshot[p][u] ELSE stats[u]]
  BY <1>1, <1>6, Zenon
<1>14. \A u \in Users : Wins(u, m, o) => userLock[u] = p
  BY <1>7, <1>9
<1>15. Resolved(p, m, o)
  BY <1>1, <1>4, <1>5, <1>10, <1>11, <1>12, <1>13, <1>14, Zenon DEF Resolved
<1> QED BY <1>3, <1>15

-----------------------------------------------------------------------------
(* Commits leave the others' rows alone. *)

LEMMA SubmissionAdvances ==
  ASSUME MarketInv, NEW p \in Procs,
         NEW u \in Users, NEW m \in Markets, NEW o \in Options, Submitted(p, u, m, o)
  PROVE  Advances(p)
<1> DEFINE b == [choice |-> o, grade |-> "open"]
<1>0. TypeOK
  BY DEF MarketInv
<1>1. /\ marketLock[m] = p /\ userLock[u] = p
      /\ points[u] >= Stake
      /\ bets' = [bets EXCEPT ![u][m] = b]
      /\ placed' = [placed EXCEPT ![u][m] = at[p]]
      /\ points' = [points EXCEPT ![u] = points[u] - Stake]
      /\ stakes' = [stakes EXCEPT ![u][m] = @ + 1]
      /\ volume' = [volume EXCEPT ![m] = @ + 1]
      /\ End(p)
      /\ UNCHANGED <<now, status, correct, wins, stats, missed, outdated>>
  BY DEF Submitted
<1>2. Local(p)'
  BY <1>0, <1>1, EndLocal
<1>3. b \in Bet
  BY <1>1 DEF Bet
<1> HIDE DEF b
<1>4. /\ bets' \in [Users -> [Markets -> Bet \cup {NoBet}]]
      /\ \A v \in Users, k \in Markets : v # u \/ k # m => bets'[v][k] = bets[v][k]
  BY <1>0, <1>1, <1>3 DEF TypeOK
<1>5. /\ placed' \in [Users -> [Markets -> Nat]] /\ stakes' \in [Users -> [Markets -> Nat]]
      /\ \A v \in Users : v # u => placed'[v] = placed[v]
  BY <1>0, <1>1 DEF TypeOK
<1>6. /\ points' \in [Users -> Nat] /\ volume' \in [Markets -> Nat]
      /\ \A v \in Users : v # u => points'[v] = points[v]
      /\ \A k \in Markets : k # m => volume'[k] = volume[k]
  <2>1. points[u] - Stake \in Nat
    BY <1>0, <1>1, ConstantsAssumption DEF TypeOK
  <2> QED BY <1>0, <1>1, <2>1 DEF TypeOK
<1>7. TypeOK'
  BY <1>0, <1>1, <1>4, <1>5, <1>6, EndFacts DEF TypeOK
<1>8. ASSUME NEW q \in Procs \ {p}
      PROVE  Undisturbed(q)
  <2>1. /\ \A k \in Markets : marketLock[k] = q => k # m
        /\ \A v \in Users : userLock[v] = q => v # u
    BY <1>1
  <2>2. \A k \in Markets : marketLock[k] = q =>
          /\ status'[k] = status[k] /\ volume'[k] = volume[k]
          /\ \A v \in Users : bets'[v][k] = bets[v][k]
    BY <1>1, <1>4, <1>6, <2>1
  <2>3. \A v \in Users : userLock[v] = q =>
          /\ points'[v] = points[v] /\ placed'[v] = placed[v]
          /\ \A k \in Markets : bets'[v][k] = NoBet <=> bets[v][k] = NoBet
    BY <1>4, <1>5, <1>6, <2>1
  <2> QED BY <1>0, <1>1, <2>2, <2>3, EndFacts DEF Undisturbed
<1> QED BY <1>2, <1>7, <1>8 DEF Advances

LEMMA ResolutionAdvances ==
  ASSUME MarketInv, NEW p \in Procs, NEW m \in Markets, NEW o \in Options, Resolved(p, m, o)
  PROVE  Advances(p)
<1>0. TypeOK
  BY DEF MarketInv
<1>1. /\ marketLock[m] = p
      /\ \A u \in Users : Wins(u, m, o) => userLock[u] = p
      /\ bets' = [u \in Users |->
                   IF bets[u][m] # NoBet THEN [bets[u] EXCEPT ![m] = GradedFor(@, o)]
                                         ELSE bets[u]]
      /\ wins' = [u \in Users |->
                   IF Wins(u, m, o) THEN [wins[u] EXCEPT ![m] = @ + 1] ELSE wins[u]]
      /\ points' = [u \in Users |-> IF Wins(u, m, o) THEN points[u] + Payout[m] ELSE points[u]]
      /\ stats' = [u \in Users |-> IF bets[u][m] # NoBet THEN snapshot[p][u] ELSE stats[u]]
      /\ missed' = [q \in Procs |-> IF q # p /\ Storing(q) THEN missed[q] \cup list[p] ELSE {}]
      /\ outdated' = (outdated \ list[p]) \cup (list[p] \cap missed[p])
      /\ status' = [status EXCEPT ![m] = "Resolved"]
      /\ correct' = [correct EXCEPT ![m] = o]
      /\ volume' = [volume EXCEPT ![m] = volume[m]]
      /\ End(p)
      /\ UNCHANGED <<now, placed, stakes>>
  BY DEF Resolved
<1>2. Local(p)'
  BY <1>0, <1>1, EndLocal
<1>3. \A u \in Users : bets[u][m] # NoBet =>
        GradedFor(bets[u][m], o) \in Bet /\ GradedFor(bets[u][m], o) # NoBet
  BY <1>0, <1>1, GradedBet DEF TypeOK
<1>4. bets' \in [Users -> [Markets -> Bet \cup {NoBet}]]
  BY <1>0, <1>1, <1>3 DEF TypeOK
<1>5. \A u \in Users, k \in Markets :
        /\ k # m => bets'[u][k] = bets[u][k]
        /\ bets'[u][k] = NoBet <=> bets[u][k] = NoBet
  BY <1>0, <1>1, <1>3 DEF TypeOK
<1>6. wins' \in [Users -> [Markets -> Nat]]
  BY <1>0, <1>1 DEF TypeOK
<1>7. points' \in [Users -> Nat] /\ \A u \in Users : ~Wins(u, m, o) => points'[u] = points[u]
  <2>1. Payout[m] \in Nat
    BY ConstantsAssumption
  <2>2. \A u \in Users : points[u] + Payout[m] \in Nat
    BY <1>0, <2>1 DEF TypeOK
  <2> QED BY <1>0, <1>1, <2>2 DEF TypeOK
<1>8. stats' \in [Users -> Stat]
  BY <1>0, <1>1 DEF TypeOK
<1>9. /\ status' \in [Markets -> Statuses] /\ correct' \in [Markets -> Options \cup {"none"}]
      /\ volume' = volume
      /\ \A k \in Markets : k # m => status'[k] = status[k]
  BY <1>0, <1>1 DEF TypeOK, Statuses
<1>10. TypeOK'
  BY <1>0, <1>1, <1>4, <1>6, <1>7, <1>8, <1>9, EndFacts DEF TypeOK
<1>11. ASSUME NEW q \in Procs \ {p}
       PROVE  Undisturbed(q)
  <2>1. /\ \A k \in Markets : marketLock[k] = q => k # m
        /\ \A v \in Users : userLock[v] = q => ~Wins(v, m, o)
    BY <1>1
  <2>2. \A k \in Markets : marketLock[k] = q =>
          /\ status'[k] = status[k] /\ volume'[k] = volume[k]
          /\ \A v \in Users : bets'[v][k] = bets[v][k]
    BY <1>5, <1>9, <2>1
  <2>3. \A v \in Users : userLock[v] = q =>
          /\ points'[v] = points[v] /\ placed'[v] = placed[v]
          /\ \A k \in Markets : bets'[v][k] = NoBet <=> bets[v][k] = NoBet
    BY <1>1, <1>5, <1>7, <2>1
  <2> QED BY <1>0, <1>1, <2>2, <2>3, EndFacts DEF Undisturbed
<1> QED BY <1>2, <1>10, <1>11 DEF Advances

LEMMA StatusAdvances ==
  ASSUME MarketInv, NEW p \in Procs, UpdateStatus(p)
  PROVE  Advances(p)
<1> DEFINE m == job[p].market
<1>0. TypeOK
  BY DEF MarketInv
<1>1. /\ m \in Markets /\ marketLock[m] = NoProc /\ End(p)
      /\ UNCHANGED <<now, correct, volume, bets, placed, points, stakes, wins, stats,
                     missed, outdated>>
      /\ \/ status' = status
         \/ \E s \in Statuses : status' = [status EXCEPT ![m] = s]
  BY StatusFacts
<1>2. Local(p)'
  BY <1>0, <1>1, EndLocal
<1> HIDE DEF m
<1>3. /\ status' \in [Markets -> Statuses]
      /\ \A k \in Markets : k # m => status'[k] = status[k]
  BY <1>0, <1>1 DEF TypeOK
<1>4. TypeOK'
  BY <1>0, <1>1, <1>3, EndFacts DEF TypeOK
<1>5. ASSUME NEW q \in Procs \ {p}
      PROVE  Undisturbed(q)
  <2>1. \A k \in Markets : marketLock[k] = q => k # m
    BY <1>1, ConstantsAssumption
  <2> QED BY <1>0, <1>1, <1>3, <2>1, EndFacts DEF Undisturbed
<1> QED BY <1>2, <1>4, <1>5 DEF Advances

LEMMA CreateUndisturbed ==
  ASSUME MarketInv, NEW m \in Markets, NEW s \in {"Draft", "Scheduled", "Live", "Proposed"},
         CreateMarket(m, s)
  PROVE  TypeOK' /\ \A q \in Procs : Undisturbed(q)
<1>1. /\ status[m] = "None" /\ status' = [status EXCEPT ![m] = s]
      /\ UNCHANGED <<now, correct, volume, bets, placed, points, stakes, wins, stats,
                     outdated, locks, pc, job, memory>>
  BY DEF CreateMarket
<1>2. TypeOK
  BY DEF MarketInv
<1>3. status' \in [Markets -> Statuses] /\ \A k \in Markets : k # m => status'[k] = status[k]
  BY <1>1, <1>2 DEF TypeOK, Statuses
<1>4. TypeOK'
  BY <1>1, <1>2, <1>3 DEF TypeOK, locks, memory
<1>5. ASSUME NEW q \in Procs
      PROVE  Undisturbed(q)
  <2>1. PlaceOK(q) /\ MarketHeld(q)
    BY DEF MarketInv, Local
  <2>2. \A k \in Markets : marketLock[k] = q => k # m
    BY <1>1, <2>1 DEF MarketHeld, PlaceOK, Job, Holding
  <2> QED BY <1>1, <1>3, <2>2 DEF Undisturbed, locks, memory
<1> QED BY <1>4, <1>5

-----------------------------------------------------------------------------
(* The tables stay consistent. *)

LEMMA StatusKeepsTables ==
  ASSUME TypeOK, TablesOK, UNCHANGED <<volume, bets, placed, stakes, wins>>,
         \A m \in Markets :
           status[m] \in {"Resolved", "Archived"} => status'[m] \in {"Resolved", "Archived"}
  PROVE  TablesOK'
<1>1. GradedLate'
  BY DEF TablesOK, GradedLate
<1>2. StakesAndWinsOnce'
  BY DEF TablesOK, StakesAndWinsOnce
<1>3. VolumeOK'
  BY DEF TablesOK, VolumeOK, Bettors
<1>4. OneBetPerCategoryADay'
  BY DEF TablesOK, OneBetPerCategoryADay
<1> QED BY <1>1, <1>2, <1>3, <1>4 DEF TablesOK

LEMMA SubmissionKeepsTables ==
  ASSUME MarketInv, NEW p \in Procs,
         NEW u \in Users, NEW m \in Markets, NEW o \in Options, Submitted(p, u, m, o)
  PROVE  TablesOK'
<1> DEFINE b == [choice |-> o, grade |-> "open"]
<1>0. TypeOK /\ GradedLate /\ StakesAndWinsOnce /\ VolumeOK /\ OneBetPerCategoryADay
  BY DEF MarketInv
<1>1. /\ bets[u][m] = NoBet
      /\ ~CategoryTaken(u, m, at[p])
      /\ bets' = [bets EXCEPT ![u][m] = b]
      /\ placed' = [placed EXCEPT ![u][m] = at[p]]
      /\ stakes' = [stakes EXCEPT ![u][m] = @ + 1]
      /\ volume' = [volume EXCEPT ![m] = @ + 1]
      /\ UNCHANGED <<status, wins>>
  BY DEF Submitted
<1>2. b # NoBet /\ b.grade = "open"
  BY DEF NoBet
<1> HIDE DEF b
<1>3. /\ bets'[u][m] = b
      /\ \A v \in Users, k \in Markets : v # u \/ k # m => bets'[v][k] = bets[v][k]
  BY <1>0, <1>1 DEF TypeOK
<1>4. /\ placed'[u][m] = at[p] /\ stakes'[u][m] = stakes[u][m] + 1
      /\ \A v \in Users, k \in Markets : v # u \/ k # m =>
           placed'[v][k] = placed[v][k] /\ stakes'[v][k] = stakes[v][k]
  BY <1>0, <1>1 DEF TypeOK
<1>5. GradedLate'
  BY <1>0, <1>1, <1>2, <1>3 DEF GradedLate
<1>6. StakesAndWinsOnce'
  <2>1. stakes[u][m] = 0 /\ wins[u][m] = 0
    <3>1. bets[u][m].grade # "won"
      BY <1>1 DEF NoBet
    <3> QED BY <1>0, <1>1, <3>1 DEF StakesAndWinsOnce
  <2>2. ASSUME NEW v \in Users, NEW k \in Markets
        PROVE  /\ stakes'[v][k] = IF bets'[v][k] = NoBet THEN 0 ELSE 1
               /\ wins'[v][k] = IF bets'[v][k].grade = "won" THEN 1 ELSE 0
    <3>1. CASE v = u /\ k = m
      BY <1>1, <1>2, <1>3, <1>4, <2>1, <3>1
    <3>2. CASE v # u \/ k # m
      BY <1>0, <1>1, <1>3, <1>4, <3>2 DEF StakesAndWinsOnce
    <3> QED BY <3>1, <3>2
  <2>3. \A v \in Users, k \in Markets :
          /\ stakes'[v][k] = IF bets'[v][k] = NoBet THEN 0 ELSE 1
          /\ wins'[v][k] = IF bets'[v][k].grade = "won" THEN 1 ELSE 0
    BY <2>2
  <2> QED BY <2>3 DEF StakesAndWinsOnce
<1>7. VolumeOK'
  <2>1. Bettors(m)' = Bettors(m) \cup {u} /\ u \notin Bettors(m)
    BY <1>1, <1>2, <1>3 DEF Bettors
  <2>2. IsFiniteSet(Bettors(m)) /\ volume[m] = Cardinality(Bettors(m))
    BY <1>0 DEF VolumeOK
  <2>3. /\ IsFiniteSet(Bettors(m) \cup {u})
        /\ Cardinality(Bettors(m) \cup {u}) = Cardinality(Bettors(m)) + 1
    BY <2>1, <2>2, FS_AddElement
  <2>4. volume'[m] = volume[m] + 1 /\ \A k \in Markets : k # m => volume'[k] = volume[k]
    BY <1>0, <1>1 DEF TypeOK
  <2>5. IsFiniteSet(Bettors(m)') /\ volume'[m] = Cardinality(Bettors(m)')
    BY <2>1, <2>2, <2>3, <2>4
  <2>6. \A k \in Markets : k # m => Bettors(k)' = Bettors(k)
    BY <1>3 DEF Bettors
  <2>7. ASSUME NEW k \in Markets, k # m
        PROVE  IsFiniteSet(Bettors(k)') /\ volume'[k] = Cardinality(Bettors(k)')
    BY <1>0, <2>4, <2>6, <2>7 DEF VolumeOK
  <2> QED BY <2>5, <2>7 DEF VolumeOK
<1>8. OneBetPerCategoryADay'
  <2>1. \A k \in Markets : k # m /\ Category[k] = Category[m] /\ bets[u][k] # NoBet =>
          placed[u][k] \div Day # at[p] \div Day
    BY <1>1 DEF CategoryTaken
  <2> SUFFICES ASSUME NEW v \in Users, NEW k \in Markets, NEW l \in Markets,
                      k # l, Category[k] = Category[l],
                      bets'[v][k] # NoBet, bets'[v][l] # NoBet
               PROVE  placed'[v][k] \div Day # placed'[v][l] \div Day
    BY DEF OneBetPerCategoryADay
  <2>2. CASE v = u /\ k = m
    BY <1>3, <1>4, <2>1, <2>2
  <2>3. CASE v = u /\ l = m
    BY <1>3, <1>4, <2>1, <2>3
  <2>4. CASE v # u \/ (k # m /\ l # m)
    BY <1>0, <1>3, <1>4, <2>4 DEF OneBetPerCategoryADay
  <2> QED BY <2>2, <2>3, <2>4
<1> QED BY <1>5, <1>6, <1>7, <1>8 DEF TablesOK

LEMMA ResolutionKeepsTables ==
  ASSUME MarketInv, NEW p \in Procs, NEW m \in Markets, NEW o \in Options, Resolved(p, m, o)
  PROVE  TablesOK'
<1>0. TypeOK /\ GradedLate /\ StakesAndWinsOnce /\ VolumeOK /\ OneBetPerCategoryADay
  BY DEF MarketInv
<1>1. /\ status[m] \in {"Locked", "Awaiting Resolution"}
      /\ bets' = [u \in Users |->
                   IF bets[u][m] # NoBet THEN [bets[u] EXCEPT ![m] = GradedFor(@, o)]
                                         ELSE bets[u]]
      /\ wins' = [u \in Users |->
                   IF Wins(u, m, o) THEN [wins[u] EXCEPT ![m] = @ + 1] ELSE wins[u]]
      /\ status' = [status EXCEPT ![m] = "Resolved"]
      /\ volume' = [volume EXCEPT ![m] = volume[m]]
      /\ UNCHANGED <<placed, stakes>>
  BY DEF Resolved
<1>2. \A u \in Users : bets[u][m] # NoBet =>
        /\ GradedFor(bets[u][m], o) # NoBet
        /\ GradedFor(bets[u][m], o).grade = IF bets[u][m].choice = o THEN "won" ELSE "lost"
  BY <1>0, GradedBet DEF TypeOK
<1>3. \A u \in Users, k \in Markets :
        /\ k # m => bets'[u][k] = bets[u][k] /\ wins'[u][k] = wins[u][k]
        /\ bets'[u][m] = IF bets[u][m] # NoBet THEN GradedFor(bets[u][m], o) ELSE NoBet
        /\ wins'[u][m] = IF Wins(u, m, o) THEN wins[u][m] + 1 ELSE wins[u][m]
  BY <1>0, <1>1 DEF TypeOK
<1>4. /\ status'[m] = "Resolved" /\ volume' = volume
      /\ \A k \in Markets : k # m => status'[k] = status[k]
  BY <1>0, <1>1 DEF TypeOK
<1>5. \A u \in Users, k \in Markets : bets'[u][k] = NoBet <=> bets[u][k] = NoBet
  BY <1>2, <1>3
<1>6. GradedLate'
  BY <1>0, <1>3, <1>4 DEF GradedLate
<1>7. StakesAndWinsOnce'
  <2>1. \A u \in Users : wins[u][m] = 0
    BY <1>0, <1>1 DEF GradedLate, StakesAndWinsOnce
  <2>2. \A u \in Users : wins'[u][m] = IF bets'[u][m].grade = "won" THEN 1 ELSE 0
    BY <1>2, <1>3, <2>1 DEF Wins, NoBet
  <2>3. \A u \in Users, k \in Markets : stakes'[u][k] = IF bets'[u][k] = NoBet THEN 0 ELSE 1
    BY <1>0, <1>1, <1>5 DEF StakesAndWinsOnce
  <2>4. \A u \in Users, k \in Markets :
          k # m => wins'[u][k] = IF bets'[u][k].grade = "won" THEN 1 ELSE 0
    BY <1>0, <1>3 DEF StakesAndWinsOnce
  <2> QED BY <2>2, <2>3, <2>4 DEF StakesAndWinsOnce
<1>8. VolumeOK'
  <2>1. \A k \in Markets : Bettors(k)' = Bettors(k)
    BY <1>5 DEF Bettors
  <2> QED BY <1>0, <1>4, <2>1 DEF VolumeOK
<1>9. OneBetPerCategoryADay'
  BY <1>0, <1>1, <1>5 DEF OneBetPerCategoryADay
<1> QED BY <1>6, <1>7, <1>8, <1>9 DEF TablesOK

-----------------------------------------------------------------------------
(* The inductive invariant *)

LEMMA InitInv == Init => MarketInv
<1> SUFFICES ASSUME Init PROVE MarketInv
  OBVIOUS
<1>1. TypeOK
  <2>1. NoBet \in Bet \cup {NoBet} /\ NoStat \in Stat /\ Coins \in [Users -> Nat]
    BY ConstantsAssumption DEF NoStat, Stat
  <2>2. 0 \in 0..MaxTime
    BY ConstantsAssumption
  <2>3. [m \in Markets |-> IF m \in Seeded THEN "Open" ELSE "None"] \in [Markets -> Statuses]
    BY DEF Statuses
  <2> HIDE DEF NoBet, NoStat, NoJob
  <2> QED BY <2>1, <2>2, <2>3 DEF Init, TypeOK, PCs
<1>2. ASSUME NEW p \in Procs PROVE Local(p)
  <2>1. /\ pc[p] = "idle" /\ job[p] = NoJob /\ want[p] = 0
        /\ \A m \in Markets : marketLock[m] # p
        /\ \A u \in Users : userLock[u] # p
    BY ConstantsAssumption DEF Init
  <2>2. job[p].op = "none"
    BY <2>1 DEF NoJob
  <2>3. PlaceOK(p) /\ MarketHeld(p)
    BY <2>1, <2>2 DEF PlaceOK, MarketHeld, Holding
  <2>4. ListCurrent(p) /\ WalletsHeld(p) /\ SubmissionOK(p) /\ Ascending(p)
    BY <2>1 DEF ListCurrent, WalletsHeld, SubmissionOK, Ascending, Holding
  <2> QED BY <2>3, <2>4 DEF Local
<1>3. \A u \in Users, m \in Markets :
        bets[u][m] = NoBet /\ bets[u][m].grade = "none" /\ stakes[u][m] = 0 /\ wins[u][m] = 0
  BY DEF Init, NoBet
<1>4. GradedLate /\ StakesAndWinsOnce /\ OneBetPerCategoryADay
  BY <1>3 DEF GradedLate, StakesAndWinsOnce, OneBetPerCategoryADay
<1>5. VolumeOK
  <2>1. \A m \in Markets : Bettors(m) = {}
    BY <1>3 DEF Bettors
  <2>2. \A m \in Markets : volume[m] = 0
    BY DEF Init
  <2> QED BY <2>1, <2>2, FS_EmptySet DEF VolumeOK
<1> QED BY <1>1, <1>2, <1>4, <1>5 DEF MarketInv

LEMMA AdvancesKeepsLocal ==
  ASSUME MarketInv, NEW p \in Procs, Advances(p)
  PROVE  TypeOK' /\ \A q \in Procs : Local(q)'
<1>1. TypeOK /\ \A q \in Procs : Local(q)
  BY DEF MarketInv
<1>2. \A q \in Procs \ {p} : Local(q)'
  BY <1>1, UndisturbedLocal DEF Advances
<1> QED BY <1>2 DEF Advances

LEMMA StepInv == MarketInv /\ [Next]_vars => MarketInv'
<1> SUFFICES ASSUME MarketInv, [Next]_vars
             PROVE  TypeOK' /\ (\A p \in Procs : Local(p)') /\ TablesOK'
  BY DEF MarketInv, TablesOK
<1>0. TypeOK /\ TablesOK /\ \A p \in Procs : Local(p) /\ PlaceOK(p)
  BY DEF MarketInv, TablesOK, Local
<1>1. CASE now' \in 0..MaxTime /\ UNCHANGED <<tables, locks, pc, job, memory>>
  <2>1. TypeOK'
    BY <1>0, <1>1 DEF TypeOK, tables, locks, memory
  <2>2. \A q \in Procs : Undisturbed(q)
    BY <1>1 DEF Undisturbed, tables, locks, memory
  <2>3. TablesOK'
    BY <1>0, <1>1, StatusKeepsTables DEF tables
  <2> QED BY <1>0, <2>1, <2>2, <2>3, UndisturbedLocal
<1>2. ASSUME NEW m \in Markets, NEW s \in {"Draft", "Scheduled", "Live", "Proposed"},
             CreateMarket(m, s)
      PROVE  TypeOK' /\ (\A p \in Procs : Local(p)') /\ TablesOK'
  <2>1. TypeOK' /\ \A q \in Procs : Undisturbed(q)
    BY <1>2, CreateUndisturbed
  <2>2. /\ status[m] = "None" /\ status' = [status EXCEPT ![m] = s]
        /\ UNCHANGED <<volume, bets, placed, stakes, wins>>
    BY <1>2 DEF CreateMarket
  <2>3. \A k \in Markets :
          status[k] \in {"Resolved", "Archived"} => status'[k] \in {"Resolved", "Archived"}
    BY <1>0, <2>2 DEF TypeOK
  <2>4. TablesOK'
    BY <1>0, <2>2, <2>3, StatusKeepsTables
  <2> QED BY <1>0, <2>1, <2>4, UndisturbedLocal
<1>3. ASSUME NEW p \in Procs, Advances(p), UNCHANGED tables
      PROVE  TypeOK' /\ (\A q \in Procs : Local(q)') /\ TablesOK'
  <2>1. TablesOK'
    BY <1>0, <1>3, StatusKeepsTables DEF tables
  <2> QED BY <1>3, <2>1, AdvancesKeepsLocal
<1>4. ASSUME NEW p \in Procs, CommitSubmission(p)
      PROVE  TypeOK' /\ (\A q \in Procs : Local(q)') /\ TablesOK'
  <2> PICK u \in Users, m \in Markets, o \in Options : Submitted(p, u, m, o)
    BY <1>4, SubmissionFacts
  <2>1. Advances(p)
    BY SubmissionAdvances
  <2>2. TablesOK'
    BY SubmissionKeepsTables
  <2> QED BY <2>1, <2>2, AdvancesKeepsLocal
<1>5. ASSUME NEW p \in Procs, CommitResolution(p)
      PROVE  TypeOK' /\ (\A q \in Procs : Local(q)') /\ TablesOK'
  <2> PICK m \in Markets, o \in Options : Resolved(p, m, o)
    BY <1>5, ResolutionFacts
  <2>1. Advances(p)
    BY ResolutionAdvances
  <2>2. TablesOK'
    BY ResolutionKeepsTables
  <2> QED BY <2>1, <2>2, AdvancesKeepsLocal
<1>6. ASSUME NEW p \in Procs, UpdateStatus(p)
      PROVE  TypeOK' /\ (\A q \in Procs : Local(q)') /\ TablesOK'
  <2> DEFINE m == job[p].market
  <2>1. /\ m \in Markets
        /\ UNCHANGED <<volume, bets, placed, stakes, wins>>
        /\ \/ status' = status
           \/ \E s \in Statuses : /\ <<status[m], s>> \in Promise!Edges
                                  /\ status' = [status EXCEPT ![m] = s]
    BY <1>6, StatusFacts
  <2> HIDE DEF m
  <2>2. ASSUME NEW s, <<status[m], s>> \in Promise!Edges
        PROVE  status[m] # "Archived" /\ (status[m] = "Resolved" => s = "Archived")
    BY <2>2 DEF Promise!Edges
  <2>3. \A k \in Markets :
          status[k] \in {"Resolved", "Archived"} => status'[k] \in {"Resolved", "Archived"}
    BY <1>0, <2>1, <2>2 DEF TypeOK
  <2>4. TablesOK'
    BY <1>0, <2>1, <2>3, StatusKeepsTables
  <2>5. Advances(p)
    BY <1>6, StatusAdvances
  <2> QED BY <2>4, <2>5, AdvancesKeepsLocal
<1>7. ASSUME NEW p \in Procs,
             \/ \E j \in Job, first \in {"market", "update"} : Begun(p, j, first)
             \/ Prepare(p) \/ Rollback(p)
      PROVE  Advances(p) /\ UNCHANGED tables
  BY <1>0, <1>7, BegunAdvances, PrepareAdvances, RollbackAdvances
<1> QED BY <1>0, <1>1, <1>2, <1>3, <1>4, <1>5, <1>6, <1>7, NextCases DEF Commit

(* Whatever the number of users, markets, requests and admins at once,     *)
(* every transaction of SubmitPrediction and ResolveMarket keeps what it   *)
(* read under its locks true until it commits.                             *)
THEOREM MarketInvariant == Spec => []MarketInv
<1>1. Init => MarketInv
  BY InitInv
<1>2. MarketInv /\ [Next]_vars => MarketInv'
  BY StepInv
<1> QED BY <1>1, <1>2, PTL DEF Spec

(* Predictions are paid for once and paid out once, however the requests   *)
(* and the resolutions race (SubmitPrediction, ResolveMarket).             *)
THEOREM PaidOnce == Spec => []StakesAndWinsOnce
<1>1. MarketInv => StakesAndWinsOnce
  BY DEF MarketInv
<1> QED BY <1>1, MarketInvariant, PTL

(* ResolveMarket, which saves the market row whole, never brings back an   *)
(* older count of predictions.                                             *)
THEOREM VolumeExact == Spec => []VolumeCountsBets
<1>1. MarketInv => VolumeCountsBets
  BY DEF MarketInv, VolumeOK, VolumeCountsBets
<1> QED BY <1>1, MarketInvariant, PTL

(* SubmitPrediction keeps its daily limit per category, for any number of  *)
(* requests at once and whatever the time they spend waiting.              *)
THEOREM DailyLimit == Spec => []OneBetPerCategoryADay
<1>1. MarketInv => OneBetPerCategoryADay
  BY DEF MarketInv
<1> QED BY <1>1, MarketInvariant, PTL

-----------------------------------------------------------------------------
(* Deadlocks *)

(* In a deadlock without a resolver in its UPDATE of the statistics, each  *)
(* transaction waits for a wallet that another one of them holds.          *)
LEMMA DeadlockShape ==
  ASSUME MarketInv, NEW S \in SUBSET Procs, Deadlocked(S), \A p \in S : pc[p] # "rows"
  PROVE  \A q \in S :
           /\ pc[q] = "wallets" /\ want[q] \in Users
           /\ \E p \in S : want[p] # 0 /\ userLock[want[p]] = q
<1>1. TypeOK /\ \A p \in Procs : PlaceOK(p) /\ MarketHeld(p) /\ Ascending(p)
  BY DEF MarketInv, Local
<1>2. \A p \in S : p # NoProc /\ Holder(p) \in S /\ \E q \in S : Holder(q) = p
  BY ConstantsAssumption DEF Deadlocked
<1>3. ASSUME NEW q \in S
      PROVE  pc[q] \in Holding
  <2> PICK p \in S : Holder(p) = q
    BY <1>2
  <2>1. CASE pc[p] \in {"market", "update"}
    <3>1. marketLock[job[p].market] = q
      BY <2>1 DEF Holder
    <3>2. job[p].market \in Markets
      BY <1>1, <2>1, WorkingJob
    <3> QED BY <1>1, <3>1, <3>2 DEF MarketHeld
  <2>2. CASE pc[p] \notin {"market", "update"}
    <3>1. want[p] # 0 /\ userLock[want[p]] = q
      BY <1>2, <2>2 DEF Holder
    <3>2. want[p] \in Users
      BY <1>1, <3>1 DEF TypeOK
    <3> QED BY <1>1, <3>1, <3>2 DEF MarketHeld
  <2> QED BY <2>1, <2>2
<1>4. ASSUME NEW q \in S
      PROVE  pc[q] = "wallets" /\ want[q] \in Users /\ Holder(q) = userLock[want[q]]
  <2>1. pc[q] \notin {"market", "update"}
    BY <1>3 DEF Holding
  <2>2. want[q] # 0 /\ Holder(q) = userLock[want[q]]
    BY <1>2, <2>1 DEF Holder
  <2>3. pc[q] = "wallets"
    BY <1>1, <2>2 DEF PlaceOK
  <2> QED BY <1>1, <2>2, <2>3 DEF TypeOK
<1>5. \A q \in S : \E p \in S : want[p] # 0 /\ userLock[want[p]] = q
  <2> SUFFICES ASSUME NEW q \in S
               PROVE  \E p \in S : want[p] # 0 /\ userLock[want[p]] = q
    OBVIOUS
  <2> PICK p \in S : Holder(p) = q
    BY <1>2
  <2>1. want[p] # 0
    BY <1>4, ConstantsAssumption
  <2> QED BY <1>4, <2>1
<1> QED BY <1>4, <1>5

(* Wallets are locked in ascending order of the users by                   *)
(* LockReferralWalletsTx and by the payouts of ResolveMarket: whatever the *)
(* number of transactions, no set of them waits for itself unless one is a *)
(* resolver in its UPDATE of the statistics.                               *)
THEOREM OrderedWalletsNeverDeadlock == Spec => []DeadlocksNeedStats
<1>1. ASSUME MarketInv
      PROVE  DeadlocksNeedStats
  <2> SUFFICES ASSUME NEW S \in SUBSET Procs, Deadlocked(S), \A p \in S : pc[p] # "rows"
               PROVE  FALSE
    BY DEF DeadlocksNeedStats
  <2> DEFINE W == {want[q] : q \in S}
  <2>1. \A q \in S :
          /\ pc[q] = "wallets" /\ want[q] \in Users
          /\ \E p \in S : want[p] # 0 /\ userLock[want[p]] = q
    BY <1>1, DeadlockShape
  <2>2. W \subseteq Nat /\ W # {}
    <3>1. S # {}
      BY DEF Deadlocked
    <3>2. \A q \in S : want[q] \in Nat
      BY <2>1, ConstantsAssumption
    <3> QED BY <3>1, <3>2
  <2>3. Lowest(W) \in W /\ \A y \in W : Lowest(W) <= y
    <3> HIDE DEF W
    <3> QED BY <2>2, LowestFacts
  <2>4. PICK q \in S : want[q] = Lowest(W)
    BY <2>3
  <2>5. PICK p \in S : want[p] # 0 /\ userLock[want[p]] = q
    BY <2>1
  <2>6. want[q] <= want[p] /\ want[q] \in Nat /\ want[p] \in Nat
    BY <2>2, <2>3, <2>4
  <2>7. want[p] < want[q]
    <3>1. Ascending(q) /\ pc[q] = "wallets" /\ want[p] \in Users
      BY <1>1, <2>1 DEF MarketInv, Local
    <3>2. want[q] \in owed[q] /\ \A y \in owed[q] : want[p] < y
      BY <2>5, <3>1 DEF Ascending
    <3> QED BY <3>2
  <2> QED BY <2>6, <2>7
<1> QED BY <1>1, MarketInvariant, PTL

-----------------------------------------------------------------------------
(* The refinement of Betting *)

LEMMA SubmissionPlaces ==
  ASSUME MarketInv, NEW p \in Procs,
         NEW u \in Users, NEW m \in Markets, NEW o \in Options, Submitted(p, u, m, o)
  PROVE  Promise!Place(u, m, o)
<1>1. /\ status[m] \in {"Open", "Live"} /\ bets[u][m] = NoBet /\ points[u] >= Stake
      /\ bets' = [bets EXCEPT ![u][m] = [choice |-> o, grade |-> "open"]]
      /\ points' = [points EXCEPT ![u] = points[u] - Stake]
      /\ status' = status
  BY DEF Submitted
<1>2. Promise!NoBet = NoBet
  BY DEF NoBet, Promise!NoBet
<1> QED BY <1>1, <1>2 DEF Promise!Place

LEMMA ResolutionDecides ==
  ASSUME MarketInv, NEW p \in Procs, NEW m \in Markets, NEW o \in Options, Resolved(p, m, o)
  PROVE  Promise!Result(m, o)
<1>0. TypeOK
  BY DEF MarketInv
<1>1. /\ status[m] \in {"Locked", "Awaiting Resolution"}
      /\ status' = [status EXCEPT ![m] = "Resolved"]
      /\ bets' = [u \in Users |->
                   IF bets[u][m] # NoBet THEN [bets[u] EXCEPT ![m] = GradedFor(@, o)]
                                         ELSE bets[u]]
      /\ points' = [u \in Users |-> IF Wins(u, m, o) THEN points[u] + Payout[m] ELSE points[u]]
  BY DEF Resolved
<1>2. Promise!NoBet = NoBet
  BY DEF NoBet, Promise!NoBet
<1>3. \A b : Promise!Decide(b, o) = IF b = NoBet THEN b ELSE GradedFor(b, o)
  BY <1>2, Zenon DEF Promise!Decide, GradedFor
<1>4. ASSUME NEW u \in Users
      PROVE  [bets[u] EXCEPT ![m] = Promise!Decide(@, o)] =
               IF bets[u][m] # NoBet THEN [bets[u] EXCEPT ![m] = GradedFor(@, o)] ELSE bets[u]
  <2>1. CASE bets[u][m] = NoBet
    <3>1. Promise!Decide(bets[u][m], o) = bets[u][m]
      BY <1>3, <2>1
    <3>2. bets[u] \in [Markets -> Bet \cup {NoBet}]
      BY <1>0 DEF TypeOK
    <3>3. [bets[u] EXCEPT ![m] = bets[u][m]] = bets[u]
      BY <3>2
    <3> QED BY <2>1, <3>1, <3>3
  <2>2. CASE bets[u][m] # NoBet
    BY <1>3, <2>2, Zenon
  <2> QED BY <2>1, <2>2
<1>5. bets' = [u \in Users |-> [bets[u] EXCEPT ![m] = Promise!Decide(@, o)]]
  BY <1>1, <1>4, Zenon
<1>6. ASSUME NEW u \in Users
      PROVE  points[u] + (IF bets[u][m].choice = o THEN Payout[m] ELSE 0) =
               IF Wins(u, m, o) THEN points[u] + Payout[m] ELSE points[u]
  <2>1. points[u] \in Nat /\ Payout[m] \in Nat
    BY <1>0, ConstantsAssumption DEF TypeOK
  <2>2. bets[u][m] = NoBet => bets[u][m].choice # o
    BY ConstantsAssumption DEF NoBet
  <2> QED BY <2>1, <2>2 DEF Wins
<1>7. points' = [u \in Users |->
                  points[u] + IF bets[u][m].choice = o THEN Payout[m] ELSE 0]
  BY <1>1, <1>6
<1> QED BY <1>1, <1>5, <1>7 DEF Promise!Result

(* Every step moves the tables as Betting does, or leaves them alone. *)
LEMMA StepBets ==
  MarketInv /\ [Next]_vars => [Promise!BettingNext]_<<status, bets, points>>
<1> SUFFICES ASSUME MarketInv, [Next]_vars
             PROVE  Promise!BettingNext \/ UNCHANGED <<status, bets, points>>
  OBVIOUS
<1>0. TypeOK /\ \A p \in Procs : Local(p) /\ PlaceOK(p)
  BY DEF MarketInv, Local
<1>1. ASSUME NEW m \in Markets, NEW s \in Statuses, <<status[m], s>> \in Promise!Edges,
             status' = [status EXCEPT ![m] = s], UNCHANGED <<bets, points>>
      PROVE  Promise!BettingNext
  <2> DEFINE e == <<status[m], s>>
  <2>1. e \in Promise!Edges /\ e[2] = s
    BY <1>1
  <2>2. Promise!Move(m, s)
    BY <1>1 DEF Promise!Move
  <2>3. Promise!Move(m, e[2])
    BY <2>1, <2>2
  <2> HIDE DEF e
  <2> QED BY <2>1, <2>3 DEF Promise!BettingNext
<1>2. ASSUME NEW m \in Markets, NEW s \in {"Draft", "Scheduled", "Live", "Proposed"},
             CreateMarket(m, s)
      PROVE  Promise!BettingNext
  <2>1. /\ status[m] = "None" /\ status' = [status EXCEPT ![m] = s]
        /\ UNCHANGED <<bets, points>>
    BY <1>2 DEF CreateMarket
  <2>2. s \in Statuses /\ <<status[m], s>> \in Promise!Edges
    BY <2>1 DEF Promise!Edges, Statuses
  <2> QED BY <1>1, <2>1, <2>2
<1>3. ASSUME NEW p \in Procs, UpdateStatus(p)
      PROVE  Promise!BettingNext \/ UNCHANGED <<status, bets, points>>
  <2> PICK m \in Markets :
        /\ UNCHANGED <<bets, points>>
        /\ \/ status' = status
           \/ \E s \in Statuses : /\ <<status[m], s>> \in Promise!Edges
                                  /\ status' = [status EXCEPT ![m] = s]
    BY <1>3, StatusFacts
  <2> QED BY <1>1
<1>4. ASSUME NEW p \in Procs, CommitSubmission(p)
      PROVE  Promise!BettingNext
  <2> PICK u \in Users, m \in Markets, o \in Options : Submitted(p, u, m, o)
    BY <1>4, SubmissionFacts
  <2>1. Promise!Place(u, m, o)
    BY SubmissionPlaces
  <2> QED BY <2>1 DEF Promise!BettingNext
<1>5. ASSUME NEW p \in Procs, CommitResolution(p)
      PROVE  Promise!BettingNext
  <2> PICK m \in Markets, o \in Options : Resolved(p, m, o)
    BY <1>5, ResolutionFacts
  <2>1. Promise!Result(m, o)
    BY ResolutionDecides
  <2> QED BY <2>1 DEF Promise!BettingNext
<1>6. ASSUME NEW p \in Procs,
             \/ \E j \in Job, first \in {"market", "update"} : Begun(p, j, first)
             \/ Prepare(p) \/ Rollback(p)
      PROVE  UNCHANGED tables
  BY <1>0, <1>6, BegunAdvances, PrepareAdvances, RollbackAdvances
<1>7. ASSUME UNCHANGED tables PROVE UNCHANGED <<status, bets, points>>
  BY <1>7 DEF tables
<1> QED BY <1>0, <1>2, <1>3, <1>4, <1>5, <1>6, <1>7, NextCases DEF Commit

(* Markets implement what Betting promises the players: a prediction is    *)
(* placed and paid for in one step while the market takes them, a result   *)
(* decides them all at once and is final, and a market goes through its    *)
(* states in their order.                                                  *)
THEOREM MarketsKeepPromise == Spec => BettingSpec
<1>1. Init => Promise!BettingInit
  BY DEF Init, Promise!BettingInit, NoBet, Promise!NoBet
<1>2. MarketInv /\ [Next]_vars => [Promise!BettingNext]_<<status, bets, points>>
  BY StepBets
<1>3. MarketInv /\ [Next]_vars => [Promise!BettingNext]_(Promise!bettingVars)
  BY <1>2 DEF Promise!bettingVars
<1> QED BY <1>1, <1>3, MarketInvariant, PTL DEF Spec, BettingSpec, Promise!BettingSpec

-----------------------------------------------------------------------------
(* Statistics.  The UPDATE of a resolver computes its figures before it    *)
(* waits for the rows: those of a user whom another resolution grades      *)
(* meanwhile are old when they are stored, and `missed' says so.           *)

LEMMA SameGradesSameFigures ==
  ASSUME NEW b, NEW c,
         \A m \in Markets :
           b[m].grade = c[m].grade \/ {b[m].grade, c[m].grade} \subseteq {"none", "open"}
  PROVE  Figures(b) = Figures(c)
<1>1. {m \in Markets : b[m].grade = "won"} = {m \in Markets : c[m].grade = "won"}
  OBVIOUS
<1>2. {m \in Markets : b[m].grade \in {"won", "lost"}}
        = {m \in Markets : c[m].grade \in {"won", "lost"}}
  OBVIOUS
<1> QED BY <1>1, <1>2 DEF Figures

LEMMA GradedRow ==
  ASSUME NEW b \in [Markets -> Bet \cup {NoBet}], NEW m \in Markets, NEW o,
         NEW seen, seen = IF b[m] # NoBet THEN [b EXCEPT ![m] = GradedFor(@, o)] ELSE b
  PROVE  \A k \in Markets :
           seen[k] = IF k = m /\ b[k] # NoBet THEN GradedFor(b[k], o) ELSE b[k]
OBVIOUS

(* No prediction of u is graded by the step. *)
NotGraded(u) ==
  \A k \in Markets :
    \/ bets'[u][k].grade = bets[u][k].grade
    \/ {bets'[u][k].grade, bets[u][k].grade} \subseteq {"none", "open"}

(* Figures a resolver has computed stay right while its market is locked,  *)
(* as long as nobody else grades a prediction of that user.                *)
LEMMA SeenStays ==
  ASSUME MarketInv, NEW q \in Procs, Storing(q), Undisturbed(q), TypeOK', Local(q)',
         NEW u \in Users, NotGraded(u)
  PROVE  Storing(q)' /\ StatsSeen(q, u)' = StatsSeen(q, u)
<1> DEFINE m == job[q].market
           o == job[q].choice
<1>1. TypeOK /\ PlaceOK(q) /\ MarketHeld(q) /\ ListCurrent(q)
  BY DEF MarketInv, Local
<1>2. PlaceOK(q)' /\ MarketHeld(q)' /\ ListCurrent(q)'
  BY DEF Local
<1>3. Storing(q)' /\ job'[q] = job[q]
  BY DEF Undisturbed, Storing
<1>4. m \in Markets /\ marketLock[m] = q
  BY <1>1, WorkingJob DEF MarketHeld, Storing, Holding
<1> DEFINE old == SeenBy(q, u)
           new == SeenBy(q, u)'
<1>5. \A k \in Markets :
        old[k] = IF k = m /\ bets[u][k] # NoBet THEN GradedFor(bets[u][k], o) ELSE bets[u][k]
  <2>1. u \in list[q] <=> bets[u][m] # NoBet
    BY <1>1 DEF ListCurrent, Storing, Holding, Bettors
  <2>2. old = IF bets[u][m] # NoBet THEN [bets[u] EXCEPT ![m] = GradedFor(@, o)] ELSE bets[u]
    BY <2>1, Zenon DEF SeenBy
  <2>3. bets[u] \in [Markets -> Bet \cup {NoBet}]
    BY <1>1 DEF TypeOK
  <2> HIDE DEF old, m, o
  <2> QED BY <1>4, <2>2, <2>3, GradedRow
<1>6. \A k \in Markets :
        new[k] = IF k = m /\ bets'[u][k] # NoBet THEN GradedFor(bets'[u][k], o) ELSE bets'[u][k]
  <2>1. u \in list'[q] <=> bets'[u][m] # NoBet
    BY <1>2, <1>3 DEF ListCurrent, Storing, Holding, Bettors
  <2>2. new = IF bets'[u][m] # NoBet
                THEN [bets'[u] EXCEPT ![m] = GradedFor(@, o)] ELSE bets'[u]
    BY <1>3, <2>1, Zenon DEF SeenBy
  <2>3. bets'[u] \in [Markets -> Bet \cup {NoBet}]
    BY DEF TypeOK
  <2> HIDE DEF new, m, o
  <2> QED BY <1>4, <2>2, <2>3, GradedRow
<1>7. bets'[u][m] = bets[u][m]
  BY <1>4 DEF Undisturbed
<1>8. \A k \in Markets :
        new[k].grade = old[k].grade \/ {new[k].grade, old[k].grade} \subseteq {"none", "open"}
  BY <1>5, <1>6, <1>7 DEF NotGraded
<1>9. Figures(new) = Figures(old)
  <2> HIDE DEF new, old
  <2> QED BY <1>8, SameGradesSameFigures
<1> QED BY <1>3, <1>9 DEF StatsSeen

(* The step grades no prediction. *)
NoneGraded == \A u \in Users : NotGraded(u)

LEMMA UndisturbedSnapshot ==
  ASSUME MarketInv, MarketInv', StatsInv, NEW q \in Procs, Undisturbed(q), Storing(q)',
         NEW u \in Users \ missed[q], NotGraded(u)
  PROVE  snapshot'[q][u] = StatsSeen(q, u)'
<1>1. Storing(q) /\ snapshot'[q] = snapshot[q]
  BY DEF Undisturbed, Storing
<1>2. snapshot[q][u] = StatsSeen(q, u)
  BY <1>1 DEF StatsInv
<1>3. TypeOK' /\ Local(q)'
  BY DEF MarketInv
<1>4. StatsSeen(q, u)' = StatsSeen(q, u)
  BY <1>1, <1>3, SeenStays
<1> QED BY <1>1, <1>2, <1>4

(* The figures of the resolver that takes a step without writing tables. *)
LEMMA PreparedSnapshot ==
  ASSUME MarketInv, StatsInv, NEW p \in Procs, Prepare(p), UNCHANGED tables,
         Storing(p)', NEW u \in Users \ missed'[p]
  PROVE  snapshot'[p][u] = StatsSeen(p, u)'
<1>0. TypeOK /\ PlaceOK(p)
  BY DEF MarketInv, Local
<1>1. pc'[p] \in {"rows", "commit"} /\ job'[p].op = "resolve"
  BY DEF Storing
<1>2. bets' = bets
  BY DEF tables
<1>3. CASE BeginStats(p)
  <2>1. /\ snapshot' = [snapshot EXCEPT ![p] = [v \in Users |-> StatsSeen(p, v)]]
        /\ job' = job /\ list' = list
    BY <1>3 DEF BeginStats
  <2>2. snapshot'[p] = [v \in Users |-> StatsSeen(p, v)]
    <3>1. \A f : [snapshot EXCEPT ![p] = f][p] = f
      BY <1>0 DEF TypeOK
    <3> QED BY <2>1, <3>1
  <2>3. snapshot'[p][u] = StatsSeen(p, u)
    BY <2>2
  <2>4. StatsSeen(p, u)' = StatsSeen(p, u)
    BY <1>2, <2>1, Zenon DEF StatsSeen, SeenBy
  <2> QED BY <2>3, <2>4
<1>4. CASE LockRow(p)
  <2>1. /\ pc[p] = "rows" /\ snapshot' = snapshot /\ job' = job /\ list' = list
        /\ missed' = missed
    BY <1>4 DEF LockRow
  <2>2. snapshot[p][u] = StatsSeen(p, u)
    BY <1>1, <2>1 DEF StatsInv, Storing
  <2>3. StatsSeen(p, u)' = StatsSeen(p, u)
    BY <1>2, <2>1, Zenon DEF StatsSeen, SeenBy
  <2> QED BY <2>1, <2>2, <2>3
<1>5. CASE Checked(p)
  BY <1>0, <1>1, <1>5 DEF Checked, PlaceOK
<1>6. CASE TookForSubmit(p) \/ TookForResolve(p)
  BY <1>0, <1>1, <1>6 DEF TookForSubmit, TookForResolve, TypeOK
<1>7. CASE LoadPredictions(p)
  <2>1. \E place \in {"stats", "wallets"} : pc' = [pc EXCEPT ![p] = place]
    BY <1>7 DEF LoadPredictions, LockNext
  <2> QED BY <1>0, <1>1, <2>1 DEF TypeOK
<1>8. CASE LockWallet(p)
  <2>1. \E place \in {"check", "stats", "wallets"} : pc' = [pc EXCEPT ![p] = place]
    BY <1>8 DEF LockWallet, LockNext
  <2> QED BY <1>0, <1>1, <2>1 DEF TypeOK
<1> QED BY <1>3, <1>4, <1>5, <1>6, <1>7, <1>8 DEF Prepare

LEMMA InitStats == Init => StatsInv
<1> SUFFICES ASSUME Init PROVE StatsInv
  OBVIOUS
<1>1. \A u \in Users, m \in Markets : bets[u][m].grade = "none"
  BY DEF Init, NoBet
<1>2. ASSUME NEW u \in Users PROVE stats[u] = Figures(bets[u])
  <2>1. {m \in Markets : bets[u][m].grade = "won"} = {}
    BY <1>1
  <2>2. {m \in Markets : bets[u][m].grade \in {"won", "lost"}} = {}
    BY <1>1
  <2>3. Figures(bets[u]) = [wins |-> 0, decided |-> 0]
    BY <2>1, <2>2, FS_EmptySet DEF Figures
  <2> QED BY <2>3 DEF Init, NoStat
<1>3. \A p \in Procs : ~Storing(p)
  BY DEF Init, Storing
<1> QED BY <1>2, <1>3 DEF StatsInv, StatsMatchBets

(* What the other transactions keep of `missed' in a step of p. *)
LEMMA MissedKept ==
  ASSUME TypeOK, NEW p \in Procs, BeginStats(p) \/ UNCHANGED missed
  PROVE  \A q \in Procs \ {p} : missed'[q] = missed[q]
BY DEF BeginStats, TypeOK

(* No step but a resolution's grades a prediction or stores figures. *)
LEMMA NotGradedStats ==
  ASSUME MarketInv, MarketInv', StatsInv, NEW p \in Procs, Advances(p), NoneGraded,
         UNCHANGED <<stats, outdated>>, BeginStats(p) \/ UNCHANGED missed,
         Storing(p)' => \A u \in Users \ missed'[p] : snapshot'[p][u] = StatsSeen(p, u)'
  PROVE  StatsInv'
<1>1. ASSUME NEW u \in Users \ outdated
      PROVE  stats'[u] = Figures(bets'[u])
  <2>1. Figures(bets'[u]) = Figures(bets[u])
    BY SameGradesSameFigures DEF NoneGraded, NotGraded
  <2> QED BY <2>1 DEF StatsInv, StatsMatchBets
<1>2. ASSUME NEW q \in Procs \ {p}, Storing(q)', NEW u \in Users \ missed'[q]
      PROVE  snapshot'[q][u] = StatsSeen(q, u)'
  <2>1. u \notin missed[q]
    BY MissedKept DEF MarketInv
  <2> QED BY <1>2, <2>1, UndisturbedSnapshot DEF Advances, NoneGraded
<1> QED BY <1>1, <1>2 DEF StatsInv, StatsMatchBets

(* A resolution stores its figures, and leaves behind those of the users   *)
(* it shares with a resolver that has computed its own.                    *)
LEMMA ResolutionStats ==
  ASSUME MarketInv, MarketInv', StatsInv, NEW p \in Procs, CommitResolution(p)
  PROVE  StatsInv'
<1> PICK m \in Markets, o \in Options : Resolved(p, m, o)
  BY ResolutionFacts
<1>0. TypeOK /\ Advances(p)
  BY ResolutionAdvances DEF MarketInv
<1>1. /\ m = job[p].market /\ o = job[p].choice /\ pc[p] = "commit" /\ job[p].op = "resolve"
      /\ list[p] = Bettors(m)
      /\ bets' = [u \in Users |->
                   IF bets[u][m] # NoBet THEN [bets[u] EXCEPT ![m] = GradedFor(@, o)]
                                         ELSE bets[u]]
      /\ stats' = [u \in Users |-> IF bets[u][m] # NoBet THEN snapshot[p][u] ELSE stats[u]]
      /\ missed' = [q \in Procs |-> IF q # p /\ Storing(q) THEN missed[q] \cup list[p] ELSE {}]
      /\ outdated' = (outdated \ list[p]) \cup (list[p] \cap missed[p])
      /\ End(p)
  BY DEF Resolved
<1>2. \A u \in Users : u \in list[p] <=> bets[u][m] # NoBet
  BY <1>1 DEF Bettors
<1>3. ASSUME NEW u \in Users \ outdated'
      PROVE  stats'[u] = Figures(bets'[u])
  <2>1. CASE u \in list[p]
    <3>1. SeenBy(p, u) = [bets[u] EXCEPT ![m] = GradedFor(@, o)]
      BY <1>1, <2>1, Zenon DEF SeenBy
    <3>2. bets'[u] = SeenBy(p, u)
      BY <1>1, <1>2, <2>1, <3>1, Zenon
    <3>3. stats'[u] = snapshot[p][u] /\ u \notin missed[p]
      BY <1>1, <1>2, <1>3, <2>1
    <3>4. snapshot[p][u] = Figures(SeenBy(p, u))
      BY <1>1, <3>3 DEF StatsInv, Storing, StatsSeen
    <3> QED BY <3>2, <3>3, <3>4
  <2>2. CASE u \notin list[p]
    <3>1. bets'[u] = bets[u] /\ stats'[u] = stats[u] /\ u \notin outdated
      BY <1>1, <1>2, <1>3, <2>2
    <3> QED BY <3>1 DEF StatsInv, StatsMatchBets
  <2> QED BY <2>1, <2>2
<1>4. ASSUME NEW q \in Procs, Storing(q)', NEW u \in Users \ missed'[q]
      PROVE  snapshot'[q][u] = StatsSeen(q, u)'
  <2>1. q # p
    BY <1>0, <1>1, <1>4, EndFacts DEF Storing
  <2>2. Undisturbed(q)
    BY <1>0, <2>1 DEF Advances
  <2>3. Storing(q)
    BY <1>4, <2>2 DEF Undisturbed, Storing
  <2>4. u \notin missed[q] /\ u \notin list[p]
    BY <1>1, <1>4, <2>1, <2>3
  <2>5. bets'[u] = bets[u]
    BY <1>1, <1>2, <2>4
  <2>6. NotGraded(u)
    BY <2>5 DEF NotGraded
  <2> QED BY <1>4, <2>2, <2>4, <2>6, UndisturbedSnapshot
<1> QED BY <1>3, <1>4 DEF StatsInv, StatsMatchBets

LEMMA StepStats ==
  ASSUME MarketInv, MarketInv', StatsInv, [Next]_vars
  PROVE  StatsInv'
<1>0. TypeOK /\ \A p \in Procs : Local(p) /\ PlaceOK(p)
  BY DEF MarketInv, Local
<1>1. UNCHANGED tables => NoneGraded /\ UNCHANGED <<stats, outdated>>
  BY DEF tables, NoneGraded, NotGraded
<1>2. ASSUME NoneGraded, UNCHANGED <<stats, outdated, missed>>, \A q \in Procs : Undisturbed(q)
      PROVE  StatsInv'
  <2>1. \A u \in Users : Figures(bets'[u]) = Figures(bets[u])
    BY <1>2, SameGradesSameFigures DEF NoneGraded, NotGraded
  <2>2. \A q \in Procs : Storing(q)' =>
          \A u \in Users \ missed'[q] : snapshot'[q][u] = StatsSeen(q, u)'
    BY <1>2, UndisturbedSnapshot DEF NoneGraded
  <2> QED BY <1>2, <2>1, <2>2 DEF StatsInv, StatsMatchBets
<1>3. ASSUME NEW p \in Procs, End(p)
      PROVE  ~Storing(p)'
  BY <1>0, <1>3, EndFacts DEF Storing
<1>4. CASE now' \in 0..MaxTime /\ UNCHANGED <<tables, locks, pc, job, memory>>
  <2>1. UNCHANGED missed /\ \A q \in Procs : Undisturbed(q)
    BY <1>4 DEF Undisturbed, tables, locks, memory
  <2> QED BY <1>1, <1>2, <1>4, <2>1
<1>5. ASSUME NEW m \in Markets, NEW s \in {"Draft", "Scheduled", "Live", "Proposed"},
             CreateMarket(m, s)
      PROVE  StatsInv'
  <2>1. NoneGraded /\ UNCHANGED <<stats, outdated, missed>>
    BY <1>5 DEF CreateMarket, NoneGraded, NotGraded, memory
  <2> QED BY <1>2, <1>5, <2>1, CreateUndisturbed
<1>6. ASSUME NEW p \in Procs, Prepare(p)
      PROVE  StatsInv'
  <2>1. Advances(p) /\ UNCHANGED tables
    BY <1>0, <1>6, PrepareAdvances
  <2>2. Storing(p)' => \A u \in Users \ missed'[p] : snapshot'[p][u] = StatsSeen(p, u)'
    BY <1>6, <2>1, PreparedSnapshot
  <2>3. BeginStats(p) \/ UNCHANGED missed
    BY <1>6 DEF Prepare, TookForSubmit, TookForResolve, LoadPredictions, LockWallet, LockUser,
                Checked, LockRow
  <2> QED BY <1>1, <2>1, <2>2, <2>3, NotGradedStats
<1>7. ASSUME NEW p \in Procs, NEW j \in Job, NEW first \in {"market", "update"},
             Begun(p, j, first)
      PROVE  StatsInv'
  <2>1. Advances(p) /\ UNCHANGED tables
    BY <1>0, <1>7, BegunAdvances
  <2>2. ~Storing(p)' /\ UNCHANGED missed
    BY <1>0, <1>7 DEF Begun, Begin, Storing, TypeOK, memory
  <2> QED BY <1>1, <2>1, <2>2, NotGradedStats
<1>8. ASSUME NEW p \in Procs, Rollback(p)
      PROVE  StatsInv'
  <2>1. Advances(p) /\ UNCHANGED tables
    BY <1>0, <1>8, RollbackAdvances
  <2>2. ~Storing(p)' /\ UNCHANGED missed
    BY <1>3, <1>8 DEF Rollback
  <2> QED BY <1>1, <2>1, <2>2, NotGradedStats
<1>9. ASSUME NEW p \in Procs, UpdateStatus(p)
      PROVE  StatsInv'
  <2>1. NoneGraded /\ UNCHANGED <<stats, outdated, missed>> /\ End(p)
    BY <1>9 DEF UpdateStatus, NoneGraded, NotGraded
  <2> QED BY <1>3, <1>9, <2>1, StatusAdvances, NotGradedStats
<1>10. ASSUME NEW p \in Procs, CommitSubmission(p)
       PROVE  StatsInv'
  <2> PICK u \in Users, m \in Markets, o \in Options : Submitted(p, u, m, o)
    BY <1>10, SubmissionFacts
  <2> DEFINE b == [choice |-> o, grade |-> "open"]
  <2>1. /\ bets[u][m] = NoBet /\ bets' = [bets EXCEPT ![u][m] = b]
        /\ UNCHANGED <<stats, outdated, missed>> /\ End(p)
    BY DEF Submitted
  <2>2. b.grade = "open" /\ bets[u][m].grade = "none"
    BY <2>1 DEF NoBet
  <2> HIDE DEF b
  <2>3. NoneGraded
    BY <1>0, <2>1, <2>2 DEF NoneGraded, NotGraded, TypeOK
  <2> QED BY <1>3, <2>1, <2>3, SubmissionAdvances, NotGradedStats
<1> QED BY <1>0, <1>4, <1>5, <1>6, <1>7, <1>8, <1>9, <1>10, ResolutionStats, NextCases DEF Commit

(* However many resolutions and predictions run at once, the win_rate of   *)
(* a user is that of the predictions, unless it comes from an UPDATE of    *)
(* ResolveMarket's that another resolution of a market of theirs overtook  *)
(* between its reading the predictions and its storing the figures.        *)
THEOREM StatisticsRight == Spec => []StatsMatchBets
<1>1. Init => StatsInv
  BY InitStats
<1>2. MarketInv /\ MarketInv' /\ StatsInv /\ [Next]_vars => StatsInv'
  BY StepStats
<1>3. StatsInv => StatsMatchBets
  BY DEF StatsInv
<1> QED BY <1>1, <1>2, <1>3, MarketInvariant, PTL DEF Spec
=============================================================================
