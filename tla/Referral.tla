------------------------------ MODULE Referral ------------------------------
(***************************************************************************)
(* Coins for joining and for bringing others: RegisterUser and the         *)
(* accounts GoogleLogin creates (user_controller.go, oauth_controller.go), *)
(* ProcessReferral and TriggerReferralEventTx (referral_service.go), the   *)
(* payout job (cron.go) and UnlockAchievement (achievement.go).            *)
(*                                                                         *)
(* An event is recorded when a referred user reaches a milestone and paid  *)
(* two days later by any replica.  That there is one event for each        *)
(* milestone is a unique key; that a referrer gets no more than            *)
(* MaxReferralRewards is a COUNT, taken by requests of different users.    *)
(***************************************************************************)
EXTENDS Integers, FiniteSets

CONSTANTS
  Users,         \* natural numbers: row locks are taken in their order
  Newcomers,     \* the users not yet registered
  Code,          \* Code[u]: whose referral code u has been given, 0 for none
  Milestones,    \* what a referrer is rewarded for, "signed_up" among it
  Goals,         \* bound: the milestones users go for, as <<user, kind>>
  Earnings,      \* Earnings[k]: coins
  MaxReferralRewards,
  Handlers,      \* requests under way at once
  Crons,         \* replicas of the payout job
  MaxFails,      \* bound: statements that fail, processes that die
  NoProc

ASSUME ConstantsAssumption ==
  /\ Users \subseteq Nat \ {0}
  /\ IsFiniteSet(Users)
  /\ IsFiniteSet(Milestones)
  /\ Newcomers \subseteq Users
  /\ Code \in [Users -> Users \cup {0}]
  /\ \A u \in Users : Code[u] # u
  /\ \A u \in Users \ Newcomers : Code[u] \notin Newcomers
  /\ "signed_up" \in Milestones
  /\ {"joined", "welcome", "achievement"} \cap Milestones = {}
  /\ Goals \subseteq Users \X (Milestones \ {"signed_up"})
  /\ Earnings \in [Milestones \cup {"joined", "welcome", "achievement"} -> Nat \ {0}]
  /\ MaxReferralRewards \in Nat
  /\ MaxFails \in Nat
  /\ Handlers \cap Crons = {}
  /\ NoProc \notin Handlers \cup Crons

Processes == Handlers \cup Crons
Kinds == Milestones \cup {"joined", "welcome", "achievement"}

(* The claims that can arise. *)
Claims == Goals \cup (Newcomers \X {"joined", "signed_up", "welcome"})
                \cup {<<g[1], "achievement">> : g \in Goals}

VARIABLES
  registered,  \* the users rows
  referredBy,  \* referredBy[u]: users.referred_by
  claim,       \* claim[c]: the referral_events or user_achievements row of <<user, kind>>
  reached,     \* the milestones on record, as <<user, kind>>
  points,      \* points[u]: the bonus coins in users.points
  userLock,    \* userLock[u]: the transaction holding the users row
  claimLock,   \* claimLock[c]: the one updating or inserting the claim
  pc,
  job,         \* job[p]: the claim p is about
  count,       \* count[p]: events of the referrer it has counted
  read,        \* read[p]: the points it read
  fails        \* failures so far

tables == <<registered, referredBy, claim, reached, points>>
locks == <<userLock, claimLock>>
memory == <<job, count, read>>
vars == <<tables, locks, pc, memory, fails>>

(* "pending": not paid; the 48 hours are over whenever the job thinks so *)
ClaimStates == {"none", "pending", "paid"}

Job == [user: Users, kind: Kinds, code: Users \cup {0}]
NoJob == [kind |-> "none"]

(* The places of a request; "provider" and "store" are those of Kyc. *)
Places == {"idle", "insert", "referrer", "count paid", "count pending", "join", "wallets",
           "reach", "claim", "payee", "pay", "provider", "store"}

TypeOK ==
  /\ registered \subseteq Users
  /\ referredBy \in [Users -> Users \cup {0}]
  /\ claim \in [Claims -> ClaimStates]
  /\ reached \subseteq Claims
  /\ points \in [Users -> Nat]
  /\ userLock \in [Users -> Processes \cup {NoProc}]
  /\ claimLock \in [Claims -> Processes \cup {NoProc}]
  /\ pc \in [Processes -> Places]
  /\ job \in [Processes -> Job \cup {NoJob}]
  /\ count \in [Processes -> Nat]
  /\ read \in [Processes -> Nat]
  /\ fails \in 0..MaxFails

-----------------------------------------------------------------------------
(* Helpers.  A second form beside a definition is the slip the properties  *)
(* are tested against.                                                     *)

LockIgnored(lock) == TRUE
LockFree(lock) == lock = NoProc

Event(p) == <<job[p].user, job[p].kind>>

(* A milestone is the referrer's, all else the user's own. *)
Payee(c) == IF c[2] \in Milestones THEN referredBy[c[1]] ELSE c[1]

(* The referrer's events in some states; welcome events do not count. *)
Events(r, states) ==
  {c \in Claims : c[2] \in Milestones /\ referredBy[c[1]] = r /\ claim[c] \in states}

(* LockReferralWalletsTx: the rows of a user, those still to lock, the next *)
OwnWalletOnly(u) == {u}
Wallets(u) == {u} \cup ({referredBy[u]} \ {0})
Missing(p) == {w \in Wallets(job[p].user) : userLock[w] # p}
IsNext(p, w) == w \in Missing(p) /\ \A x \in Missing(p) : w <= x

(* A claim can be made: an unpaid event, an achievement that has no row.   *)
ClaimableAsScanned(c) == TRUE
Claimable(c) == claim[c] = IF c[2] = "achievement" THEN "none" ELSE "pending"

-----------------------------------------------------------------------------
(* The end of a transaction: locks released, memory gone. *)
LocksKept(p) == UNCHANGED claimLock
ClaimReleased(p) ==
  claimLock' = [c \in Claims |-> IF claimLock[c] = p THEN NoProc ELSE claimLock[c]]

Release(p) ==
  /\ ClaimReleased(p)
  /\ userLock' = [u \in Users |-> IF userLock[u] = p THEN NoProc ELSE userLock[u]]
  /\ count' = [count EXCEPT ![p] = 0]
  /\ read' = [read EXCEPT ![p] = 0]

End(p) ==
  /\ Release(p)
  /\ pc' = [pc EXCEPT ![p] = "idle"]
  /\ job' = [job EXCEPT ![p] = NoJob]

Refuse(p) == End(p) /\ UNCHANGED tables

Begin(p, j, first) ==
  /\ pc[p] = "idle"
  /\ pc' = [pc EXCEPT ![p] = first]
  /\ job' = [job EXCEPT ![p] = j]
  /\ UNCHANGED <<tables, locks, count, read>>

Goto(p, place) == pc' = [pc EXCEPT ![p] = place]

Init ==
  /\ registered = Users \ Newcomers
  /\ referredBy = [u \in Users |-> IF u \in Newcomers THEN 0 ELSE Code[u]]
  /\ claim = [c \in Claims |-> "none"]
  /\ reached = {}
  /\ points = [u \in Users |-> 0]
  /\ userLock = [u \in Users |-> NoProc]
  /\ claimLock = [c \in Claims |-> NoProc]
  /\ pc = [p \in Processes |-> "idle"]
  /\ job = [p \in Processes |-> NoJob]
  /\ count = [p \in Processes |-> 0]
  /\ read = [p \in Processes |-> 0]
  /\ fails = 0

-----------------------------------------------------------------------------
(* Registration *)

(* The name looked free; the code is the one the user types, or none.      *)
RegisterUser(p, u) ==
  /\ u \notin registered
  /\ Begin(p, [user |-> u, kind |-> "signed_up", code |-> Code[u]], "insert")

GoogleLogin(p, u) ==
  /\ u \notin registered
  /\ Begin(p, [user |-> u, kind |-> "signed_up", code |-> 0], "insert")

(* The unique keys: a second row waits for the first to be committed.      *)
InsertUser(p) ==
  LET u == job[p].user
  IN /\ pc[p] = "insert"
     /\ LockFree(userLock[u])
     /\ IF u \in registered
          THEN Refuse(p)
          ELSE /\ userLock' = [userLock EXCEPT ![u] = p]
               /\ Goto(p, IF job[p].code = 0 THEN "join" ELSE "referrer")
               /\ UNCHANGED <<tables, claimLock, memory>>

(* ProcessReferral.  An unknown code is an error, and so is the code of a  *)
(* row that is not committed yet: nobody waits for that one.               *)
LockReferrer(p) ==
  LET r == job[p].code
  IN /\ pc[p] = "referrer"
     /\ IF r \in registered
          THEN /\ LockFree(userLock[r])
               /\ userLock' = [userLock EXCEPT ![r] = p]
               /\ Goto(p, "count paid")
               /\ UNCHANGED <<tables, claimLock, memory>>
          ELSE Refuse(p)

(* The paid events and the unpaid ones, in two queries. *)
CountPaid(p) ==
  /\ pc[p] = "count paid"
  /\ count' = [count EXCEPT ![p] = Cardinality(Events(job[p].code, {"paid"}))]
  /\ Goto(p, "count pending")
  /\ UNCHANGED <<tables, locks, job, read>>

CountPending(p) ==
  /\ pc[p] = "count pending"
  /\ count' = [count EXCEPT ![p] = @ + Cardinality(Events(job[p].code, {"pending"}))]
  /\ Goto(p, "join")
  /\ UNCHANGED <<tables, locks, job, read>>

(* The user, the 100 coins and, within the cap, both events. *)
CommitRegister(p) ==
  LET u == job[p].user
      new == IF job[p].code # 0 /\ count[p] < MaxReferralRewards
               THEN {<<u, "signed_up">>, <<u, "welcome">>} ELSE {}
  IN /\ pc[p] = "join"
     /\ registered' = registered \cup {u}
     /\ referredBy' = [referredBy EXCEPT ![u] = job[p].code]
     /\ claim' = [c \in Claims |-> IF c = <<u, "joined">> THEN "paid"
                                   ELSE IF c \in new THEN "pending" ELSE claim[c]]
     /\ points' = [points EXCEPT ![u] = @ + Earnings["joined"]]
     /\ reached' = reached \cup {<<u, "signed_up">>}
     /\ End(p)

-----------------------------------------------------------------------------
(* Milestones: a first deposit or a prediction, in settlePayment and in    *)
(* SubmitPrediction; the caller runs TriggerReferralEventTx in its own     *)
(* transaction, each time, not only the first.                             *)

Milestone(p, u, k) ==
  /\ <<u, k>> \in Goals
  /\ k # "kyc_completed"
  /\ u \in registered
  /\ Begin(p, [user |-> u, kind |-> k, code |-> referredBy[u]], "wallets")

(* With the last wallet the events are counted. *)
LockWallet(p) ==
  /\ pc[p] = "wallets"
  /\ \E w \in Wallets(job[p].user) :
       /\ IsNext(p, w)
       /\ LockFree(userLock[w])
       /\ userLock' = [userLock EXCEPT ![w] = p]
       /\ IF Missing(p) = {w}
            THEN /\ count' = [count EXCEPT ![p] =
                       Cardinality(Events(job[p].code, {"pending", "paid"}))]
                 /\ Goto(p, "reach")
            ELSE UNCHANGED <<pc, count>>
  /\ UNCHANGED <<tables, claimLock, job, read>>

(* The event p creates, if it is the first and there is room. *)
Recorded(p) ==
  /\ job[p].code # 0
  /\ claim[Event(p)] = "none"
  /\ count[p] < MaxReferralRewards

CreateEvent(p) ==
  /\ reached' = reached \cup {Event(p)}
  /\ claim' = IF Recorded(p) THEN [claim EXCEPT ![Event(p)] = "pending"] ELSE claim

(* After its commit a prediction goes on to its achievement. *)
CommitMilestone(p) ==
  /\ pc[p] = "reach"
  /\ job[p].kind # "kyc_completed"
  /\ CreateEvent(p)
  /\ IF job[p].kind = "first_prediction"
       THEN /\ Release(p)
            /\ Goto(p, "claim")
            /\ job' = [job EXCEPT ![p] = [user |-> @.user, kind |-> "achievement",
                                            code |-> @.code]]
       ELSE End(p)
  /\ UNCHANGED <<registered, referredBy, points>>

-----------------------------------------------------------------------------
(* Paying *)

(* processPendingReferrals has found the event some time ago. *)
ScanPending(p, c) ==
  /\ claim[c] = "pending"
  /\ Begin(p, [user |-> c[1], kind |-> c[2], code |-> referredBy[c[1]]], "claim")

(* The conditional UPDATE, or the INSERT ... ON CONFLICT DO NOTHING, waits *)
(* for another transaction on the row and then looks again.                *)
ClaimReward(p) ==
  LET c == Event(p)
  IN /\ pc[p] = "claim"
     /\ LockFree(claimLock[c])
     /\ IF Claimable(c)
          THEN /\ claimLock' = [claimLock EXCEPT ![c] = p]
               /\ Goto(p, "payee")
               /\ UNCHANGED <<tables, userLock, memory>>
          ELSE Refuse(p)

(* CreditWalletTx *)
LockPayee(p) ==
  LET u == Payee(Event(p))
  IN /\ pc[p] = "payee"
     /\ LockFree(userLock[u])
     /\ userLock' = [userLock EXCEPT ![u] = p]
     /\ read' = [read EXCEPT ![p] = points[u]]
     /\ Goto(p, "pay")
     /\ UNCHANGED <<tables, claimLock, job, count>>

CommitPay(p) ==
  LET c == Event(p)
  IN /\ pc[p] = "pay"
     /\ claim' = [claim EXCEPT ![c] = "paid"]
     /\ points' = [points EXCEPT ![Payee(c)] = read[p] + Earnings[c[2]]]
     /\ End(p)
     /\ UNCHANGED <<registered, referredBy, reached>>

-----------------------------------------------------------------------------
(* A statement fails or the process dies: what it had not committed is     *)
(* lost, an achievement not yet claimed included.                          *)
Fail(p) ==
  /\ pc[p] # "idle"
  /\ fails < MaxFails
  /\ fails' = fails + 1
  /\ Refuse(p)

PayStep(p) == ClaimReward(p) \/ LockPayee(p) \/ CommitPay(p)

Step(p) ==
  /\ \/ InsertUser(p) \/ LockReferrer(p) \/ CountPaid(p) \/ CountPending(p) \/ CommitRegister(p)
     \/ LockWallet(p) \/ CommitMilestone(p) \/ PayStep(p)
  /\ UNCHANGED fails

(* Requests arrive, the job looks around. *)
Arrive(p) ==
  /\ \E u \in Users :
       RegisterUser(p, u) \/ GoogleLogin(p, u) \/ \E k \in Milestones : Milestone(p, u, k)
  /\ UNCHANGED fails

Scan(p) == (\E c \in Claims : ScanPending(p, c)) /\ UNCHANGED fails

Next ==
  \/ \E p \in Handlers : Arrive(p)
  \/ \E p \in Crons : Scan(p)
  \/ \E p \in Processes : Step(p) \/ Fail(p)

Spec == Init /\ [][Next]_vars

(* Row locks are granted in order of arrival; the job comes back for ever. *)
Fairness ==
  /\ \A p \in Processes : SF_vars(Step(p))
  /\ \A p \in Crons : WF_vars(Scan(p))

FairSpec == Spec /\ Fairness

-----------------------------------------------------------------------------
(* Correctness *)

(* Registrations, milestones of several referred users and payouts by any  *)
(* replica, in any order and with failures: a claim arises once, within    *)
(* the cap of its referrer, and becomes coins once; a registration counts  *)
(* paid and unpaid events one after the other and misses none.             *)
Promise == INSTANCE Bonus WITH
  members <- registered, wallet <- points,
  claim <- [c \in Claims |-> IF claim[c] = "pending" THEN "owed" ELSE claim[c]]

BonusSpec == Promise!BonusSpec

(* Nothing earned is forgotten: a milestone on record has its event unless *)
(* the referrer's cap is used up, whatever raced with it.                  *)
MilestonesRewarded ==
  \A c \in reached :
    LET r == referredBy[c[1]]
    IN \/ r = 0
       \/ claim[c] # "none"
       \/ Cardinality(Events(r, {"pending", "paid"})) = MaxReferralRewards

RewardsInv == TypeOK /\ MilestonesRewarded

(* p waits for a row that q holds. *)
WaitsFor(p, q) ==
  \/ pc[p] = "insert" /\ userLock[job[p].user] = q
  \/ pc[p] = "referrer" /\ job[p].code \in registered /\ userLock[job[p].code] = q
  \/ pc[p] = "wallets" /\ \E w \in Users : IsNext(p, w) /\ userLock[w] = q
  \/ pc[p] = "claim" /\ claimLock[Event(p)] = q
  \/ pc[p] = "payee" /\ userLock[Payee(Event(p))] = q

Circle(S) ==
  /\ S # {}
  /\ \A p \in S : (\E q \in S : WaitsFor(p, q)) /\ (\E q \in S : WaitsFor(q, p))

(* Two newcomers, a newcomer and a milestone, milestones and payouts of    *)
(* one referrer do not lock each other out: whoever is waited for is at    *)
(* work, and no transactions wait for one another in a circle.             *)
NobodyStuck ==
  /\ \A p, q \in Processes : WaitsFor(p, q) => pc[q] # "idle"
  /\ \A S \in SUBSET Processes : ~Circle(S)

ReferralInv == RewardsInv /\ NobodyStuck

(* Events get paid, though payers die: the claim is undone with the        *)
(* transaction, and the next round finds it again.                         *)
PendingIsPaid == []<>(\A c \in Claims : claim[c] # "pending")
=============================================================================
